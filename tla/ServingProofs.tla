------------------------------ MODULE ServingProofs ------------------------------
(* Proofs about what keeps connections: the service and its limits, the         *)
(* listeners, the connect calls, the reconnecting client, the middleware and    *)
(* the circuit breaker, each for any constants, and the composition of MCServing. *)
(*                                                                              *)
(* A part per component: its inductive invariant, one lemma per step or group of *)
(* steps, and what the invariant says of the properties.                        *)
EXTENDS MCServing, FiniteSetTheorems, SequenceTheorems, WellFoundedInduction, TLAPS

(***************************************************************************)
(* Sequences that hold each member of a set once.                          *)
(***************************************************************************)
\* A sequence that holds each member of a set once.
Lists(T, s, S) == s \in Seq(T) /\ ToSet(s) = S /\ IsInjective(s)

LEMMA ListsMore ==
    ASSUME NEW T, NEW s, NEW S, Lists(T, s, S), NEW p \in T, p \notin S
    PROVE  Lists(T, Append(s, p), S \cup {p})
<1> DEFINE t == Append(s, p)
<1>1. s \in Seq(T) /\ DOMAIN s = 1 .. Len(s) /\ Len(s) \in Nat
  BY LenProperties DEF Lists
<1>2. /\ t \in Seq(T) /\ Len(t) = Len(s) + 1 /\ DOMAIN t = 1 .. (Len(s) + 1)
      /\ \A i \in 1 .. Len(s) : t[i] = s[i]
      /\ t[Len(s) + 1] = p
  BY <1>1, AppendProperties, LenProperties
<1>3. \A i \in DOMAIN t : i \in 1 .. Len(s) \/ i = Len(s) + 1
  BY <1>1, <1>2
<1>4. Len(s) + 1 \in DOMAIN t /\ \A i \in 1 .. Len(s) : i \in DOMAIN t
  BY <1>1, <1>2
<1>5. \A i \in 1 .. Len(s) : s[i] \in S
  BY <1>1 DEF Lists, ToSet
<1>6. S = {s[i] : i \in 1 .. Len(s)}
  BY <1>1 DEF Lists, ToSet
<1> HIDE DEF t
<1>7. ToSet(t) = S \cup {p}
  <2>1. \A x \in ToSet(t) : x \in S \cup {p}
    BY <1>2, <1>3, <1>5 DEF ToSet
  <2>2. \A x \in S : x \in ToSet(t)
    BY <1>2, <1>4, <1>6 DEF ToSet
  <2>3. p \in ToSet(t)
    BY <1>2, <1>4 DEF ToSet
  <2> QED BY <2>1, <2>2, <2>3
<1>8. IsInjective(t)
  <2>1. \A i, j \in 1 .. Len(s) : s[i] = s[j] => i = j
    BY <1>1 DEF Lists, IsInjective
  <2>2. \A i \in 1 .. Len(s) : t[i] # p
    BY <1>2, <1>5
  <2>3. \A i, j \in DOMAIN t : t[i] = t[j] => i = j
    BY <1>1, <1>2, <1>3, <2>1, <2>2
  <2> QED BY <2>3 DEF IsInjective
<1> QED BY <1>2, <1>7, <1>8 DEF Lists, t

LEMMA ListsLess ==
    ASSUME NEW T, NEW s, NEW S, Lists(T, s, S), s # <<>>
    PROVE  Head(s) \in S /\ Head(s) \in T /\ Lists(T, Tail(s), S \ {Head(s)})
<1> DEFINE t == Tail(s)
<1>1. s \in Seq(T) /\ DOMAIN s = 1 .. Len(s) /\ Len(s) \in Nat \ {0}
  BY LenProperties, EmptySeq DEF Lists
<1>2. /\ t \in Seq(T) /\ Len(t) = Len(s) - 1 /\ DOMAIN t = 1 .. (Len(s) - 1)
      /\ \A i \in 1 .. Len(t) : t[i] = s[i + 1]
      /\ Head(s) = s[1] /\ Head(s) \in T
  BY <1>1, HeadTailProperties, LenProperties, EmptySeq
<1>3. S = {s[i] : i \in 1 .. Len(s)} /\ \A i, j \in 1 .. Len(s) : s[i] = s[j] => i = j
  BY <1>1 DEF Lists, ToSet, IsInjective
<1>4. \A i \in DOMAIN t : i + 1 \in 1 .. Len(s) /\ t[i] = s[i + 1] /\ i + 1 # 1
  BY <1>1, <1>2
<1>5. 1 \in 1 .. Len(s) /\ \A i \in 1 .. Len(s) : i = 1 \/ (i - 1 \in DOMAIN t /\ t[i - 1] = s[i])
  BY <1>1, <1>2
<1> HIDE DEF t
<1>6. ToSet(t) = S \ {Head(s)}
  <2>1. \A x \in ToSet(t) : x \in S /\ x # Head(s)
    BY <1>2, <1>3, <1>4, <1>5 DEF ToSet
  <2>2. \A x \in S \ {Head(s)} : x \in ToSet(t)
    BY <1>2, <1>3, <1>5 DEF ToSet
  <2> QED BY <2>1, <2>2
<1>7. IsInjective(t)
  <2>1. \A i, j \in DOMAIN t : t[i] = t[j] => i = j
    <3> SUFFICES ASSUME NEW i \in DOMAIN t, NEW j \in DOMAIN t, t[i] = t[j] PROVE i = j
      OBVIOUS
    <3>1. i + 1 = j + 1
      BY <1>3, <1>4
    <3>2. i \in Nat /\ j \in Nat
      BY <1>1, <1>2
    <3> QED BY <3>1, <3>2
  <2> QED BY <2>1 DEF IsInjective
<1> QED BY <1>2, <1>3, <1>5, <1>6, <1>7 DEF Lists, t

(***************************************************************************)
(* RpcService.                                                             *)
(***************************************************************************)
Connections ==
    [place    : {"away", "queued", "given", "init", "active", "out"},
     open     : BOOLEAN,
     make     : {"none", "binding", "runtime", "made", "taken", "failed"},
     handle   : {"none", "open", "closing", "closed", "broken"},
     instance : {"none", "live", "disposed"},
     lost     : BOOLEAN,
     aborted  : BOOLEAN,
     forced   : BOOLEAN,
     counted  : BOOLEAN,
     task     : {"none", "racing", "timing", "timedOut", "closing", "done"}]

Racing == {"racing", "timing", "timedOut"}

\* Where a connection is while its task runs, and behind it.
Staged(r) ==
    /\ r.place \in {"away", "queued", "given"} => r.make = "none"
    /\ r.place = "away" => ~r.open
    /\ r.place = "init" => r.task \in Racing
    /\ r.task \in Racing => r.place = (IF r.forced THEN "out" ELSE "init")
    /\ r.place = "active" => r.make = "taken" /\ r.task \in {"closing", "done"}
    /\ r.make = "none" <=> r.task = "none"
    /\ r.place \in {"init", "active"} \/ r.make = "none" => ~r.counted
    /\ r.make = "none" => ~r.forced

\* A handle exists from the creation on, and what is over holds nothing open.
Owned(r) ==
    /\ r.make \in {"none", "binding", "runtime", "failed"} <=> r.handle = "none"
    /\ r.handle = "open" => r.place = "active" \/ r.make = "made"
    /\ r.place = "active" => r.handle \in {"open", "closing"}
    /\ r.open => \/ r.place \in {"queued", "given", "init", "active"}
                 \/ r.handle = "closing"
    /\ r.handle \in {"closed", "broken"} \/ r.make = "failed" \/ r.task = "timedOut" => ~r.open
    /\ r.instance = "live" => r.make = "runtime" \/ r.handle \in {"open", "closing"}
    /\ r.forced \/ r.task = "timedOut" => r.aborted
    /\ r.task = "done" /\ r.make \in {"binding", "runtime", "made"} => r.aborted
    /\ r.task = "closing" => r.make = "taken"

Sound(r) == r \in Connections /\ Staged(r) /\ Owned(r)

\* The parts of the invariant beside the connections themselves.
ServiceTypes ==
    /\ accepted \in [values : Seq(Conns), closed : BOOLEAN]
    /\ loop \in {"next", "pending", "given", "ending", "ended"}
    /\ service \in [closed : BOOLEAN, draining : BOOLEAN]
    /\ stats \in [accepted : Nat, failed : Nat, refused : Nat, forced : Nat]
    /\ drainer \in {"none", "behindClose", "loop", "active", "done", "failed"}
    /\ closer \in {"none", "initializing", "handles", "loop", "late", "done", "failed"}
    /\ forcer \in {"none", "initializing", "handles", "done"}
    /\ awaited \in [{"forcer", "closer"} -> SUBSET Conns]

SoundAll == conn \in [Conns -> Connections] /\ \A c \in Conns : Sound(conn[c])

AcceptKept ==
    /\ \A i, j \in 1 .. Len(accepted.values) : accepted.values[i] = accepted.values[j] => i = j
    /\ \A i \in 1 .. Len(accepted.values) : conn[accepted.values[i]].place = "queued"
    /\ \A c \in Conns : conn[c].place = "given" =>
           loop = "given" /\ \A d \in Conns : conn[d].place = "given" => c = d
    /\ loop = "ended" => Initializing = {}

LimitKept == Cardinality(Active \cup Initializing) <= MaxActive

EndKept ==
    /\ drainer # "none" \/ closer # "none" => service.closed
    /\ drainer = "active" => loop = "ended"
    /\ closer = "late" => loop = "ended" /\ Active \subseteq awaited["closer"]
    /\ "done" \in {drainer, closer} => Active \cup Initializing = {}
    /\ closer \notin {"none", "done"} => ~service.draining

ServiceInv == ServiceTypes /\ SoundAll /\ AcceptKept /\ LimitKept /\ EndKept

(***************************************************************************)
(* What the parts of a step do to one connection.                          *)
(***************************************************************************)
Closing(h) == IF h = "open" THEN "closing" ELSE h

LEMMA ReportedFields ==
    ASSUME NEW r \in Connections, NEW o \in BOOLEAN
    PROVE  LET q == [Reported(r) EXCEPT !.open = o] IN
           /\ q \in Connections
           /\ q.place = r.place /\ q.open = o /\ q.make = r.make
           /\ q.handle = Closing(r.handle) /\ q.instance = r.instance
           /\ q.lost = (r.lost \/ r.make \in {"binding", "runtime", "made", "taken"})
           /\ q.aborted = r.aborted /\ q.forced = r.forced
           /\ q.counted = r.counted /\ q.task = r.task
<1> DEFINE b == r.lost \/ r.make \in {"binding", "runtime", "made", "taken"}
           h == Closing(r.handle)
<1>1. b \in BOOLEAN
  OBVIOUS
<1>2. h \in {"none", "open", "closing", "closed", "broken"}
  BY DEF Closing, Connections
<1>3. Reported(r) = [r EXCEPT !.lost = b, !.handle = h]
  BY DEF Reported, Connections, Closing
<1> HIDE DEF b, h
<1>4. LET q == [[r EXCEPT !.lost = b, !.handle = h] EXCEPT !.open = o] IN
           /\ q \in Connections
           /\ q.place = r.place /\ q.open = o /\ q.make = r.make
           /\ q.handle = h /\ q.instance = r.instance
           /\ q.lost = b
           /\ q.aborted = r.aborted /\ q.forced = r.forced
           /\ q.counted = r.counted /\ q.task = r.task
  BY <1>1, <1>2 DEF Connections
<1> QED BY <1>3, <1>4 DEF b, h

LEMMA DroppedSound ==
    ASSUME NEW r, Sound(r)
    PROVE  /\ Sound(Dropped(r)) /\ Dropped(r).place = r.place /\ ~Dropped(r).open
           /\ Dropped(r).handle = Closing(r.handle)
           /\ r.handle = "open" => Dropped(r).lost
<1> DEFINE q == Dropped(r)
<1>1. /\ q \in Connections
      /\ q.place = r.place /\ q.open = FALSE /\ q.make = r.make
      /\ q.handle = Closing(r.handle) /\ q.instance = r.instance
      /\ q.lost = (r.lost \/ r.make \in {"binding", "runtime", "made", "taken"})
      /\ q.aborted = r.aborted /\ q.forced = r.forced
      /\ q.counted = r.counted /\ q.task = r.task
  BY ReportedFields DEF Sound, Dropped
<1> HIDE DEF q
<1>2. Staged(q)
  BY <1>1 DEF Sound, Staged
<1>3. Owned(q)
  BY <1>1 DEF Sound, Owned, Closing, Connections
<1>4. r.handle = "open" => q.lost
  <2>1. r.handle = "open" => r.make \in {"binding", "runtime", "made", "taken"}
    BY DEF Sound, Owned, Connections
  <2> QED BY <1>1, <2>1
<1> QED BY <1>1, <1>2, <1>3, <1>4 DEF Sound, q

LEMMA ReportedSound ==
    ASSUME NEW r, Sound(r)
    PROVE  /\ Sound(Reported(r)) /\ Reported(r).place = r.place
           /\ Reported(r).handle = Closing(r.handle)
           /\ r.handle = "open" => Reported(r).lost
<1> DEFINE q == Reported(r)
           p == [q EXCEPT !.open = r.open]
<1>0. q = p
  <2>1. q = [r EXCEPT !.lost = q.lost, !.handle = q.handle]
    BY DEF Sound, Connections, Reported
  <2> QED BY <2>1 DEF Sound, Connections
<1>1. /\ p \in Connections
      /\ p.place = r.place /\ p.open = r.open /\ p.make = r.make
      /\ p.handle = Closing(r.handle) /\ p.instance = r.instance
      /\ p.lost = (r.lost \/ r.make \in {"binding", "runtime", "made", "taken"})
      /\ p.aborted = r.aborted /\ p.forced = r.forced
      /\ p.counted = r.counted /\ p.task = r.task
  <2>1. r \in Connections /\ r.open \in BOOLEAN
    BY DEF Sound, Connections
  <2> QED BY <2>1, ReportedFields
<1> HIDE DEF q, p
<1>2. Staged(q)
  BY <1>0, <1>1 DEF Sound, Staged
<1>3. Owned(q)
  BY <1>0, <1>1 DEF Sound, Owned, Closing, Connections
<1>4. r.handle = "open" => q.lost
  <2>1. r.handle = "open" => r.make \in {"binding", "runtime", "made", "taken"}
    BY DEF Sound, Owned, Connections
  <2> QED BY <1>0, <1>1, <2>1
<1> QED BY <1>0, <1>1, <1>2, <1>3, <1>4 DEF Sound, q

LEMMA ClosedSound == ASSUME NEW r, Sound(r)
                     PROVE  /\ Sound(CloseHandle(r)) /\ CloseHandle(r).place = r.place
                            /\ CloseHandle(r).handle = Closing(r.handle)
BY DEF Sound, Staged, Owned, CloseHandle, Connections, Closing

LEMMA UndoneSound == ASSUME NEW r, Sound(r), r.make \in {"binding", "runtime"}
                     PROVE  Sound(Undone(r)) /\ Undone(r).place = r.place /\ r.handle = "none"
BY ZenonT(60) DEF Sound, Staged, Owned, Undone, Connections

(***************************************************************************)
(* The steps of one connection.                                            *)
(***************************************************************************)
\* What happens to one connection leaves it sound, moves it on at most, and does
\* not close its handle before the transport is gone or the creation aborted.
MovesOn(r, q) ==
    /\ Sound(q)
    /\ \/ q.place = r.place
       \/ r.place \in {"init", "active"} /\ q.place = "out"
       \/ r.place = "init" /\ q.place = "active"

Gracefully(r, q) == r.handle = "open" /\ q.handle # "open" => q.lost \/ r.aborted

LEMMA Bound == ASSUME NEW r, Sound(r), r.make = "binding"
               PROVE  /\ MovesOn(r, Undone(r)) /\ Gracefully(r, Undone(r))
                      /\ LET b == [r EXCEPT !.instance = "live"]
                             q == IF r.aborted \/ r.lost THEN Undone(b)
                                  ELSE [b EXCEPT !.make = "runtime"]
                         IN  MovesOn(r, q) /\ Gracefully(r, q)
<1> DEFINE b == [r EXCEPT !.instance = "live"]
<1>1. r.handle = "none"
  BY DEF Sound, Owned
<1>2. MovesOn(r, Undone(r)) /\ Gracefully(r, Undone(r))
  BY <1>1, UndoneSound DEF MovesOn, Gracefully
<1>3. MovesOn(r, Undone(b)) /\ Gracefully(r, Undone(b))
  BY <1>1, ZenonT(60) DEF MovesOn, Gracefully, Undone, Sound, Staged, Owned, Connections
<1>4. LET q == [b EXCEPT !.make = "runtime"] IN
      ~(r.aborted \/ r.lost) => MovesOn(r, q) /\ Gracefully(r, q)
  BY <1>1 DEF MovesOn, Gracefully, Sound, Staged, Owned, Connections
<1> QED BY <1>2, <1>3, <1>4

OneMovesOn(c) ==
    /\ \E q : /\ conn' = [conn EXCEPT ![c] = q] /\ MovesOn(conn[c], q)
              /\ service.draining => Gracefully(conn[c], q)
    /\ stats' \in [accepted : Nat, failed : Nat, refused : Nat, forced : Nat]
    /\ UNCHANGED <<accepted, loop, opVars>>

LEMMA MakesMovesOn ==
    ASSUME ServiceTypes, NEW c, NEW q, Makes(c, q), MovesOn(conn[c], q), Gracefully(conn[c], q)
    PROVE  OneMovesOn(c)
BY DEF ServiceTypes, Makes, OneMovesOn

LEMMA TaskMovesOn ==
    ASSUME ServiceTypes, NEW c, NEW q, NEW counters, Task(c, q, counters),
           counters \in [accepted : Nat, failed : Nat, refused : Nat, forced : Nat],
           MovesOn(conn[c], q), service.draining => Gracefully(conn[c], q)
    PROVE  OneMovesOn(c)
BY DEF ServiceTypes, Task, OneMovesOn

LEMMA BindingMovesOn == ASSUME ServiceInv, NEW c \in Conns, BindingEnds(c) PROVE OneMovesOn(c)
<1> DEFINE r == conn[c]
           b == [r EXCEPT !.instance = "live"]
           q == IF r.aborted \/ r.lost THEN Undone(b) ELSE [b EXCEPT !.make = "runtime"]
<1>1. Sound(r) /\ r.make = "binding"
  BY DEF ServiceInv, SoundAll, BindingEnds
<1>2. Makes(c, Undone(r)) \/ Makes(c, q)
  BY DEF BindingEnds
<1>3. /\ MovesOn(r, Undone(r)) /\ Gracefully(r, Undone(r))
      /\ MovesOn(r, q) /\ Gracefully(r, q)
  BY <1>1, Bound
<1> HIDE DEF r, q
<1>4. CASE Makes(c, Undone(r))
  BY <1>3, <1>4, MakesMovesOn DEF r, ServiceInv
<1>5. CASE Makes(c, q)
  BY <1>3, <1>5, MakesMovesOn DEF r, ServiceInv
<1> QED BY <1>2, <1>4, <1>5

LEMMA RuntimeMovesOn == ASSUME ServiceInv, NEW c \in Conns, RuntimeCreated(c) PROVE OneMovesOn(c)
<1> DEFINE r == conn[c]
           m == [r EXCEPT !.make = "made", !.handle = "open"]
<1>1. Sound(r) /\ r.make = "runtime"
  BY DEF ServiceInv, SoundAll, RuntimeCreated
<1>2. Makes(c, Undone(r)) \/ (~(r.aborted \/ r.lost) /\ Makes(c, m))
  BY DEF RuntimeCreated
<1>3. MovesOn(r, Undone(r)) /\ Gracefully(r, Undone(r))
  BY <1>1, UndoneSound DEF MovesOn, Gracefully
<1>4. ~r.aborted => MovesOn(r, m) /\ Gracefully(r, m)
  BY <1>1 DEF MovesOn, Gracefully, Sound, Staged, Owned, Connections, Racing
<1> HIDE DEF r, m
<1>5. CASE Makes(c, Undone(r))
  BY <1>3, <1>5, MakesMovesOn DEF r, ServiceInv
<1>6. CASE ~(r.aborted \/ r.lost) /\ Makes(c, m)
  BY <1>4, <1>6, MakesMovesOn DEF r, ServiceInv
<1> QED BY <1>2, <1>5, <1>6

LEMMA ReportMovesOn == ASSUME ServiceInv, NEW c \in Conns, TransportReports(c) PROVE OneMovesOn(c)
<1> DEFINE r == conn[c]
<1>1. Sound(r)
  BY DEF ServiceInv, SoundAll
<1>2. Makes(c, Dropped(r)) \/ Makes(c, Reported(r))
  BY DEF TransportReports
<1>3. /\ MovesOn(r, Dropped(r)) /\ Gracefully(r, Dropped(r))
      /\ MovesOn(r, Reported(r)) /\ Gracefully(r, Reported(r))
  BY <1>1, DroppedSound, ReportedSound DEF MovesOn, Gracefully
<1> HIDE DEF r
<1>4. CASE Makes(c, Dropped(r))
  BY <1>3, <1>4, MakesMovesOn DEF r, ServiceInv
<1>5. CASE Makes(c, Reported(r))
  BY <1>3, <1>5, MakesMovesOn DEF r, ServiceInv
<1> QED BY <1>2, <1>4, <1>5

LEMMA HandleMovesOn == ASSUME ServiceInv, NEW c \in Conns, HandleCloses(c) PROVE OneMovesOn(c)
<1> DEFINE r == conn[c]
<1>1. Sound(r) /\ r.handle = "closing"
  BY DEF ServiceInv, SoundAll, HandleCloses
<1>2. PICK end \in {"closed", "broken"} :
          Makes(c, [r EXCEPT !.handle = end, !.open = FALSE, !.instance = "disposed",
                             !.place = IF @ = "active" THEN "out" ELSE @])
  BY DEF HandleCloses
<1> DEFINE p == IF r.place = "active" THEN "out" ELSE r.place
           q == [r EXCEPT !.handle = end, !.open = FALSE, !.instance = "disposed", !.place = p]
<1>3. p = r.place \/ (r.place = "active" /\ p = "out")
  OBVIOUS
<1>4. Makes(c, q)
  BY <1>2
<1>5. p # "active" /\ (p \in {"away", "queued", "given", "init"} => p = r.place)
  OBVIOUS
<1> HIDE DEF p
<1>6. /\ q \in Connections
      /\ q.place = p /\ q.open = FALSE /\ q.make = r.make /\ q.handle = end
      /\ q.instance = "disposed" /\ q.lost = r.lost /\ q.aborted = r.aborted
      /\ q.forced = r.forced /\ q.counted = r.counted /\ q.task = r.task
  BY <1>1, <1>2, <1>3 DEF Sound, Connections
<1> HIDE DEF q
<1>7. r.make \in {"made", "taken"}
  BY <1>1 DEF Sound, Owned, Connections
<1>8. Staged(q)
  BY <1>1, <1>3, <1>5, <1>6, <1>7 DEF Sound, Staged, Connections, Racing
<1>9. Owned(q)
  BY <1>1, <1>2, <1>3, <1>5, <1>6, <1>7 DEF Sound, Owned
<1>10. MovesOn(r, q) /\ Gracefully(r, q)
  BY <1>1, <1>3, <1>6, <1>8, <1>9 DEF MovesOn, Gracefully, Sound
<1> HIDE DEF r
<1> QED BY <1>4, <1>10, MakesMovesOn DEF r, ServiceInv

LEMMA TimerMovesOn == ASSUME ServiceInv, NEW c \in Conns, TimerFires(c) PROVE OneMovesOn(c)
<1> DEFINE r == conn[c]
           q == [r EXCEPT !.task = "timing"]
<1>1. Sound(r) /\ r.task = "racing" /\ Task(c, q, stats)
  BY DEF ServiceInv, SoundAll, TimerFires
<1>2. MovesOn(r, q) /\ Gracefully(r, q)
  BY <1>1 DEF MovesOn, Gracefully, Sound, Staged, Owned, Connections, Racing
<1> HIDE DEF r, q
<1> QED BY <1>1, <1>2, TaskMovesOn DEF r, ServiceInv, ServiceTypes

LEMMA TimeoutMovesOn == ASSUME ServiceInv, NEW c \in Conns, TimeoutAborts(c) PROVE OneMovesOn(c)
<1> DEFINE r == conn[c]
           d == Dropped(r)
           q == [d EXCEPT !.aborted = TRUE, !.task = "timedOut"]
<1>1. Sound(r) /\ r.task = "timing" /\ Task(c, q, stats)
  BY DEF ServiceInv, SoundAll, TimeoutAborts
<1>2. d \in Connections /\ d.task = r.task /\ d.make = r.make
  BY <1>1, ReportedFields DEF Sound, Dropped
<1>3. r.handle = "open" => d.lost
  BY <1>1, DroppedSound
<1>4. Sound(d) /\ d.place = r.place /\ ~d.open
  BY <1>1, DroppedSound
<1> HIDE DEF d
<1>5. /\ q \in Connections
      /\ q.place = d.place /\ q.open = d.open /\ q.make = d.make
      /\ q.handle = d.handle /\ q.instance = d.instance /\ q.lost = d.lost
      /\ q.aborted = TRUE /\ q.forced = d.forced /\ q.counted = d.counted
      /\ q.task = "timedOut"
  BY <1>2 DEF Connections
<1> HIDE DEF q
<1>6. Staged(q)
  BY <1>1, <1>2, <1>4, <1>5 DEF Sound, Staged, Racing
<1>7. Owned(q)
  BY <1>1, <1>2, <1>4, <1>5 DEF Sound, Owned
<1>8. MovesOn(r, q) /\ Gracefully(r, q)
  BY <1>3, <1>4, <1>5, <1>6, <1>7 DEF MovesOn, Gracefully, Sound
<1> HIDE DEF r
<1> QED BY <1>1, <1>8, TaskMovesOn DEF r, ServiceInv, ServiceTypes

LEMMA FailedMovesOn == ASSUME ServiceInv, NEW c \in Conns, InitializationFails(c) PROVE OneMovesOn(c)
<1> DEFINE r == conn[c]
           p == IF r.place = "init" THEN "out" ELSE r.place
           q == [r EXCEPT !.place = p, !.counted = TRUE, !.task = "done"]
           n == [stats EXCEPT !.failed = @ + (IF conn[c].counted THEN 0 ELSE 1)]
<1>1. Sound(r) /\ ((r.task = "racing" /\ r.make = "failed") \/ r.task = "timedOut")
  BY DEF ServiceInv, SoundAll, InitializationFails
<1>2. r \in Connections /\ r.place \in {"init", "out"} /\ r.make # "none" /\ ~r.open
  BY <1>1 DEF Sound, Staged, Owned, Racing, Connections
<1>3. p = "out" /\ (p = r.place \/ (r.place = "init" /\ p = "out"))
  BY <1>2
<1>4. Task(c, q, n)
  <2>1. [Finished(r) EXCEPT !.counted = TRUE, !.task = "done"] = q
    BY <1>2 DEF Finished, Connections
  <2> QED BY <2>1 DEF InitializationFails
<1> HIDE DEF p
<1>5. /\ q \in Connections
      /\ q.place = p /\ q.open = r.open /\ q.make = r.make
      /\ q.handle = r.handle /\ q.instance = r.instance /\ q.lost = r.lost
      /\ q.aborted = r.aborted /\ q.forced = r.forced /\ q.counted = TRUE
      /\ q.task = "done"
  BY <1>2, <1>3 DEF Connections
<1> HIDE DEF q
<1>6. Staged(q)
  BY <1>1, <1>2, <1>3, <1>5 DEF Sound, Staged, Racing
<1>7. Owned(q)
  BY <1>1, <1>2, <1>3, <1>5 DEF Sound, Owned
<1>8. MovesOn(r, q) /\ Gracefully(r, q)
  BY <1>3, <1>5, <1>6, <1>7 DEF MovesOn, Gracefully, Sound
<1>9. n \in [accepted : Nat, failed : Nat, refused : Nat, forced : Nat]
  BY DEF ServiceInv, ServiceTypes
<1> HIDE DEF r, n
<1> QED BY <1>4, <1>8, <1>9, TaskMovesOn DEF r, ServiceInv

LEMMA AbandonedMovesOn == ASSUME ServiceInv, NEW c \in Conns, Abandoned(c) PROVE OneMovesOn(c)
<1> DEFINE r == conn[c]
           q == [r EXCEPT !.task = "done"]
<1>1. Sound(r) /\ r.forced /\ r.task \in Racing /\ Task(c, q, stats)
  BY DEF ServiceInv, SoundAll, Abandoned, Racing
<1>2. MovesOn(r, q) /\ Gracefully(r, q)
  BY <1>1 DEF MovesOn, Gracefully, Sound, Staged, Owned, Connections, Racing
<1> HIDE DEF r, q
<1> QED BY <1>1, <1>2, TaskMovesOn DEF r, ServiceInv, ServiceTypes

LEMMA EndMovesOn == ASSUME ServiceInv, NEW c \in Conns, TaskEnds(c) PROVE OneMovesOn(c)
<1> DEFINE r == conn[c]
           q == [r EXCEPT !.task = "done"]
<1>1. Sound(r) /\ r.task = "closing" /\ Task(c, q, stats)
  BY DEF ServiceInv, SoundAll, TaskEnds
<1>2. MovesOn(r, q) /\ Gracefully(r, q)
  BY <1>1 DEF MovesOn, Gracefully, Sound, Staged, Owned, Connections, Racing
<1> HIDE DEF r, q
<1> QED BY <1>1, <1>2, TaskMovesOn DEF r, ServiceInv, ServiceTypes

LEMMA LateMovesOn == ASSUME ServiceInv, NEW c \in Conns, LateHandle(c) PROVE OneMovesOn(c)
<1> DEFINE r == conn[c]
           d == CloseHandle(r)
           q == [d EXCEPT !.make = "taken"]
           n == [stats EXCEPT !.forced = @ + (IF conn[c].forced THEN 0 ELSE 1)]
<1>1. Sound(r) /\ r.task = "done" /\ r.make = "made" /\ Task(c, q, n)
  BY DEF ServiceInv, SoundAll, LateHandle
<1>2. r.aborted
  BY <1>1 DEF Sound, Owned
<1>3. q = [r EXCEPT !.handle = Closing(r.handle), !.make = "taken"]
  BY <1>1 DEF CloseHandle, Closing, Sound, Connections
<1> DEFINE h == Closing(r.handle)
<1>4. h # "open" /\ h \in {"none", "closing", "closed", "broken"} /\ (h = "none" <=> r.handle = "none")
      /\ (h \in {"closed", "broken"} => r.handle = h)
      /\ (r.handle \in {"open", "closing"} => h = "closing")
  BY <1>1 DEF Closing, Sound, Connections
<1> HIDE DEF h
<1>5. /\ q \in Connections
      /\ q.place = r.place /\ q.open = r.open /\ q.make = "taken"
      /\ q.handle = h /\ q.instance = r.instance /\ q.lost = r.lost
      /\ q.aborted = r.aborted /\ q.forced = r.forced /\ q.counted = r.counted
      /\ q.task = r.task
  BY <1>1, <1>3, <1>4 DEF Connections, Sound, h
<1> HIDE DEF q
<1>6. Staged(q)
  BY <1>1, <1>5 DEF Sound, Staged, Racing
<1>7. Owned(q)
  BY <1>1, <1>4, <1>5 DEF Sound, Owned
<1>8. MovesOn(r, q) /\ Gracefully(r, q)
  BY <1>2, <1>5, <1>6, <1>7 DEF MovesOn, Gracefully, Sound
<1>9. n \in [accepted : Nat, failed : Nat, refused : Nat, forced : Nat]
  BY DEF ServiceInv, ServiceTypes
<1> HIDE DEF r, n
<1> QED BY <1>1, <1>8, <1>9, TaskMovesOn DEF r, ServiceInv

\* The cases of HandleArrives: forced closed, found closing, or active.
LEMMA ArrivedSound ==
    ASSUME NEW r, Sound(r), r.task = "racing", r.make = "made",
           NEW p, NEW h, NEW t \in {"closing", "done"},
           \/ p = "out" /\ h = Closing(r.handle) /\ (r.forced \/ r.handle # "open")
           \/ ~r.forced /\ r.handle = "open" /\ p = "active" /\ h \in {"open", "closing"}
    PROVE  LET q == [r EXCEPT !.place = p, !.make = "taken", !.handle = h, !.task = t]
           IN  MovesOn(r, q) /\ ((h = "closing" /\ p = "active") \/ Gracefully(r, q))
<1> DEFINE q == [r EXCEPT !.place = p, !.make = "taken", !.handle = h, !.task = t]
<1>1. r \in Connections /\ r.handle # "none" /\ r.place = (IF r.forced THEN "out" ELSE "init")
  BY DEF Sound, Staged, Owned, Racing
<1>2. /\ h \in {"open", "closing", "closed", "broken"} /\ p \in {"out", "active"}
      /\ p = "out" => h # "open" /\ (h \in {"closed", "broken"} => r.handle = h)
      /\ p = "out" /\ r.handle \in {"open", "closing"} => h = "closing"
      /\ p = "active" => h \in {"open", "closing"} /\ ~r.forced /\ r.handle = "open"
  BY <1>1 DEF Closing, Connections
<1>3. /\ q \in Connections
      /\ q.place = p /\ q.open = r.open /\ q.make = "taken"
      /\ q.handle = h /\ q.instance = r.instance /\ q.lost = r.lost
      /\ q.aborted = r.aborted /\ q.forced = r.forced /\ q.counted = r.counted
      /\ q.task = t
  BY <1>1, <1>2 DEF Connections
<1> HIDE DEF q
<1>4. Staged(q)
  BY <1>1, <1>2, <1>3 DEF Sound, Staged, Racing
<1>5. r.open => r.place = "init" \/ r.handle = "closing"
  BY <1>1 DEF Sound, Owned
<1>6. r.open /\ p = "out" => h = "closing"
  BY <1>1, <1>2, <1>5 DEF Sound, Owned, Closing
<1>7. Owned(q)
  BY <1>1, <1>2, <1>3, <1>6 DEF Sound, Owned
<1>8. r.forced => r.aborted
  BY DEF Sound, Owned
<1>9. MovesOn(r, q)
  BY <1>1, <1>2, <1>3, <1>4, <1>7 DEF MovesOn, Sound
<1>10. (h = "closing" /\ p = "active") \/ Gracefully(r, q)
  BY <1>2, <1>3, <1>8 DEF Gracefully
<1> QED BY <1>9, <1>10 DEF q

LEMMA ArrivalMovesOn == ASSUME ServiceInv, NEW c \in Conns, HandleArrives(c) PROVE OneMovesOn(c)
<1> DEFINE r == conn[c]
           f == [Finished(r) EXCEPT !.make = "taken", !.task = "done"]
           q(p, h, t) == [r EXCEPT !.place = p, !.make = "taken", !.handle = h, !.task = t]
           n == [stats EXCEPT !.forced = @ + 1]
<1>1. Sound(r) /\ r.task = "racing" /\ r.make = "made"
  BY DEF ServiceInv, SoundAll, HandleArrives
<1>2. /\ r \in Connections /\ r.place \in {"init", "out"}
      /\ f = [r EXCEPT !.place = "out", !.make = "taken", !.task = "done"]
      /\ f.forced = r.forced /\ f.handle = r.handle /\ f \in Connections
  BY <1>1 DEF Sound, Staged, Racing, Finished, Connections
<1>3. [CloseHandle(f) EXCEPT !.task = "closing"] = q("out", Closing(r.handle), "closing")
  BY <1>2 DEF CloseHandle, Closing, Connections
<1>4. f = q("out", r.handle, "done")
  BY <1>2, ZenonT(60) DEF Connections
<1>5. [CloseHandle(f) EXCEPT !.place = "active", !.task = "closing"]
          = q("active", Closing(r.handle), "closing")
  BY <1>2 DEF CloseHandle, Closing, Connections
<1>6. [f EXCEPT !.place = "active"] = q("active", r.handle, "done")
  <2>1. r.handle \in {"none", "open", "closing", "closed", "broken"}
    BY <1>2 DEF Connections
  <2> DEFINE h == r.handle
             a == q("out", h, "done")
  <2> HIDE DEF h
  <2>2. [a EXCEPT !.place = "active"] = q("active", h, "done")
    BY <1>2, <2>1 DEF Connections
  <2>3. f = a
    BY <1>4 DEF h
  <2> HIDE DEF f, a
  <2> QED BY <2>2, <2>3 DEF h
<1>7. \/ r.forced /\ Task(c, q("out", Closing(r.handle), "closing"), stats)
      \/ r.handle # "open" /\ Task(c, q("out", r.handle, "done"), stats)
      \/ /\ ~r.forced /\ r.handle = "open" /\ ForcesNewcomers
         /\ Task(c, q("active", Closing(r.handle), "closing"), n)
      \/ ~r.forced /\ r.handle = "open" /\ Task(c, q("active", r.handle, "done"), stats)
  BY <1>2, <1>3, <1>4, <1>5, <1>6 DEF HandleArrives
<1>8. /\ n \in [accepted : Nat, failed : Nat, refused : Nat, forced : Nat]
      /\ stats \in [accepted : Nat, failed : Nat, refused : Nat, forced : Nat]
  BY DEF ServiceInv, ServiceTypes
<1> HIDE DEF n, f
<1>9. CASE r.forced /\ Task(c, q("out", Closing(r.handle), "closing"), stats)
  <2> DEFINE s == q("out", Closing(r.handle), "closing")
  <2>1. MovesOn(r, s) /\ Gracefully(r, s)
    BY <1>1, <1>9, ArrivedSound
  <2> HIDE DEF s, r
  <2> QED BY <1>8, <1>9, <2>1, TaskMovesOn DEF s, r, ServiceInv
<1>10. CASE r.handle # "open" /\ Task(c, q("out", r.handle, "done"), stats)
  <2> DEFINE s == q("out", r.handle, "done")
  <2>1. Closing(r.handle) = r.handle
    BY <1>10 DEF Closing
  <2>2. MovesOn(r, s) /\ Gracefully(r, s)
    BY <1>1, <1>10, <2>1, ArrivedSound
  <2> HIDE DEF s, r
  <2> QED BY <1>8, <1>10, <2>2, TaskMovesOn DEF s, r, ServiceInv
<1>11. CASE /\ ~r.forced /\ r.handle = "open" /\ ForcesNewcomers
            /\ Task(c, q("active", Closing(r.handle), "closing"), n)
  <2> DEFINE s == q("active", Closing(r.handle), "closing")
  <2>1. Closing(r.handle) = "closing"
    BY <1>11 DEF Closing
  <2>2. MovesOn(r, s)
    BY <1>1, <1>11, <2>1, ArrivedSound
  <2>3. ~service.draining
    BY <1>11 DEF ForcesNewcomers
  <2> HIDE DEF s, r
  <2> QED BY <1>8, <1>11, <2>2, <2>3, TaskMovesOn DEF s, r, ServiceInv
<1>12. CASE ~r.forced /\ r.handle = "open" /\ Task(c, q("active", r.handle, "done"), stats)
  <2> DEFINE s == q("active", r.handle, "done")
  <2>1. MovesOn(r, s) /\ Gracefully(r, s)
    BY <1>1, <1>12, ArrivedSound
  <2> HIDE DEF s, r
  <2> QED BY <1>8, <1>12, <2>1, TaskMovesOn DEF s, r, ServiceInv
<1> QED BY <1>7, <1>9, <1>10, <1>11, <1>12

(***************************************************************************)
(* The service as a whole.                                                 *)
(***************************************************************************)
LEMMA ActiveFinite == IsFiniteSet(Active \cup Initializing)
<1>1. Active \cup Initializing \subseteq Conns
  BY DEF Active, Initializing
<1> QED BY <1>1, ServiceAssumption, FS_Subset

\* No step of a connection takes it in: the places only empty.
Passes(p, q) == p = q \/ (p \in {"queued", "init", "active"} /\ q = "out") \/ (p = "init" /\ q = "active")

LEMMA Emptier ==
    ASSUME ServiceInv, \A c \in Conns : Passes(conn[c].place, conn'[c].place)
    PROVE  /\ Active' \cup Initializing' \subseteq Active \cup Initializing
           /\ Initializing' \subseteq Initializing
           /\ Active' \subseteq Active \cup Initializing
           /\ LimitKept'
           /\ \A c \in Conns : conn'[c].place = "given" => conn[c].place = "given"
<1>1. /\ Active' \cup Initializing' \subseteq Active \cup Initializing
      /\ Initializing' \subseteq Initializing
      /\ Active' \subseteq Active \cup Initializing
  BY DEF Passes, Active, Initializing
<1>2. Cardinality(Active' \cup Initializing') <= Cardinality(Active \cup Initializing)
      /\ Cardinality(Active' \cup Initializing') \in Nat
      /\ Cardinality(Active \cup Initializing) \in Nat
  BY <1>1, ActiveFinite, FS_Subset, FS_CardinalityType
<1>3. MaxActive \in Nat
  BY ServiceAssumption
<1>4. LimitKept'
  BY <1>2, <1>3 DEF ServiceInv, LimitKept
<1> QED BY <1>1, <1>4 DEF Passes

LEMMA AcceptStays ==
    ASSUME ServiceInv, \A c \in Conns : Passes(conn[c].place, conn'[c].place),
           \A c \in Conns : conn[c].place = "queued" => conn'[c].place = "queued",
           UNCHANGED <<accepted, loop>>
    PROVE  AcceptKept'
<1>1. Initializing' \subseteq Initializing /\ \A c \in Conns : conn'[c].place = "given" => conn[c].place = "given"
  BY Emptier
<1>2. \A i \in 1 .. Len(accepted.values) : accepted.values[i] \in Conns
  BY DEF ServiceInv, ServiceTypes
<1> QED BY <1>1, <1>2 DEF ServiceInv, AcceptKept

LEMMA EndStays ==
    ASSUME ServiceInv, \A c \in Conns : Passes(conn[c].place, conn'[c].place),
           UNCHANGED <<loop, opVars>>
    PROVE  EndKept'
<1>1. /\ Active' \cup Initializing' \subseteq Active \cup Initializing
      /\ Initializing' \subseteq Initializing
      /\ Active' \subseteq Active \cup Initializing
  BY Emptier
<1>2. UNCHANGED <<loop, service, drainer, closer, awaited>>
  BY DEF opVars
<1>3. closer = "late" => Active' \subseteq awaited["closer"]
  BY <1>1 DEF ServiceInv, EndKept, AcceptKept
<1> QED BY <1>1, <1>2, <1>3 DEF ServiceInv, EndKept

LEMMA OneInv == ASSUME ServiceInv, NEW c \in Conns, OneMovesOn(c) PROVE ServiceInv'
<1>1. PICK q : conn' = [conn EXCEPT ![c] = q] /\ MovesOn(conn[c], q)
  BY DEF OneMovesOn
<1>2. UNCHANGED <<accepted, loop, opVars>>
  BY DEF OneMovesOn
<1>3. ServiceTypes'
  BY <1>2 DEF OneMovesOn, ServiceInv, ServiceTypes, opVars
<1>4. /\ \A d \in Conns : d # c => conn'[d] = conn[d]
      /\ conn'[c] = q /\ Sound(q) /\ q \in Connections
      /\ conn' \in [Conns -> Connections]
  BY <1>1 DEF ServiceInv, SoundAll, MovesOn, Sound
<1>5. SoundAll'
  BY <1>4 DEF ServiceInv, SoundAll
<1>6. \A d \in Conns : /\ Passes(conn[d].place, conn'[d].place)
                       /\ conn[d].place = "queued" => conn'[d].place = "queued"
  BY <1>1, <1>4 DEF MovesOn, Passes
<1>7. AcceptKept' /\ EndKept' /\ LimitKept'
  BY <1>2, <1>6, AcceptStays, EndStays, Emptier
<1> QED BY <1>3, <1>5, <1>7 DEF ServiceInv

\* A connection that is not being made may be moved about.
Placed(r, p, o) == [r EXCEPT !.place = p, !.open = o]

LEMMA Untouched ==
    ASSUME NEW r, Sound(r), r.make = "none", NEW p \in {"queued", "given", "out"}, NEW o \in BOOLEAN,
           p = "out" => o = FALSE
    PROVE  /\ Sound(Placed(r, p, o)) /\ Placed(r, p, o).place = p
           /\ Placed(r, p, o).handle = "none" /\ r.handle = "none"
BY DEF Placed, Sound, Staged, Owned, Connections, Racing

LEMMA TurnedSound ==
    ASSUME ServiceInv, NEW c \in Conns, conn[c].place \in {"queued", "given"}
    PROVE  /\ Turned(c)[c] = [conn[c] EXCEPT !.place = "out", !.open = FALSE]
           /\ Turned(c) = [conn EXCEPT ![c] = [conn[c] EXCEPT !.place = "out", !.open = FALSE]]
           /\ Sound(Turned(c)[c]) /\ Turned(c)[c].place = "out"
           /\ Turned(c)[c].handle = conn[c].handle
<1> DEFINE r == conn[c]
           q == [r EXCEPT !.place = "out", !.open = FALSE]
<1>1. Sound(r) /\ r \in Connections /\ conn \in [Conns -> Connections]
  BY DEF ServiceInv, SoundAll, Sound
<1>2. Turned(c) = [conn EXCEPT ![c] = q] /\ Turned(c)[c] = q
  BY <1>1 DEF Turned
<1>3. r.make = "none"
  BY <1>1 DEF Sound, Staged
<1>4. Sound(q) /\ q.place = "out" /\ q.handle = "none" /\ r.handle = "none"
  <2>1. q = Placed(r, "out", FALSE)
    BY DEF Placed
  <2> HIDE DEF r, q
  <2> QED BY <1>1, <1>3, <2>1, Untouched
<1> QED BY <1>2, <1>4

LEMMA ArriveInv == ASSUME ServiceInv, NEW c \in Conns, Arrive(c) PROVE ServiceInv'
<1> DEFINE r == conn[c]
           vs == accepted.values
<1>1. Sound(r) /\ r \in Connections /\ r.place = "away" /\ conn \in [Conns -> Connections]
  BY DEF ServiceInv, SoundAll, Sound, Arrive
<1>2. r.make = "none" /\ r.open = FALSE
  BY <1>1 DEF Sound, Staged, Connections
<1>3. UNCHANGED <<stats, opVars>>
  BY DEF Arrive
<1>4. PICK p \in {"queued", "given", "out"}, o \in BOOLEAN :
          /\ conn' = [conn EXCEPT ![c] = [r EXCEPT !.place = p, !.open = o]]
          /\ p = "out" => o = FALSE
          /\ \/ p = "out" /\ UNCHANGED <<accepted, loop>>
             \/ p = "given" /\ loop = "pending" /\ loop' = "given" /\ UNCHANGED accepted
             \/ p = "queued" /\ accepted' = [accepted EXCEPT !.values = Append(vs, c)]
                /\ UNCHANGED loop
  <2>1. CASE accepted.closed
    <3>1. [r EXCEPT !.place = "out"] = [r EXCEPT !.place = "out", !.open = FALSE]
      BY <1>1, <1>2 DEF Connections
    <3>2. conn' = [conn EXCEPT ![c] = [r EXCEPT !.place = "out"]] /\ UNCHANGED <<accepted, loop>>
      BY <1>1, <2>1 DEF Arrive
    <3> QED BY <3>1, <3>2
  <2>2. CASE ~accepted.closed /\ loop = "pending"
    <3>1. /\ conn' = [conn EXCEPT ![c] = [r EXCEPT !.place = "given", !.open = TRUE]]
          /\ loop' = "given" /\ UNCHANGED accepted
      BY <1>1, <2>2 DEF Arrive
    <3> QED BY <2>2, <3>1
  <2>3. CASE ~accepted.closed /\ loop # "pending"
    <3>1. /\ conn' = [conn EXCEPT ![c] = [r EXCEPT !.place = "queued", !.open = TRUE]]
          /\ accepted' = [accepted EXCEPT !.values = Append(vs, c)] /\ UNCHANGED loop
      BY <1>1, <2>3 DEF Arrive
    <3> QED BY <3>1
  <2> QED BY <2>1, <2>2, <2>3
<1> DEFINE q == [r EXCEPT !.place = p, !.open = o]
<1>5. Sound(q) /\ q.place = p
  <2>1. Sound(r) /\ r.make = "none" /\ (p = "out" => o = FALSE)
    BY <1>1, <1>2, <1>4
  <2>2. q = Placed(r, p, o)
    BY DEF Placed
  <2> HIDE DEF r, q
  <2> QED BY <2>1, <2>2, Untouched
<1>6. /\ \A d \in Conns : d # c => conn'[d] = conn[d]
      /\ conn'[c] = q /\ q \in Connections
      /\ conn' \in [Conns -> Connections]
  BY <1>1, <1>4, <1>5 DEF Sound
<1> HIDE DEF q
<1>7. SoundAll'
  BY <1>5, <1>6 DEF ServiceInv, SoundAll
<1>8. Active' = Active /\ Initializing' = Initializing
  BY <1>1, <1>4, <1>5, <1>6 DEF Active, Initializing
<1>9. vs \in Seq(Conns) /\ \A i \in 1 .. Len(vs) : vs[i] # c
  BY <1>1 DEF ServiceInv, ServiceTypes, AcceptKept
<1>10. /\ Append(vs, c) \in Seq(Conns) /\ Len(Append(vs, c)) = Len(vs) + 1 /\ Len(vs) \in Nat
       /\ \A i \in 1 .. Len(vs) : Append(vs, c)[i] = vs[i]
       /\ Append(vs, c)[Len(vs) + 1] = c
  BY <1>9, AppendProperties, LenProperties
<1>11. ServiceTypes'
  <2>1. accepted' = accepted \/ accepted' = [accepted EXCEPT !.values = Append(vs, c)]
    BY <1>4
  <2>2. accepted' \in [values : Seq(Conns), closed : BOOLEAN]
    BY <1>10, <2>1 DEF ServiceInv, ServiceTypes
  <2> QED BY <1>3, <1>4, <2>2 DEF ServiceInv, ServiceTypes, opVars
<1>12. AcceptKept'
  <2>1. \A d \in Conns : conn'[d].place = "given" =>
            loop' = "given" /\ \A e \in Conns : conn'[e].place = "given" => d = e
    <3>1. CASE p # "given"
      <4>1. \A d \in Conns : conn'[d].place = "given" => d # c /\ conn[d].place = "given"
        BY <1>5, <1>6, <3>1
      <4>2. loop' = loop
        BY <1>4, <3>1
      <4> QED BY <4>1, <4>2 DEF ServiceInv, AcceptKept
    <3>2. CASE p = "given"
      <4>1. loop # "given" /\ loop' = "given"
        BY <1>4, <3>2
      <4>2. \A d \in Conns : conn[d].place # "given"
        BY <4>1 DEF ServiceInv, AcceptKept
      <4> QED BY <1>6, <4>1, <4>2
    <3> QED BY <3>1, <3>2
  <2>2. loop' = "ended" => Initializing' = {}
    BY <1>4, <1>8 DEF ServiceInv, AcceptKept
  <2>3. CASE accepted' = accepted
    <3>1. \A i \in 1 .. Len(vs) : vs[i] \in Conns /\ conn[vs[i]].place = "queued"
      BY <1>9 DEF ServiceInv, AcceptKept
    <3>2. \A i, j \in 1 .. Len(vs) : vs[i] = vs[j] => i = j
      BY DEF ServiceInv, AcceptKept
    <3>3. \A i \in 1 .. Len(vs) : conn'[vs[i]].place = "queued"
      BY <1>6, <1>9, <3>1
    <3> QED BY <2>1, <2>2, <2>3, <3>2, <3>3 DEF AcceptKept
  <2>4. CASE p = "queued" /\ accepted' = [accepted EXCEPT !.values = Append(vs, c)]
    <3>1. accepted'.values = Append(vs, c)
      BY <2>4 DEF ServiceInv, ServiceTypes
    <3>2. \A i \in 1 .. Len(vs) + 1 : i \in 1 .. Len(vs) \/ i = Len(vs) + 1
      BY <1>10
    <3>3. \A i \in 1 .. Len(vs) : vs[i] \in Conns /\ conn[vs[i]].place = "queued"
      BY <1>9 DEF ServiceInv, AcceptKept
    <3>4. \A i, j \in 1 .. Len(vs) : vs[i] = vs[j] => i = j
      BY DEF ServiceInv, AcceptKept
    <3> DEFINE w == Append(vs, c)
    <3> HIDE DEF w, vs
    <3>5. \A i, j \in 1 .. Len(w) : w[i] = w[j] => i = j
      BY <1>9, <1>10, <3>2, <3>4 DEF w
    <3>6. \A i \in 1 .. Len(w) : conn'[w[i]].place = "queued"
      BY <1>5, <1>6, <1>9, <1>10, <2>4, <3>2, <3>3 DEF w
    <3> QED BY <2>1, <2>2, <3>1, <3>5, <3>6 DEF AcceptKept, w
  <2> QED BY <1>4, <2>3, <2>4
<1>13. LimitKept'
  BY <1>8 DEF ServiceInv, LimitKept
<1>14. EndKept'
  BY <1>3, <1>4, <1>8 DEF ServiceInv, EndKept, opVars
<1> QED BY <1>7, <1>11, <1>12, <1>13, <1>14 DEF ServiceInv

LEMMA LoopNextInv == ASSUME ServiceInv, LoopNext PROVE ServiceInv'
<1> DEFINE vs == accepted.values
           c == Head(vs)
           r == conn[c]
           q == [r EXCEPT !.place = "given"]
<1>1. /\ loop = "next" /\ UNCHANGED <<stats, opVars>>
      /\ vs \in Seq(Conns) /\ accepted \in [values : Seq(Conns), closed : BOOLEAN]
  BY DEF LoopNext, ServiceInv, ServiceTypes
<1>2. \A d \in Conns : conn[d].place # "given"
  BY <1>1 DEF ServiceInv, AcceptKept
<1>3. CASE vs = <<>>
  <2>1. loop' \in {"ending", "pending"} /\ UNCHANGED <<conn, accepted>>
    BY <1>3 DEF LoopNext
  <2>2. Active' = Active /\ Initializing' = Initializing
    BY <2>1 DEF Active, Initializing
  <2>3. ServiceTypes' /\ SoundAll' /\ LimitKept'
    BY <1>1, <2>1, <2>2 DEF ServiceInv, ServiceTypes, SoundAll, LimitKept, opVars
  <2>4. AcceptKept'
    BY <1>2, <2>1 DEF ServiceInv, AcceptKept
  <2>5. EndKept'
    BY <1>1, <2>1, <2>2 DEF ServiceInv, EndKept, opVars
  <2> QED BY <2>3, <2>4, <2>5 DEF ServiceInv
<1>4. CASE vs # <<>>
  <2>1. /\ conn' = [conn EXCEPT ![c].place = "given"]
        /\ accepted' = [accepted EXCEPT !.values = Tail(@)]
        /\ loop' = "given"
    BY <1>4 DEF LoopNext
  <2>2. /\ Tail(vs) \in Seq(Conns) /\ Len(Tail(vs)) = Len(vs) - 1 /\ Len(vs) \in Nat \ {0}
        /\ \A i \in 1 .. Len(Tail(vs)) : Tail(vs)[i] = vs[i + 1]
        /\ c = vs[1] /\ c \in Conns
    BY <1>1, <1>4, HeadTailProperties, EmptySeq, LenProperties
  <2>3. conn \in [Conns -> Connections] /\ Sound(r) /\ r \in Connections /\ r.place = "queued"
    BY <2>2 DEF ServiceInv, SoundAll, AcceptKept, Sound
  <2>4. r.make = "none" /\ r.open \in BOOLEAN
    BY <2>3 DEF Sound, Staged, Connections
  <2>5. Sound(q) /\ q.place = "given"
    <3>1. q = Placed(r, "given", r.open)
      BY <2>3 DEF Placed, Connections
    <3> HIDE DEF r, q
    <3> QED BY <2>3, <2>4, <3>1, Untouched
  <2>6. conn' = [conn EXCEPT ![c] = q]
    BY <2>1, <2>3
  <2>7. /\ \A d \in Conns : d # c => conn'[d] = conn[d]
        /\ conn'[c] = q /\ q \in Connections
        /\ conn' \in [Conns -> Connections]
    BY <2>2, <2>3, <2>5, <2>6 DEF Sound
  <2> HIDE DEF q
  <2>8. SoundAll'
    BY <2>2, <2>5, <2>7 DEF ServiceInv, SoundAll
  <2>9. Active' = Active /\ Initializing' = Initializing
    BY <2>2, <2>3, <2>5, <2>7 DEF Active, Initializing
  <2>10. accepted' \in [values : Seq(Conns), closed : BOOLEAN] /\ accepted'.values = Tail(vs)
    BY <1>1, <2>1, <2>2
  <2>11. ServiceTypes'
    BY <1>1, <2>1, <2>10 DEF ServiceInv, ServiceTypes, opVars
  <2>12. AcceptKept'
    <3> DEFINE t == Tail(vs)
    <3>1. /\ \A i, j \in 1 .. Len(vs) : vs[i] = vs[j] => i = j
          /\ \A i \in 1 .. Len(vs) : conn[vs[i]].place = "queued" /\ vs[i] \in Conns
      BY <1>1 DEF ServiceInv, AcceptKept
    <3> HIDE DEF c
    <3>2. \A i \in 1 .. Len(t) : i + 1 \in 1 .. Len(vs) /\ t[i] = vs[i + 1] /\ t[i] # c
      BY <2>2, <3>1
    <3> HIDE DEF t, vs
    <3>3. \A i, j \in 1 .. Len(t) : t[i] = t[j] => i = j
      BY <3>1, <3>2
    <3>4. \A i \in 1 .. Len(t) : conn'[t[i]].place = "queued"
      BY <2>7, <3>1, <3>2
    <3>5. \A d \in Conns : conn'[d].place = "given" => d = c
      BY <1>2, <2>7
    <3>6. loop' = "given" /\ accepted'.values = t
      BY <2>1, <2>10 DEF t
    <3> QED BY <2>9, <3>3, <3>4, <3>5, <3>6 DEF AcceptKept
  <2>13. LimitKept' /\ EndKept'
    BY <1>1, <2>1, <2>9 DEF ServiceInv, LimitKept, EndKept, opVars
  <2> QED BY <2>8, <2>11, <2>12, <2>13 DEF ServiceInv
<1> QED BY <1>3, <1>4

LEMMA LoopEndsInv == ASSUME ServiceInv, SourceFails \/ LoopEnds PROVE ServiceInv'
<1>1. UNCHANGED <<conn, accepted, stats, opVars>> /\ loop \in {"pending", "ending"}
  BY DEF SourceFails, LoopEnds
<1>2. loop' = "ending" \/ (loop' = "ended" /\ Tasks = {})
  BY DEF SourceFails, LoopEnds
<1>3. Active' = Active /\ Initializing' = Initializing
  BY <1>1 DEF Active, Initializing
<1>4. ServiceTypes' /\ SoundAll' /\ LimitKept'
  BY <1>1, <1>2, <1>3 DEF ServiceInv, ServiceTypes, SoundAll, LimitKept, opVars
<1>5. Tasks = {} => Initializing = {}
  <2>1. \A c \in Conns : conn[c].place = "init" => conn[c].task \in Racing
    BY DEF ServiceInv, SoundAll, Sound, Staged
  <2> QED BY <2>1 DEF Tasks, Initializing, Racing
<1>6. AcceptKept'
  BY <1>1, <1>2, <1>3, <1>5 DEF ServiceInv, AcceptKept
<1>7. EndKept'
  BY <1>1, <1>2, <1>3 DEF ServiceInv, EndKept, opVars
<1> QED BY <1>4, <1>6, <1>7 DEF ServiceInv

LEMMA TakenIn == ASSUME NEW r, Sound(r), r.place = "given"
                 PROVE  LET q == [r EXCEPT !.place = "init", !.make = "binding",
                                           !.task = "racing", !.lost = ~r.open]
                        IN  Sound(q) /\ q.place = "init"
<1> DEFINE b == ~r.open
           q == [r EXCEPT !.place = "init", !.make = "binding", !.task = "racing", !.lost = b]
<1>1. r \in Connections /\ r.make = "none" /\ r.handle = "none" /\ b \in BOOLEAN
  BY DEF Sound, Staged, Owned
<1> HIDE DEF b
<1>2. /\ q \in Connections
      /\ q.place = "init" /\ q.open = r.open /\ q.make = "binding"
      /\ q.handle = "none" /\ q.instance = r.instance /\ q.lost = b
      /\ q.aborted = r.aborted /\ q.forced = r.forced /\ q.counted = r.counted
      /\ q.task = "racing"
  BY <1>1 DEF Connections
<1> HIDE DEF q
<1>3. Staged(q)
  BY <1>1, <1>2 DEF Sound, Staged, Racing
<1>4. Owned(q)
  BY <1>1, <1>2 DEF Sound, Owned
<1> QED BY <1>2, <1>3, <1>4 DEF Sound, q, b

LEMMA HandleAcceptedInv == ASSUME ServiceInv, NEW c \in Conns, HandleAccepted(c) PROVE ServiceInv'
<1> DEFINE r == conn[c]
           i == [r EXCEPT !.place = "init", !.make = "binding", !.task = "racing",
                          !.lost = ~r.open]
<1>1. /\ Sound(r) /\ r \in Connections /\ r.place = "given" /\ conn \in [Conns -> Connections]
      /\ loop = "given" /\ loop' = "next" /\ UNCHANGED <<accepted, opVars>>
      /\ \A d \in Conns : conn[d].place = "given" => c = d
  BY DEF ServiceInv, SoundAll, Sound, HandleAccepted, AcceptKept
<1>2. stats' \in [accepted : Nat, failed : Nat, refused : Nat, forced : Nat]
  BY DEF ServiceInv, ServiceTypes, HandleAccepted
<1>3. ServiceTypes'
  BY <1>1, <1>2 DEF ServiceInv, ServiceTypes, opVars
<1>4. \/ conn' = Turned(c)
      \/ ~service.closed /\ ~AtLimit /\ conn' = [conn EXCEPT ![c] = i]
  <2>1. CASE service.closed \/ AtLimit
    BY <2>1 DEF HandleAccepted
  <2>2. CASE ~service.closed /\ ~AtLimit
    BY <1>1, <2>2 DEF HandleAccepted
  <2> QED BY <2>1, <2>2
<1> DEFINE q == conn'[c]
<1>5. /\ \A d \in Conns : d # c => conn'[d] = conn[d]
      /\ Sound(q) /\ conn' \in [Conns -> Connections]
      /\ \/ q.place = "out"
         \/ q.place = "init" /\ ~service.closed /\ ~AtLimit
  <2>1. CASE conn' = Turned(c)
    <3> DEFINE o == [conn[c] EXCEPT !.place = "out", !.open = FALSE]
    <3>1. conn' = [conn EXCEPT ![c] = o] /\ Sound(o) /\ o.place = "out"
      BY <1>1, <2>1, TurnedSound
    <3> HIDE DEF o
    <3> QED BY <1>1, <3>1 DEF Sound
  <2>2. CASE ~service.closed /\ ~AtLimit /\ conn' = [conn EXCEPT ![c] = i]
    <3>1. Sound(i) /\ i.place = "init"
      BY <1>1, TakenIn
    <3> HIDE DEF i
    <3> QED BY <1>1, <2>2, <3>1 DEF Sound
  <2> QED BY <1>4, <2>1, <2>2
<1> HIDE DEF q
<1>6. SoundAll'
  BY <1>5 DEF ServiceInv, SoundAll, q
<1>7. /\ Active' = Active
      /\ Initializing' \subseteq Initializing \cup {c}
      /\ service.closed \/ AtLimit => Initializing' = Initializing
  BY <1>1, <1>5 DEF Active, Initializing, q
<1>8. AcceptKept'
  <2>1. \A j \in 1 .. Len(accepted.values) : accepted.values[j] \in Conns
    BY DEF ServiceInv, ServiceTypes
  <2>2. \A j \in 1 .. Len(accepted.values) : accepted.values[j] # c
    BY <1>1 DEF ServiceInv, AcceptKept
  <2>3. \A d \in Conns : conn'[d].place # "given"
    BY <1>1, <1>5 DEF q
  <2> QED BY <1>1, <1>5, <2>1, <2>2, <2>3 DEF ServiceInv, AcceptKept
<1>9. LimitKept'
  <2>1. CASE service.closed \/ AtLimit
    BY <1>7, <2>1 DEF ServiceInv, LimitKept
  <2>2. CASE ~AtLimit
    <3> DEFINE a == Cardinality(Active)
               b == Cardinality(Initializing)
               u == Active \cup Initializing
    <3>1. IsFiniteSet(Active) /\ IsFiniteSet(Initializing) /\ IsFiniteSet(u)
          /\ Active \cap Initializing = {}
      <4>1. Active \subseteq Conns /\ Initializing \subseteq Conns /\ Active \cap Initializing = {}
        BY DEF Active, Initializing
      <4> QED BY <4>1, ActiveFinite, ServiceAssumption, FS_Subset
    <3>2. a \in Nat /\ b \in Nat /\ Cardinality(u) \in Nat
      BY <3>1, FS_CardinalityType
    <3>3. Cardinality(u) = a + b - Cardinality({})
      BY <3>1, FS_Union
    <3>4. Cardinality(u) = a + b
      BY <3>2, <3>3, FS_EmptySet
    <3>5. ~(a + b >= MaxActive) /\ MaxActive \in Nat
      BY <2>2, ServiceAssumption DEF AtLimit
    <3>6. Cardinality(u \cup {c}) \in {Cardinality(u), Cardinality(u) + 1} /\ IsFiniteSet(u \cup {c})
      BY <3>1, FS_AddElement
    <3>7. Active' \cup Initializing' \subseteq u \cup {c}
      BY <1>7
    <3>8. Cardinality(Active' \cup Initializing') <= Cardinality(u \cup {c})
          /\ Cardinality(Active' \cup Initializing') \in Nat
      <4> DEFINE w == Active' \cup Initializing'
      <4> HIDE DEF w, u
      <4>1. w \subseteq u \cup {c}
        BY <3>7 DEF w
      <4> QED BY <3>6, <4>1, FS_Subset, FS_CardinalityType DEF w
    <3> HIDE DEF a, b, u
    <3>9. Cardinality(Active' \cup Initializing') <= MaxActive
      BY <3>2, <3>4, <3>5, <3>6, <3>8
    <3> QED BY <3>9 DEF LimitKept
  <2> QED BY <2>1, <2>2
<1>10. EndKept'
  <2>1. closer # "late" /\ drainer # "active"
    BY <1>1 DEF ServiceInv, EndKept
  <2>2. UNCHANGED <<service, drainer, closer, awaited>>
    BY <1>1 DEF opVars
  <2> QED BY <1>7, <2>1, <2>2 DEF ServiceInv, EndKept
<1> QED BY <1>3, <1>6, <1>8, <1>9, <1>10 DEF ServiceInv

(***************************************************************************)
(* drain() and close().                                                    *)
(***************************************************************************)
SweptTypes == stats' \in [accepted : Nat, failed : Nat, refused : Nat, forced : Nat]

LEMMA AcceptorCloses ==
    ASSUME ServiceInv, CloseAcceptor
    PROVE  /\ SoundAll' /\ AcceptKept' /\ LimitKept'
           /\ accepted' \in [values : Seq(Conns), closed : BOOLEAN]
           /\ loop' \in {"next", "pending", "given", "ending", "ended"}
           /\ (loop' = "ended") = (loop = "ended")
           /\ Active' = Active /\ Initializing' = Initializing
           /\ \A c \in Conns : conn'[c].handle = conn[c].handle
<1>1. /\ accepted' = [values |-> <<>>, closed |-> TRUE]
      /\ loop' = IF loop = "pending" THEN "ending" ELSE loop
      /\ conn' = [c \in Conns |-> IF conn[c].place = "queued" THEN Turned(c)[c] ELSE conn[c]]
  BY DEF CloseAcceptor
<1>2. ASSUME NEW c \in Conns
      PROVE  /\ Sound(conn'[c]) /\ conn'[c].handle = conn[c].handle
             /\ \/ conn'[c].place = conn[c].place
                \/ conn[c].place = "queued" /\ conn'[c].place = "out"
  <2>1. CASE conn[c].place = "queued"
    <3>1. conn'[c] = Turned(c)[c]
      BY <1>1, <2>1
    <3> QED BY <2>1, <3>1, TurnedSound
  <2>2. CASE conn[c].place # "queued"
    BY <1>1, <2>2 DEF ServiceInv, SoundAll
  <2> QED BY <2>1, <2>2
<1>3. \A c \in Conns : Sound(conn'[c]) /\ conn'[c] \in Connections
  BY <1>2 DEF Sound
<1>4. SoundAll'
  BY <1>1, <1>3 DEF SoundAll
<1>5. Active' = Active /\ Initializing' = Initializing
  BY <1>2 DEF Active, Initializing
<1>6. loop' \in {"next", "pending", "given", "ending", "ended"} /\ (loop' = "ended") = (loop = "ended")
  BY <1>1 DEF ServiceInv, ServiceTypes
<1>7. /\ accepted' \in [values : Seq(Conns), closed : BOOLEAN]
      /\ accepted'.values = <<>> /\ Len(accepted'.values) = 0
  BY <1>1, EmptySeq
<1>8. AcceptKept'
  <2>1. \A c \in Conns : conn'[c].place = "given" => conn[c].place = "given"
    BY <1>2
  <2>2. loop = "given" => loop' = "given"
    BY <1>1
  <2> QED BY <1>5, <1>6, <1>7, <2>1, <2>2 DEF ServiceInv, AcceptKept
<1>9. LimitKept'
  BY <1>5 DEF ServiceInv, LimitKept
<1> QED BY <1>2, <1>4, <1>5, <1>6, <1>7, <1>8, <1>9

LEMMA SweptSound ==
    ASSUME NEW r, Sound(r), r.place = "init"
    PROVE  LET q == [Dropped(r) EXCEPT !.forced = TRUE, !.counted = TRUE,
                                       !.aborted = TRUE, !.place = "out"]
           IN  Sound(q) /\ q.place = "out"
<1> DEFINE d == Dropped(r)
           q == [d EXCEPT !.forced = TRUE, !.counted = TRUE, !.aborted = TRUE, !.place = "out"]
<1>1. d \in Connections /\ d.task = r.task /\ d.make = r.make /\ d.place = r.place
  BY ReportedFields DEF Sound, Dropped
<1>2. Sound(d) /\ ~d.open /\ d.handle # "open"
  BY DroppedSound DEF Closing
<1>3. d.task \in Racing /\ d.make # "none"
  BY <1>1 DEF Sound, Staged, Racing
<1> HIDE DEF d
<1>4. /\ q \in Connections
      /\ q.place = "out" /\ q.open = d.open /\ q.make = d.make
      /\ q.handle = d.handle /\ q.instance = d.instance /\ q.lost = d.lost
      /\ q.aborted = TRUE /\ q.forced = TRUE /\ q.counted = TRUE
      /\ q.task = d.task
  BY <1>1 DEF Connections
<1> HIDE DEF q
<1>5. Staged(q)
  BY <1>1, <1>2, <1>3, <1>4 DEF Sound, Staged, Racing
<1>6. Owned(q)
  BY <1>1, <1>2, <1>3, <1>4 DEF Sound, Owned
<1> QED BY <1>4, <1>5, <1>6 DEF Sound, q, d

LEMMA InitializingSwept ==
    ASSUME ServiceInv, SweepInitializing
    PROVE  /\ SoundAll' /\ SweptTypes /\ Initializing' = {} /\ Active' = Active
           /\ \A c \in Conns : /\ Passes(conn[c].place, conn'[c].place)
                               /\ conn[c].place = "queued" => conn'[c].place = "queued"
<1>1. ASSUME NEW c \in Conns
      PROVE  /\ Sound(conn'[c])
             /\ IF conn[c].place = "init" THEN conn'[c].place = "out"
                ELSE conn'[c].place = conn[c].place
  <2>1. CASE conn[c].place = "init"
    <3> DEFINE q == [Dropped(conn[c]) EXCEPT !.forced = TRUE, !.counted = TRUE,
                                             !.aborted = TRUE, !.place = "out"]
    <3>1. conn'[c] = q
      BY <2>1 DEF SweepInitializing, Initializing
    <3>2. Sound(conn[c])
      BY DEF ServiceInv, SoundAll
    <3>3. Sound(q) /\ q.place = "out"
      BY <2>1, <3>2, SweptSound
    <3> HIDE DEF q
    <3> QED BY <2>1, <3>1, <3>3
  <2>2. CASE conn[c].place # "init"
    BY <2>2 DEF SweepInitializing, Initializing, ServiceInv, SoundAll
  <2> QED BY <2>1, <2>2
<1>2. \A c \in Conns : Sound(conn'[c]) /\ conn'[c] \in Connections
  BY <1>1 DEF Sound
<1>3. DOMAIN conn' = Conns /\ conn' = [c \in Conns |-> conn'[c]]
  BY DEF SweepInitializing
<1>4. SoundAll'
  BY <1>2, <1>3 DEF SoundAll
<1>5. SweptTypes
  <2>1. IsFiniteSet(Initializing) /\ IsFiniteSet({c \in Initializing : ~conn[c].counted})
    <3>1. Initializing \subseteq Active \cup Initializing
      OBVIOUS
    <3>2. {c \in Initializing : ~conn[c].counted} \subseteq Active \cup Initializing
      OBVIOUS
    <3> QED BY <3>1, <3>2, ActiveFinite, FS_Subset
  <2>2. /\ Cardinality(Initializing) \in Nat
        /\ Cardinality({c \in Initializing : ~conn[c].counted}) \in Nat
    BY <2>1, FS_CardinalityType
  <2> DEFINE x == stats.forced + Cardinality(Initializing)
             y == stats.failed + Cardinality({c \in Initializing : ~conn[c].counted})
  <2>3. stats \in [accepted : Nat, failed : Nat, refused : Nat, forced : Nat]
    BY DEF ServiceInv, ServiceTypes
  <2>4. x \in Nat /\ y \in Nat
    BY <2>2, <2>3
  <2>5. stats' = [stats EXCEPT !.forced = x, !.failed = y]
    BY DEF SweepInitializing
  <2> HIDE DEF x, y
  <2> QED BY <2>3, <2>4, <2>5 DEF SweptTypes
<1>6. Initializing' = {} /\ Active' = Active
  BY <1>1 DEF Initializing, Active
<1> QED BY <1>1, <1>4, <1>5, <1>6 DEF Passes

LEMMA ActiveSwept ==
    ASSUME ServiceInv, NEW who \in {"forcer", "closer"}, SweepActive(who)
    PROVE  /\ SoundAll' /\ SweptTypes /\ Initializing' = Initializing /\ Active' = Active
           /\ awaited' \in [{"forcer", "closer"} -> SUBSET Conns]
           /\ awaited' = [awaited EXCEPT ![who] = Active]
           /\ \A c \in Conns : /\ Passes(conn[c].place, conn'[c].place)
                               /\ conn[c].place = "queued" => conn'[c].place = "queued"
<1>1. ASSUME NEW c \in Conns
      PROVE  Sound(conn'[c]) /\ conn'[c].place = conn[c].place
  <2>1. Sound(conn[c])
    BY DEF ServiceInv, SoundAll
  <2>2. conn'[c] \in {conn[c], CloseHandle(conn[c])}
    BY DEF SweepActive
  <2> QED BY <2>1, <2>2, ClosedSound
<1>2. \A c \in Conns : Sound(conn'[c]) /\ conn'[c] \in Connections
  BY <1>1 DEF Sound
<1>3. DOMAIN conn' = Conns /\ conn' = [c \in Conns |-> conn'[c]]
  BY DEF SweepActive
<1>4. SoundAll'
  BY <1>2, <1>3 DEF SoundAll
<1>5. SweptTypes
  <2>1. Cardinality(Active) \in Nat
    <3>1. Active \subseteq Active \cup Initializing
      OBVIOUS
    <3> QED BY <3>1, ActiveFinite, FS_Subset, FS_CardinalityType
  <2> QED BY <2>1, SMTT(30) DEF SweepActive, SweptTypes, ServiceInv, ServiceTypes
<1>6. Initializing' = Initializing /\ Active' = Active
  BY <1>1 DEF Initializing, Active
<1>7. awaited' = [awaited EXCEPT ![who] = Active]
  BY DEF SweepActive
<1>8. awaited' \in [{"forcer", "closer"} -> SUBSET Conns]
  <2>1. Active \in SUBSET Conns
    BY DEF Active
  <2> HIDE DEF Active
  <2> QED BY <1>7, <2>1 DEF ServiceInv, ServiceTypes
<1> QED BY <1>1, <1>4, <1>5, <1>6, <1>7, <1>8 DEF Passes

LEMMA DrainInv == ASSUME ServiceInv, Drain PROVE ServiceInv'
<1>1. UNCHANGED <<stats, closer, forcer, awaited>>
  BY DEF Drain
<1>2. CASE closer # "none"
  <2>1. drainer' = "behindClose" /\ UNCHANGED <<conn, accepted, loop, service>> /\ drainer = "none"
    BY <1>2 DEF Drain
  <2>2. Active' = Active /\ Initializing' = Initializing
    BY <2>1 DEF Active, Initializing
  <2>3. ServiceTypes' /\ SoundAll' /\ AcceptKept' /\ LimitKept'
    BY <1>1, <2>1, <2>2 DEF ServiceInv, ServiceTypes, SoundAll, AcceptKept, LimitKept
  <2>4. EndKept'
    BY <1>1, <1>2, <2>1, <2>2 DEF ServiceInv, EndKept
  <2> QED BY <2>3, <2>4 DEF ServiceInv
<1>3. CASE closer = "none"
  <2>1. /\ service' = [closed |-> TRUE, draining |-> TRUE] /\ drainer' = "loop"
        /\ CloseAcceptor /\ drainer = "none"
    BY <1>3 DEF Drain
  <2>2. /\ SoundAll' /\ AcceptKept' /\ LimitKept'
        /\ accepted' \in [values : Seq(Conns), closed : BOOLEAN]
        /\ loop' \in {"next", "pending", "given", "ending", "ended"}
        /\ Active' = Active /\ Initializing' = Initializing
    BY <2>1, AcceptorCloses
  <2>3. ServiceTypes'
    BY <1>1, <2>1, <2>2 DEF ServiceInv, ServiceTypes
  <2>4. EndKept'
    BY <1>1, <1>3, <2>1, <2>2 DEF ServiceInv, EndKept
  <2> QED BY <2>2, <2>3, <2>4 DEF ServiceInv
<1> QED BY <1>2, <1>3

\* Steps that only change what drain() and close() have come to.
LEMMA OpsInv ==
    ASSUME ServiceInv, DrainLooks \/ DrainCompletes \/ ForceEnds \/ CloseCompletes
    PROVE  ServiceInv'
<1>1. UNCHANGED <<conn, accepted, loop, stats, awaited>>
  BY DEF DrainLooks, DrainCompletes, DrainEnds, ForceEnds, CloseCompletes
<1>2. Active' = Active /\ Initializing' = Initializing
  BY <1>1 DEF Active, Initializing
<1>3. SoundAll' /\ AcceptKept' /\ LimitKept'
  BY <1>1, <1>2 DEF ServiceInv, SoundAll, AcceptKept, LimitKept
<1>4. CASE DrainLooks
  <2>1. ServiceTypes' /\ EndKept'
    BY <1>1, <1>2, <1>4 DEF DrainLooks, ServiceInv, ServiceTypes, EndKept
  <2> QED BY <1>3, <2>1 DEF ServiceInv
<1>5. CASE DrainCompletes
  <2>1. /\ service' = [service EXCEPT !.draining = FALSE] /\ UNCHANGED <<closer, forcer>>
        /\ \/ drainer = "active" /\ Active = {} /\ drainer' = "done"
           \/ drainer = "behindClose" /\ closer \in {"done", "failed"} /\ drainer' = closer
    BY <1>5 DEF DrainCompletes, DrainEnds
  <2>2. service' \in [closed : BOOLEAN, draining : BOOLEAN] /\ service'.closed = service.closed
        /\ service'.draining = FALSE
    BY <2>1 DEF ServiceInv, ServiceTypes
  <2>3. ServiceTypes'
    BY <1>1, <2>1, <2>2 DEF ServiceInv, ServiceTypes
  <2>4. drainer' = "done" => Active \cup Initializing = {}
    BY <2>1 DEF ServiceInv, EndKept, AcceptKept
  <2>5. EndKept'
    BY <1>1, <1>2, <2>1, <2>2, <2>4 DEF ServiceInv, EndKept
  <2> QED BY <1>3, <2>3, <2>5 DEF ServiceInv
<1>6. CASE ForceEnds
  <2>1. /\ forcer' = "done" /\ UNCHANGED closer
        /\ \/ UNCHANGED <<drainer, service>>
           \/ drainer' = "failed" /\ service' = [service EXCEPT !.draining = FALSE] /\ Waiting
    BY <1>6 DEF ForceEnds
  <2>2. /\ service' \in [closed : BOOLEAN, draining : BOOLEAN]
        /\ service'.closed = service.closed
        /\ service'.draining => service.draining
    BY <2>1 DEF ServiceInv, ServiceTypes
  <2>3. drainer' = drainer \/ (drainer' = "failed" /\ drainer # "none")
    BY <2>1 DEF Waiting
  <2>4. ServiceTypes'
    BY <1>1, <2>1, <2>2, <2>3 DEF ServiceInv, ServiceTypes
  <2>5. EndKept'
    BY <1>1, <1>2, <2>1, <2>2, <2>3 DEF ServiceInv, EndKept
  <2> QED BY <1>3, <2>4, <2>5 DEF ServiceInv
<1>7. CASE CloseCompletes
  <2>1. /\ closer = "late" /\ UNCHANGED <<service, drainer, forcer>>
        /\ \/ closer' = "done" /\ AllClosed("closer")
           \/ closer' = "failed"
    BY <1>7 DEF CloseCompletes
  <2>2. AllClosed("closer") => Active \cup Initializing = {}
    <3>1. \A c \in Active : conn[c].handle \in {"open", "closing"}
      BY DEF Active, ServiceInv, SoundAll, Sound, Owned
    <3>2. Active \subseteq awaited["closer"] /\ Initializing = {}
      BY <2>1 DEF ServiceInv, EndKept, AcceptKept
    <3>3. AllClosed("closer") => Active = {}
      BY <3>1, <3>2 DEF AllClosed
    <3> QED BY <3>2, <3>3
  <2>3. ServiceTypes' /\ EndKept'
    BY <1>1, <1>2, <2>1, <2>2 DEF ServiceInv, ServiceTypes, EndKept
  <2> QED BY <1>3, <2>3 DEF ServiceInv
<1> QED BY <1>4, <1>5, <1>6, <1>7

LEMMA SweepInv ==
    ASSUME ServiceInv, DrainTimesOut \/ CloseService
    PROVE  ServiceInv'
<1>1. UNCHANGED <<accepted, loop, drainer, awaited>>
  BY DEF DrainTimesOut, CloseService
<1>2. CASE CloseService /\ service.closed /\ Active = {} /\ Initializing = {}
  <2>1. closer' = "done" /\ closer = "none" /\ UNCHANGED <<conn, stats, service, forcer>>
    BY <1>2 DEF CloseService
  <2>2. Active' = Active /\ Initializing' = Initializing
    BY <2>1 DEF Active, Initializing
  <2>3. ServiceTypes' /\ SoundAll' /\ AcceptKept' /\ LimitKept'
    BY <1>1, <2>1, <2>2, SMTT(30) DEF ServiceInv, ServiceTypes, SoundAll, AcceptKept, LimitKept
  <2>4. EndKept'
    BY <1>1, <1>2, <2>1, <2>2 DEF ServiceInv, EndKept
  <2> QED BY <2>3, <2>4 DEF ServiceInv
<1>3. CASE /\ SweepInitializing /\ forcer' \in {"initializing", forcer}
           /\ \/ UNCHANGED <<closer, service>>
              \/ /\ closer = "none" /\ closer' = "initializing"
                 /\ service' = [closed |-> TRUE, draining |-> FALSE]
  <2>1. /\ SoundAll' /\ SweptTypes /\ Initializing' = {} /\ Active' = Active
        /\ \A c \in Conns : /\ Passes(conn[c].place, conn'[c].place)
                            /\ conn[c].place = "queued" => conn'[c].place = "queued"
    BY <1>3, InitializingSwept
  <2>2. AcceptKept' /\ LimitKept'
    BY <1>1, <2>1, AcceptStays, Emptier
  <2>3. ServiceTypes'
    <3>1. /\ forcer' \in {"none", "initializing", "handles", "done"}
          /\ closer' \in {"none", "initializing", "handles", "loop", "late", "done", "failed"}
      BY <1>3 DEF ServiceInv, ServiceTypes
    <3>2. CASE UNCHANGED service
      BY <1>1, <2>1, <3>1, <3>2 DEF ServiceInv, ServiceTypes, SweptTypes
    <3>3. CASE service' = [closed |-> TRUE, draining |-> FALSE]
      <4>1. service' \in [closed : BOOLEAN, draining : BOOLEAN]
        BY <3>3
      <4> QED BY <1>1, <2>1, <3>1, <4>1 DEF ServiceInv, ServiceTypes, SweptTypes
    <3> QED BY <1>3, <3>2, <3>3
  <2>4. EndKept'
    BY <1>1, <1>3, <2>1 DEF ServiceInv, EndKept
  <2> QED BY <2>1, <2>2, <2>3, <2>4 DEF ServiceInv
<1>4. CASE DrainTimesOut
  BY <1>3, <1>4 DEF DrainTimesOut
<1>5. CASE CloseService /\ ~(service.closed /\ Active = {} /\ Initializing = {})
  BY <1>3, <1>5 DEF CloseService
<1> QED BY <1>2, <1>4, <1>5

LEMMA ForceInv ==
    ASSUME ServiceInv, ForceActive \/ CloseActive \/ CloseLate
    PROVE  ServiceInv'
<1>1. UNCHANGED <<accepted, loop, service, drainer>>
  BY DEF ForceActive, CloseActive, CloseLate
<1>2. PICK who \in {"forcer", "closer"} :
          /\ SweepActive(who)
          /\ \/ who = "forcer" /\ forcer' = "handles" /\ UNCHANGED closer
             \/ /\ who = "closer" /\ UNCHANGED forcer
                /\ closer = "initializing" /\ closer' = "handles"
             \/ /\ who = "closer" /\ UNCHANGED forcer
                /\ closer = "loop" /\ closer' = "late" /\ loop = "ended"
  BY DEF ForceActive, CloseActive, CloseLate
<1>3. /\ SoundAll' /\ SweptTypes /\ Initializing' = Initializing /\ Active' = Active
      /\ awaited' \in [{"forcer", "closer"} -> SUBSET Conns]
      /\ awaited' = [awaited EXCEPT ![who] = Active]
      /\ \A c \in Conns : /\ Passes(conn[c].place, conn'[c].place)
                          /\ conn[c].place = "queued" => conn'[c].place = "queued"
  BY <1>2, ActiveSwept
<1>4. AcceptKept' /\ LimitKept'
  BY <1>1, <1>3, AcceptStays, Emptier
<1>5. ServiceTypes'
  BY <1>1, <1>2, <1>3 DEF ServiceInv, ServiceTypes, SweptTypes
<1>6. closer' = "late" => loop' = "ended" /\ Active' \subseteq awaited'["closer"]
  <2>1. awaited \in [{"forcer", "closer"} -> SUBSET Conns]
    BY DEF ServiceInv, ServiceTypes
  <2>2. who = "forcer" => awaited'["closer"] = awaited["closer"]
    BY <1>3, <2>1
  <2>3. who = "closer" => awaited'["closer"] = Active
    BY <1>3, <2>1
  <2> QED BY <1>1, <1>2, <1>3, <2>2, <2>3 DEF ServiceInv, EndKept
<1>7. EndKept'
  BY <1>1, <1>2, <1>3, <1>6 DEF ServiceInv, EndKept
<1> QED BY <1>3, <1>4, <1>5, <1>7 DEF ServiceInv

LEMMA CloseListenerInv == ASSUME ServiceInv, CloseListener PROVE ServiceInv'
<1>1. UNCHANGED <<service, stats, drainer, forcer, awaited>> /\ closer = "handles"
  BY DEF CloseListener
<1>2. CASE closer' = "loop" /\ CloseAcceptor
  <2>1. /\ SoundAll' /\ AcceptKept' /\ LimitKept'
        /\ accepted' \in [values : Seq(Conns), closed : BOOLEAN]
        /\ loop' \in {"next", "pending", "given", "ending", "ended"}
        /\ (loop' = "ended") = (loop = "ended")
        /\ Active' = Active /\ Initializing' = Initializing
    BY <1>2, AcceptorCloses
  <2>2. ServiceTypes' /\ EndKept'
    BY <1>1, <1>2, <2>1 DEF ServiceInv, ServiceTypes, EndKept
  <2> QED BY <2>1, <2>2 DEF ServiceInv
<1>3. CASE closer' = "failed" /\ UNCHANGED <<conn, accepted, loop>>
  <2>1. Active' = Active /\ Initializing' = Initializing
    BY <1>3 DEF Active, Initializing
  <2>2. ServiceTypes' /\ SoundAll' /\ AcceptKept' /\ LimitKept' /\ EndKept'
    BY <1>1, <1>3, <2>1 DEF ServiceInv, ServiceTypes, SoundAll, AcceptKept, LimitKept, EndKept
  <2> QED BY <2>2 DEF ServiceInv
<1> QED BY <1>2, <1>3 DEF CloseListener

LEMMA ServiceStep == ASSUME ServiceInv, [ServiceNext]_serviceVars PROVE ServiceInv'
<1>1. CASE UNCHANGED serviceVars
  <2>1. Active' = Active /\ Initializing' = Initializing
    BY <1>1 DEF serviceVars, Active, Initializing
  <2> QED BY <1>1, <2>1 DEF serviceVars, ServiceInv, ServiceTypes, SoundAll, AcceptKept,
                            LimitKept, EndKept
<1>2. ASSUME NEW c \in Conns, Arrive(c) PROVE ServiceInv'
  BY <1>2, ArriveInv
<1>3. ASSUME NEW c \in Conns,
             TransportReports(c) \/ TimerFires(c) \/ BindingEnds(c) \/ RuntimeCreated(c)
             \/ HandleCloses(c) \/ TaskStep(c)
      PROVE  ServiceInv'
  <2>1. OneMovesOn(c)
    BY <1>3, ReportMovesOn, TimerMovesOn, BindingMovesOn, RuntimeMovesOn, HandleMovesOn, TimeoutMovesOn,
       FailedMovesOn, AbandonedMovesOn, ArrivalMovesOn, EndMovesOn, LateMovesOn DEF TaskStep
  <2> QED BY <2>1, OneInv
<1>4. CASE SourceFails \/ AcceptStep
  BY <1>4, LoopEndsInv, LoopNextInv, HandleAcceptedInv DEF AcceptStep
<1>5. CASE Drain \/ DrainTimesOut \/ CloseService \/ OpStep
  BY <1>5, DrainInv, SweepInv, OpsInv, ForceInv, CloseListenerInv DEF OpStep
<1> QED BY <1>1, <1>2, <1>3, <1>4, <1>5 DEF ServiceNext

LEMMA ServiceStart == ServiceInit => ServiceInv
<1> SUFFICES ASSUME ServiceInit PROVE ServiceInv
  OBVIOUS
<1> DEFINE r == [place |-> "away", open |-> FALSE, make |-> "none", handle |-> "none",
                 instance |-> "none", lost |-> FALSE, aborted |-> FALSE,
                 forced |-> FALSE, counted |-> FALSE, task |-> "none"]
<1>1. Sound(r) /\ r.place = "away"
  BY DEF Sound, Staged, Owned, Connections, Racing
<1>2. conn = [c \in Conns |-> r]
  BY DEF ServiceInit
<1> HIDE DEF r
<1>3. SoundAll
  BY <1>1, <1>2 DEF SoundAll, Sound
<1>4. Active = {} /\ Initializing = {} /\ \A c \in Conns : conn[c].place = "away"
  BY <1>1, <1>2 DEF Active, Initializing
<1>5. ServiceTypes /\ accepted.values = <<>> /\ Len(accepted.values) = 0
  BY EmptySeq DEF ServiceInit, ServiceTypes
<1>6. AcceptKept
  BY <1>4, <1>5 DEF ServiceInit, AcceptKept
<1>7. LimitKept
  <2>1. Cardinality({}) = 0 /\ MaxActive \in Nat
    BY ServiceAssumption, FS_EmptySet
  <2>2. Active \cup Initializing = {}
    BY <1>4
  <2> QED BY <2>1, <2>2 DEF LimitKept
<1>8. EndKept
  BY <1>4 DEF ServiceInit, EndKept
<1> QED BY <1>3, <1>5, <1>6, <1>7, <1>8 DEF ServiceInv

\* Every reachable state of a service keeps each connection in one place: racing for
\* the capability, active, or out; what is admitted was within the limit, and what
\* accept(), close() and drain() are at agrees with it.
THEOREM ServiceInvariant == ServiceSpec => []ServiceInv
<1>1. ServiceInv /\ [ServiceNext]_serviceVars => ServiceInv'
  BY ServiceStep
<1> QED BY <1>1, ServiceStart, PTL DEF ServiceSpec

LEMMA ServiceInvSays == ServiceInv => ServiceTypeOK /\ NothingLeaks /\ AdmissionHolds
<1> SUFFICES ASSUME ServiceInv PROVE ServiceTypeOK /\ NothingLeaks /\ AdmissionHolds
  OBVIOUS
<1>1. ServiceTypeOK
  BY DEF ServiceInv, ServiceTypes, SoundAll, ServiceTypeOK, Connections
<1>2. NothingLeaks
  BY DEF ServiceInv, SoundAll, Sound, Owned, NothingLeaks
<1>3. \A c \in Active : ~conn[c].counted
  BY DEF ServiceInv, SoundAll, Sound, Staged, Active
<1>4. AdmissionHolds
  BY <1>3 DEF ServiceInv, LimitKept, EndKept, AdmissionHolds
<1> QED BY <1>1, <1>2, <1>4

\* A step that does not sweep leaves handles open, or has their reason on record.
LEMMA StepGraceful ==
    ASSUME ServiceInv, [ServiceNext]_serviceVars, service.draining, service'.draining, forcer' = "none",
           NEW d \in Conns, conn[d].handle = "open", conn'[d].handle # "open"
    PROVE  conn'[d].lost \/ conn[d].aborted
<1>1. conn' # conn /\ ~UNCHANGED serviceVars
  BY DEF serviceVars
<1>2. ASSUME NEW c \in Conns,
             TransportReports(c) \/ TimerFires(c) \/ BindingEnds(c) \/ RuntimeCreated(c)
             \/ HandleCloses(c) \/ TaskStep(c)
      PROVE  conn'[d].lost \/ conn[d].aborted
  <2>1. OneMovesOn(c)
    BY <1>2, ReportMovesOn, TimerMovesOn, BindingMovesOn, RuntimeMovesOn, HandleMovesOn, TimeoutMovesOn,
       FailedMovesOn, AbandonedMovesOn, ArrivalMovesOn, EndMovesOn, LateMovesOn DEF TaskStep
  <2>2. PICK q : conn' = [conn EXCEPT ![c] = q] /\ Gracefully(conn[c], q)
    BY <2>1 DEF OneMovesOn
  <2>3. conn \in [Conns -> Connections]
    BY DEF ServiceInv, SoundAll
  <2>4. d = c /\ conn'[c] = q
    BY <2>2, <2>3
  <2> QED BY <2>2, <2>4 DEF Gracefully
<1>3. \A c \in Conns : conn[c].place \in {"away", "queued", "given"} => conn[c].handle = "none"
  BY DEF ServiceInv, SoundAll, Sound, Staged, Owned
<1>4. conn[d].place \notin {"away", "queued", "given"}
  BY <1>3
<1>5. ASSUME NEW c \in Conns, conn[c].place \in {"away", "queued", "given"}, NEW q,
             conn' = [conn EXCEPT ![c] = q]
      PROVE  FALSE
  <2>1. d # c /\ conn \in [Conns -> Connections]
    BY <1>4, <1>5 DEF ServiceInv, SoundAll
  <2> QED BY <1>5, <2>1
<1>6. ASSUME NEW c \in Conns, Arrive(c) \/ HandleAccepted(c) PROVE FALSE
  <2>1. conn[c].place \in {"away", "given"} /\ conn \in [Conns -> Connections]
    BY <1>6 DEF Arrive, HandleAccepted, ServiceInv, SoundAll
  <2>2. d # c
    BY <1>4, <2>1
  <2>3. conn'[d] = conn[d]
    BY <1>6, <2>1, <2>2 DEF Arrive, HandleAccepted, Turned
  <2> QED BY <2>3
<1>7. ~LoopNext
  <2> SUFFICES ASSUME LoopNext PROVE FALSE
    OBVIOUS
  <2> DEFINE vs == accepted.values
             c == Head(vs)
  <2>1. vs # <<>> /\ conn' = [conn EXCEPT ![c].place = "given"] /\ vs \in Seq(Conns)
    BY <1>1 DEF LoopNext, ServiceInv, ServiceTypes
  <2>2. c = vs[1] /\ c \in Conns /\ 1 \in 1 .. Len(vs)
    BY <2>1, HeadTailProperties, EmptySeq, LenProperties
  <2>3. conn[c].place = "queued"
    BY <2>2 DEF ServiceInv, AcceptKept
  <2>4. d # c /\ conn \in [Conns -> Connections]
    BY <1>4, <2>3 DEF ServiceInv, SoundAll
  <2> HIDE DEF c
  <2> QED BY <2>1, <2>4
<1>8. ~CloseAcceptor
  BY AcceptorCloses
<1>9. ~(SourceFails \/ LoopEnds \/ DrainLooks \/ DrainCompletes \/ ForceEnds \/ CloseCompletes)
  BY <1>1 DEF SourceFails, LoopEnds, DrainLooks, DrainCompletes, DrainEnds, ForceEnds, CloseCompletes
<1>10. ~(Drain \/ CloseListener)
  BY <1>1, <1>8 DEF Drain, CloseListener
<1>11. ~(DrainTimesOut \/ ForceActive)
  BY DEF DrainTimesOut, ForceActive
<1>12. ~(CloseActive \/ CloseLate)
  BY DEF CloseActive, CloseLate, ServiceInv, EndKept
<1>13. ~CloseService
  BY <1>1 DEF CloseService
<1> QED BY <1>1, <1>2, <1>6, <1>7, <1>9, <1>10, <1>11, <1>12, <1>13
        DEF ServiceNext, AcceptStep, OpStep

\* drain() touches no connection that was established before it, until its timer
\* forces or the service is closed.
THEOREM DrainsGracefully == ServiceSpec => DrainIsGraceful
<1>1. ServiceInv /\ [ServiceNext]_serviceVars =>
      [service.draining /\ service'.draining /\ forcer' = "none"
           => \A c \in Conns : conn[c].handle = "open" /\ conn'[c].handle # "open"
                  => conn'[c].lost \/ conn[c].aborted]_serviceVars
  BY StepGraceful
<1> QED BY <1>1, ServiceInvariant, PTL DEF ServiceSpec, DrainIsGraceful

(***************************************************************************)
(* TransportListeners.                                                     *)
(***************************************************************************)
\* Where the connections of each kind of listener can be, and how far its close()
\* has come.
TcpKept ==
    /\ ~offered.closed /\ incoming = "none" /\ shutting \in {"none", "done"}
    /\ \A p \in Peers : peer[p].at \in {"away", "offered", "taken"}

WebSocketKept ==
    /\ incoming = "none" /\ shutting \in {"none", "server", "queue", "done"}
    /\ \A p \in Peers : peer[p].at \in {"away", "gone", "reported", "queued", "dropping", "taken"}
    /\ offered.closed <=> shutting \in {"queue", "done"}
    /\ endpoint = "closed" <=> shutting \in {"queue", "done"}
    /\ offered.closed => Jobs = {}

WebTransportKept ==
    /\ incoming # "none" /\ shutting \in {"none", "queue", "loop", "jobs", "done"}
    /\ offered.closed <=> shutting # "none"
    /\ shutting \in {"jobs", "done"} => incoming = "ended" /\ Jobs \subseteq jobsAwaited
    /\ shutting = "done" => Jobs = {}
    /\ \A p \in Peers : peer[p].at = "offered" =>
           incoming = "given" /\ \A q \in Peers : peer[q].at = "offered" => p = q

ListenerInv ==
    /\ ListenersTypeOK
    /\ \A p \in Peers : peer[p].open => peer[p].at \notin {"away", "gone", "reported"}
    /\ Lists(Peers, offered.values, At("queued"))
    /\ offered.closed => offered.values = <<>>
    /\ listenerClosed <=> shutting # "none"
    /\ shutting \in {"loop", "jobs", "done"} => At("dropping") = {}
    /\ Listens("tcp") => TcpKept
    /\ Listens("websocket") => WebSocketKept
    /\ Listens("webtransport") => WebTransportKept

(***************************************************************************)
(* The queue.                                                              *)
(***************************************************************************)
LEMMA NothingListed == ASSUME NEW s, Lists(Peers, s, {}) PROVE s = <<>>
<1>1. s \in Seq(Peers) /\ DOMAIN s = 1 .. Len(s) /\ Len(s) \in Nat /\ \A i \in 1 .. Len(s) : s[i] \in ToSet(s)
  BY LenProperties DEF Lists, ToSet
<1>2. Len(s) = 0
  BY <1>1 DEF Lists
<1> QED BY <1>1, <1>2, EmptySeq

LEMMA EmptyListed == Lists(Peers, <<>>, {})
<1>1. <<>> \in Seq(Peers) /\ DOMAIN <<>> = {}
  BY EmptySeq
<1> QED BY <1>1 DEF Lists, ToSet, IsInjective

(***************************************************************************)
(* One connection moves.                                                   *)
(***************************************************************************)
Places == InJob \cup {"away", "queued", "dropping", "taken", "gone"}

LEMMA PeerMoved ==
    ASSUME ListenerInv, NEW p \in Peers, NEW to \in Places, NEW o \in BOOLEAN, Moves(p, to, o)
    PROVE  /\ peer' \in [Peers -> [at : Places, open : BOOLEAN]]
           /\ peer'[p].at = to /\ peer'[p].open = o
           /\ \A q \in Peers : q # p => peer'[q] = peer[q]
           /\ \A q \in Peers : peer'[q].at = IF q = p THEN to ELSE peer[q].at
<1> DEFINE r == [at |-> to, open |-> o]
<1>1. r \in [at : Places, open : BOOLEAN] /\ r.at = to /\ r.open = o
  OBVIOUS
<1>2. peer' = [peer EXCEPT ![p] = r] /\ peer \in [Peers -> [at : Places, open : BOOLEAN]]
  BY DEF Moves, ListenerInv, ListenersTypeOK, Places
<1> HIDE DEF r, Places
<1> QED BY <1>1, <1>2

LEMMA QueueStays ==
    ASSUME ListenerInv, UNCHANGED offered,
           \A q \in Peers : peer'[q].at = "queued" <=> peer[q].at = "queued"
    PROVE  Lists(Peers, offered'.values, At("queued")')
<1>1. At("queued")' = At("queued")
  BY DEF At
<1> HIDE DEF At
<1> QED BY <1>1 DEF ListenerInv

\* A step of a job, or the end of a close(): the connection does not come back.
LEMMA JobInv ==
    ASSUME ListenerInv, NEW p \in Peers, NEW to \in {"upgrading", "reported", "stream", "gone"},
           NEW o \in BOOLEAN, JobMoves(p, to, o),
           \/ peer[p].at \in {"accepting", "upgrading", "stream"}
           \/ to = "gone" /\ peer[p].at \in {"reported", "refused", "dropping"},
           to \in {"gone", "reported"} => o = FALSE
    PROVE  ListenerInv'
<1>1. Moves(p, to, o) /\ UNCHANGED <<offered, taker, opened>>
  BY DEF JobMoves
<1>2. /\ peer' \in [Peers -> [at : Places, open : BOOLEAN]]
      /\ peer'[p].at = to /\ peer'[p].open = o
      /\ \A q \in Peers : q # p => peer'[q] = peer[q]
      /\ \A q \in Peers : peer'[q].at = IF q = p THEN to ELSE peer[q].at
  BY <1>1, PeerMoved DEF Places, InJob
<1>3. UNCHANGED <<listenerKind, listenerClosed, endpoint, incoming, shutting, jobsAwaited, offered, taker>>
  BY <1>1 DEF opened
<1>4. ListenersTypeOK'
  BY <1>2, <1>3 DEF ListenerInv, ListenersTypeOK, Places
<1>5. Lists(Peers, offered'.values, At("queued")')
  BY <1>2, <1>3, QueueStays
<1>6. \A q \in Peers : peer'[q].open => peer'[q].at \notin {"away", "gone", "reported"}
  BY <1>2 DEF ListenerInv
<1>7. At("dropping")' \subseteq At("dropping")
  BY <1>2 DEF At
<1>8. Jobs' \subseteq Jobs
  BY <1>2 DEF Jobs, InJob
<1>9. listenerKind \in {"tcp", "websocket", "webtransport"}
  BY ListenerAssumption DEF ListenerInv, ListenersTypeOK
<1>10. Listens("tcp")' => TcpKept'
  BY <1>2, <1>3 DEF ListenerInv, Listens, TcpKept
<1>11. Listens("websocket")' => WebSocketKept'
  BY <1>2, <1>3, <1>8 DEF ListenerInv, Listens, WebSocketKept
<1>12. Listens("webtransport")' => WebTransportKept'
  BY <1>2, <1>3, <1>8 DEF ListenerInv, Listens, WebTransportKept
<1> QED BY <1>3, <1>4, <1>5, <1>6, <1>7, <1>10, <1>11, <1>12 DEF ListenerInv

LEMMA LeavesInv == ASSUME ListenerInv, NEW p \in Peers, PeerLeaves(p) PROVE ListenerInv'
<1>1. Moves(p, peer[p].at, FALSE) /\ UNCHANGED <<offered, taker, opened>>
  BY DEF PeerLeaves, JobMoves
<1>2. peer[p].at \in Places
  BY DEF ListenerInv, ListenersTypeOK, Places
<1>3. /\ peer' \in [Peers -> [at : Places, open : BOOLEAN]]
      /\ \A q \in Peers : peer'[q].at = peer[q].at /\ (peer'[q].open => peer[q].open)
  BY <1>1, <1>2, PeerMoved
<1>4. UNCHANGED <<listenerKind, listenerClosed, endpoint, incoming, shutting, jobsAwaited, offered, taker>>
  BY <1>1 DEF opened
<1>5. ListenersTypeOK'
  BY <1>3, <1>4 DEF ListenerInv, ListenersTypeOK, Places
<1>6. Lists(Peers, offered'.values, At("queued")')
  BY <1>3, <1>4, QueueStays
<1>7. At("dropping")' = At("dropping") /\ Jobs' = Jobs
  BY <1>3 DEF At, Jobs
<1>8. /\ Listens("tcp")' => TcpKept'
      /\ Listens("websocket")' => WebSocketKept'
      /\ Listens("webtransport")' => WebTransportKept'
  BY <1>3, <1>4, <1>7 DEF ListenerInv, Listens, TcpKept, WebSocketKept, WebTransportKept
<1>9. \A q \in Peers : peer'[q].open => peer'[q].at \notin {"away", "gone", "reported"}
  BY <1>3 DEF ListenerInv
<1> QED BY <1>4, <1>5, <1>6, <1>7, <1>8, <1>9 DEF ListenerInv

\* What a push leaves.
LEMMA PushLeaves ==
    ASSUME ListenerInv, NEW p \in Peers, peer[p].at \in {"away", "stream"}, Push(p),
           UNCHANGED opened
    PROVE  /\ ListenersTypeOK' /\ Lists(Peers, offered'.values, At("queued")')
           /\ offered'.closed = offered.closed
           /\ offered'.closed => offered'.values = <<>>
           /\ peer'[p].at \in (IF offered.closed THEN {"refused"} ELSE {"taken", "queued"})
           /\ \A q \in Peers : q # p => peer'[q] = peer[q]
<1>1. offered \in [values : Seq(Peers), closed : BOOLEAN] /\ Lists(Peers, offered.values, At("queued"))
  BY DEF ListenerInv, ListenersTypeOK
<1>2. UNCHANGED <<listenerKind, listenerClosed, endpoint, incoming, shutting, jobsAwaited>>
  BY DEF opened
<1>3. CASE offered.closed \/ taker = "pending"
  <2>1. PICK to \in {"refused", "taken"} :
            /\ Moves(p, to, TRUE) /\ UNCHANGED offered /\ taker' \in {taker, "given"}
            /\ to = IF offered.closed THEN "refused" ELSE "taken"
    BY <1>3 DEF Push
  <2>2. /\ peer' \in [Peers -> [at : Places, open : BOOLEAN]]
        /\ peer'[p].at = to
        /\ \A q \in Peers : q # p => peer'[q] = peer[q]
        /\ \A q \in Peers : peer'[q].at = IF q = p THEN to ELSE peer[q].at
    BY <2>1, PeerMoved DEF Places, InJob
  <2>3. ListenersTypeOK'
    BY <1>2, <2>1, <2>2 DEF ListenerInv, ListenersTypeOK, Places
  <2>4. Lists(Peers, offered'.values, At("queued")')
    BY <2>1, <2>2, QueueStays
  <2> QED BY <2>1, <2>2, <2>3, <2>4 DEF ListenerInv
<1>4. CASE ~offered.closed /\ taker # "pending"
  <2>1. /\ offered' = [offered EXCEPT !.values = Append(@, p)]
        /\ Moves(p, "queued", TRUE) /\ UNCHANGED taker
    BY <1>4 DEF Push
  <2>2. /\ peer' \in [Peers -> [at : Places, open : BOOLEAN]]
        /\ peer'[p].at = "queued"
        /\ \A q \in Peers : q # p => peer'[q] = peer[q]
        /\ \A q \in Peers : peer'[q].at = IF q = p THEN "queued" ELSE peer[q].at
    BY <2>1, PeerMoved DEF Places, InJob
  <2>3. Lists(Peers, Append(offered.values, p), At("queued") \cup {p})
    <3>1. p \notin At("queued")
      BY DEF At
    <3> HIDE DEF At
    <3> QED BY <1>1, <3>1, ListsMore
  <2>4. At("queued")' = At("queued") \cup {p}
    BY <2>2 DEF At
  <2>5. /\ offered'.values = Append(offered.values, p) /\ offered'.closed = offered.closed
        /\ offered' \in [values : Seq(Peers), closed : BOOLEAN]
    BY <1>1, <2>1, <2>3 DEF Lists
  <2>6. ListenersTypeOK'
    BY <1>2, <2>1, <2>2, <2>5 DEF ListenerInv, ListenersTypeOK, Places
  <2> QED BY <1>4, <2>2, <2>3, <2>4, <2>5, <2>6
<1> QED BY <1>3, <1>4

LEMMA HandleInv == ASSUME ListenerInv, NEW p \in Peers, Handle(p) PROVE ListenerInv'
<1>1. Listens("websocket") /\ peer[p].at = "away" /\ endpoint # "closed" /\ UNCHANGED opened
  BY DEF Handle
<1>2. UNCHANGED <<listenerKind, listenerClosed, endpoint, incoming, shutting, jobsAwaited>>
  BY <1>1 DEF opened
<1>3. WebSocketKept /\ ~offered.closed
  BY <1>1 DEF ListenerInv, WebSocketKept
<1> DEFINE Handled == /\ ListenersTypeOK' /\ Lists(Peers, offered'.values, At("queued")')
                      /\ ~offered'.closed
                      /\ peer'[p].at \in {"gone", "reported", "taken", "queued"}
                      /\ peer'[p].open => peer'[p].at \in {"taken", "queued"}
                      /\ \A q \in Peers : q # p => peer'[q] = peer[q]
<1>4. Handled
  <2>1. CASE Push(p)
    <3> HIDE DEF At
    <3> QED BY <1>1, <1>3, <2>1, PushLeaves
  <2>2. ASSUME NEW to \in {"gone", "reported"}, Moves(p, to, FALSE), UNCHANGED <<offered, taker>>
        PROVE  Handled
    <3>1. /\ peer' \in [Peers -> [at : Places, open : BOOLEAN]]
          /\ peer'[p].at = to /\ peer'[p].open = FALSE
          /\ \A q \in Peers : q # p => peer'[q] = peer[q]
          /\ \A q \in Peers : peer'[q].at = IF q = p THEN to ELSE peer[q].at
      BY <2>2, PeerMoved DEF Places, InJob
    <3>2. ListenersTypeOK'
      BY <1>2, <2>2, <3>1 DEF ListenerInv, ListenersTypeOK, Places
    <3>3. Lists(Peers, offered'.values, At("queued")')
      BY <1>1, <2>2, <3>1, QueueStays
    <3> QED BY <1>3, <2>2, <3>1, <3>2, <3>3
  <2> QED BY <1>3, <2>1, <2>2 DEF Handle
<1>5. \A q \in Peers : peer'[q].open => peer'[q].at \notin {"away", "gone", "reported"}
  BY <1>4 DEF ListenerInv
<1>6. shutting \in {"none", "server"}
  BY <1>3 DEF WebSocketKept
<1>7. WebSocketKept'
  BY <1>2, <1>3, <1>4, <1>6 DEF WebSocketKept
<1> QED BY <1>1, <1>2, <1>4, <1>5, <1>6, <1>7 DEF ListenerInv, Listens

LEMMA StreamInvL == ASSUME ListenerInv, NEW p \in Peers, JobGetsStream(p) PROVE ListenerInv'
<1>1. peer[p].at = "stream"
  BY DEF JobGetsStream
<1>2. CASE JobMoves(p, "reported", FALSE)
  BY <1>1, <1>2, JobInv
<1>3. CASE Push(p) /\ UNCHANGED opened
  <2>1. UNCHANGED <<listenerKind, listenerClosed, endpoint, incoming, shutting, jobsAwaited>>
    BY <1>3 DEF opened
  <2>2. /\ ListenersTypeOK' /\ Lists(Peers, offered'.values, At("queued")')
        /\ offered'.closed = offered.closed
        /\ offered'.closed => offered'.values = <<>>
        /\ peer'[p].at \in (IF offered.closed THEN {"refused"} ELSE {"taken", "queued"})
        /\ \A q \in Peers : q # p => peer'[q] = peer[q]
    <3> HIDE DEF At
    <3> QED BY <1>1, <1>3, PushLeaves
  <2>3. ~Listens("tcp") /\ ~Listens("websocket")
    BY <1>1 DEF ListenerInv, TcpKept, WebSocketKept
  <2>4. /\ peer'[p].at \in {"refused", "taken", "queued"}
        /\ At("dropping")' \subseteq At("dropping") /\ Jobs' \subseteq Jobs
    BY <1>1, <2>2 DEF At, Jobs, InJob
  <2>5. \A q \in Peers : peer'[q].open => peer'[q].at \notin {"away", "gone", "reported"}
    BY <2>2, <2>4 DEF ListenerInv
  <2>6. Listens("webtransport")' => WebTransportKept'
    BY <2>1, <2>2, <2>4 DEF ListenerInv, Listens, WebTransportKept
  <2> QED BY <2>1, <2>2, <2>3, <2>4, <2>5, <2>6 DEF ListenerInv, Listens
<1> QED BY <1>2, <1>3 DEF JobGetsStream

LEMMA JobStepInv == ASSUME ListenerInv, NEW p \in Peers, JobStep(p) PROVE ListenerInv'
<1>1. CASE JobAccepts(p)
  BY <1>1, JobInv DEF JobAccepts
<1>2. CASE JobUpgrades(p)
  <2>1. peer[p].at = "upgrading"
    BY <1>2 DEF JobUpgrades
  <2>2. CASE JobMoves(p, "reported", FALSE)
    BY <2>1, <2>2, JobInv
  <2>3. CASE listenerClosed /\ JobMoves(p, "gone", FALSE)
    BY <2>1, <2>3, JobInv
  <2>4. CASE ~listenerClosed /\ JobMoves(p, "stream", TRUE)
    BY <2>1, <2>4, JobInv
  <2>5. listenerClosed \in BOOLEAN
    BY DEF ListenerInv, ListenersTypeOK
  <2>6. \/ JobMoves(p, "reported", FALSE)
        \/ JobMoves(p, IF listenerClosed THEN "gone" ELSE "stream", ~listenerClosed)
    BY <1>2 DEF JobUpgrades
  <2>7. CASE listenerClosed
    <3>1. (IF listenerClosed THEN "gone" ELSE "stream") = "gone" /\ (~listenerClosed) = FALSE
      BY <2>7
    <3> QED BY <2>2, <2>3, <2>6, <2>7, <3>1
  <2>8. CASE ~listenerClosed
    <3>1. (IF listenerClosed THEN "gone" ELSE "stream") = "stream" /\ (~listenerClosed) = TRUE
      BY <2>8
    <3> QED BY <2>2, <2>4, <2>6, <2>8, <3>1
  <2> QED BY <2>7, <2>8
<1>3. CASE JobEnds(p)
  <2>1. peer[p].at \in {"reported", "refused"}
        /\ JobMoves(p, "gone", IF peer[p].at = "refused" THEN FALSE ELSE peer[p].open)
    BY <1>3 DEF JobEnds
  <2>2. peer[p].at = "reported" => peer[p].open = FALSE
    BY DEF ListenerInv, ListenersTypeOK
  <2>3. (IF peer[p].at = "refused" THEN FALSE ELSE peer[p].open) = FALSE
    BY <2>1, <2>2
  <2>4. JobMoves(p, "gone", FALSE)
    BY <2>1, <2>3
  <2> QED BY <2>1, <2>4, JobInv
<1>4. CASE DropEnds(p)
  BY <1>4, JobInv DEF DropEnds
<1> QED BY <1>1, <1>2, <1>3, <1>4 DEF JobStep

LEMMA AsksInv == ASSUME ListenerInv, TakerAsks PROVE ListenerInv'
<1>1. UNCHANGED <<listenerKind, listenerClosed, endpoint, incoming, shutting, jobsAwaited>>
  BY DEF TakerAsks, opened
<1>2. CASE offered.values = <<>>
  <2>1. taker' \in {"ended", "pending"} /\ UNCHANGED <<offered, peer>>
    BY <1>2 DEF TakerAsks
  <2>2. At("queued")' = At("queued") /\ At("dropping")' = At("dropping") /\ Jobs' = Jobs
    BY <2>1 DEF At, Jobs
  <2> HIDE DEF At, Jobs
  <2> QED BY <1>1, <2>1, <2>2 DEF ListenerInv, ListenersTypeOK, Listens, TcpKept, WebSocketKept,
                                  WebTransportKept
<1>3. CASE offered.values # <<>>
  <2> DEFINE vs == offered.values
             p == Head(vs)
  <2>1. /\ taker' = "given" /\ offered' = [offered EXCEPT !.values = Tail(@)]
        /\ peer' = [peer EXCEPT ![p].at = "taken"]
    BY <1>3 DEF TakerAsks
  <2>2. p \in At("queued") /\ p \in Peers /\ Lists(Peers, Tail(vs), At("queued") \ {p})
    <3> HIDE DEF At
    <3> QED BY <1>3, ListsLess DEF ListenerInv
  <2>3. peer \in [Peers -> [at : Places, open : BOOLEAN]] /\ peer[p].at = "queued"
    BY <2>2 DEF At, ListenerInv, ListenersTypeOK, Places
  <2> HIDE DEF p
  <2>4. /\ peer' \in [Peers -> [at : Places, open : BOOLEAN]]
        /\ peer'[p].at = "taken"
        /\ \A q \in Peers : q # p => peer'[q] = peer[q]
    <3> DEFINE r == [peer[p] EXCEPT !.at = "taken"]
    <3>1. r \in [at : Places, open : BOOLEAN] /\ r.at = "taken"
      BY <2>2, <2>3 DEF Places
    <3>2. peer' = [peer EXCEPT ![p] = r]
      BY <2>1
    <3> HIDE DEF r, Places
    <3> QED BY <2>2, <2>3, <3>1, <3>2
  <2>5. /\ offered' \in [values : Seq(Peers), closed : BOOLEAN]
        /\ offered'.values = Tail(vs) /\ offered'.closed = offered.closed
    BY <2>1, <2>2 DEF Lists, ListenerInv, ListenersTypeOK
  <2>6. /\ At("queued")' = At("queued") \ {p}
        /\ At("dropping")' = At("dropping") /\ Jobs' = Jobs
    BY <2>2, <2>3, <2>4 DEF At, Jobs, InJob
  <2>7. ListenersTypeOK'
    BY <1>1, <2>1, <2>4, <2>5 DEF ListenerInv, ListenersTypeOK, Places
  <2>8. ~offered.closed
    BY <1>3 DEF ListenerInv
  <2>9. \A q \in Peers : peer'[q].open => peer'[q].at \notin {"away", "gone", "reported"}
    BY <2>4 DEF ListenerInv
  <2>10. ~Listens("tcp")
    BY <2>2, <2>3 DEF ListenerInv, TcpKept
  <2>11. /\ Listens("websocket")' => WebSocketKept'
         /\ Listens("webtransport")' => WebTransportKept'
    BY <1>1, <2>2, <2>4, <2>5, <2>6, <2>8 DEF ListenerInv, Listens, WebSocketKept, WebTransportKept
  <2> HIDE DEF vs
  <2> QED BY <1>1, <2>2, <2>5, <2>6, <2>7, <2>8, <2>9, <2>10, <2>11 DEF ListenerInv, Listens
<1> QED BY <1>2, <1>3

LEMMA TcpInv ==
    ASSUME ListenerInv, TcpAcceptFails \/ TcpClose \/ \E p \in Peers : TcpAccepts(p)
    PROVE  ListenerInv'
<1>1. Listens("tcp") /\ TcpKept
  BY DEF ListenerInv, TcpAcceptFails, TcpClose, TcpAccepts
<1>2. UNCHANGED <<listenerKind, offered, incoming, jobsAwaited>>
  BY DEF TcpAcceptFails, TcpClose, TcpAccepts, opened
<1>3. CASE TcpAcceptFails \/ TcpClose
  <2>1. UNCHANGED peer
    BY <1>3 DEF TcpAcceptFails, TcpClose
  <2>2. /\ taker' \in {taker, "ended", "failed"}
        /\ \/ UNCHANGED <<listenerClosed, endpoint, shutting>>
           \/ listenerClosed' = TRUE /\ endpoint' = "closed" /\ shutting' = "done"
    BY <1>3 DEF TcpAcceptFails, TcpClose, opened
  <2>3. ListenersTypeOK'
    BY <1>2, <2>1, <2>2 DEF ListenerInv, ListenersTypeOK
  <2>4. At("queued")' = At("queued") /\ At("dropping")' = {}
    BY <1>1, <2>1 DEF At, TcpKept
  <2> HIDE DEF At
  <2>5. TcpKept'
    BY <1>1, <1>2, <2>1, <2>2 DEF TcpKept
  <2>6. listenerClosed' <=> shutting' # "none"
    BY <2>2 DEF ListenerInv
  <2> QED BY <1>1, <1>2, <2>1, <2>3, <2>4, <2>5, <2>6 DEF ListenerInv, Listens
<1>4. ASSUME NEW p \in Peers, TcpAccepts(p) PROVE ListenerInv'
  <2>1. PICK to \in {"offered", "taken"} :
            /\ Moves(p, to, TRUE) /\ taker' \in {taker, "given"}
            /\ peer[p].at \in {"away", "offered"}
    BY <1>4 DEF TcpAccepts
  <2>2. UNCHANGED <<listenerClosed, endpoint, shutting>>
    BY <1>4 DEF TcpAccepts, opened
  <2>3. /\ peer' \in [Peers -> [at : Places, open : BOOLEAN]]
        /\ peer'[p].at = to
        /\ \A q \in Peers : q # p => peer'[q] = peer[q]
        /\ \A q \in Peers : peer'[q].at = IF q = p THEN to ELSE peer[q].at
    BY <2>1, PeerMoved DEF Places, InJob
  <2>4. ListenersTypeOK'
    BY <1>2, <2>1, <2>2, <2>3 DEF ListenerInv, ListenersTypeOK, Places
  <2>5. Lists(Peers, offered'.values, At("queued")')
    BY <1>2, <2>1, <2>3, QueueStays
  <2>6. At("dropping")' = {} /\ TcpKept'
    BY <1>1, <1>2, <2>2, <2>3 DEF At, TcpKept
  <2>7. \A q \in Peers : peer'[q].open => peer'[q].at \notin {"away", "gone", "reported"}
    BY <2>3 DEF ListenerInv
  <2> QED BY <1>1, <1>2, <2>2, <2>4, <2>5, <2>6, <2>7 DEF ListenerInv, Listens
<1> QED BY <1>3, <1>4

\* The queue closes behind the last request, or at once.
LEMMA QueueCloses ==
    ASSUME ListenerInv, CloseOffered
    PROVE  /\ peer' \in [Peers -> [at : Places, open : BOOLEAN]]
           /\ offered' \in [values : Seq(Peers), closed : BOOLEAN]
           /\ offered'.closed = TRUE /\ offered'.values = <<>>
           /\ taker' \in {taker, "ended"}
           /\ Lists(Peers, offered'.values, At("queued")') /\ Jobs' = Jobs
           /\ \A q \in Peers : /\ peer'[q].open = peer[q].open
                               /\ peer'[q].at = IF peer[q].at = "queued" THEN "dropping"
                                                ELSE peer[q].at
<1>1. peer \in [Peers -> [at : Places, open : BOOLEAN]]
  BY DEF ListenerInv, ListenersTypeOK, Places
<1>2. ASSUME NEW q \in Peers
      PROVE  /\ peer'[q] \in [at : Places, open : BOOLEAN]
             /\ peer'[q].open = peer[q].open
             /\ peer'[q].at = IF peer[q].at = "queued" THEN "dropping" ELSE peer[q].at
  <2>1. CASE peer[q].at = "queued"
    <3>1. peer'[q] = [peer[q] EXCEPT !.at = "dropping"]
      BY <2>1 DEF CloseOffered
    <3> QED BY <1>1, <2>1, <3>1 DEF Places
  <2>2. CASE peer[q].at # "queued"
    <3>1. peer'[q] = peer[q]
      BY <2>2 DEF CloseOffered
    <3> QED BY <1>1, <2>2, <3>1
  <2> QED BY <2>1, <2>2
<1>3. peer' = [q \in Peers |-> peer'[q]]
  BY DEF CloseOffered
<1>4. peer' \in [Peers -> [at : Places, open : BOOLEAN]]
  <2> HIDE DEF Places
  <2> QED BY <1>2, <1>3
<1>5. /\ offered' = [values |-> <<>>, closed |-> TRUE]
      /\ taker' \in {taker, "ended"}
  BY DEF CloseOffered
<1>6. offered' \in [values : Seq(Peers), closed : BOOLEAN] /\ offered'.closed = TRUE /\ offered'.values = <<>>
  BY <1>5, EmptySeq
<1>7. At("queued")' = {} /\ Jobs' = Jobs
  BY <1>2 DEF At, Jobs, InJob
<1> HIDE DEF At, Jobs
<1> QED BY <1>2, <1>4, <1>5, <1>6, <1>7, EmptyListed

LEMMA WebSocketInv ==
    ASSUME ListenerInv, WebSocketClose \/ ServerStopped \/ WebSocketClosed
    PROVE  ListenerInv'
<1>1. Listens("websocket") /\ WebSocketKept
  <2>1. listenerKind \in {"tcp", "websocket", "webtransport"}
    BY ListenerAssumption DEF ListenerInv, ListenersTypeOK
  <2>2. shutting = "server" => ~Listens("tcp") /\ ~Listens("webtransport")
    BY DEF ListenerInv, TcpKept, WebTransportKept
  <2>3. Listens("websocket")
    BY <2>1, <2>2 DEF WebSocketClose, ServerStopped, WebSocketClosed, Listens
  <2> QED BY <2>3 DEF ListenerInv
<1>2. UNCHANGED <<listenerKind, incoming, jobsAwaited>>
  BY DEF WebSocketClose, ServerStopped, WebSocketClosed
<1>3. CASE WebSocketClose \/ WebSocketClosed
  <2>1. UNCHANGED <<offered, peer, taker>>
    BY <1>3 DEF WebSocketClose, WebSocketClosed
  <2>2. \/ /\ ~listenerClosed /\ listenerClosed' = TRUE /\ endpoint' = "stopped"
           /\ shutting' = "server"
        \/ /\ shutting = "queue" /\ At("dropping") = {} /\ shutting' = "done"
           /\ UNCHANGED <<listenerClosed, endpoint>>
    BY <1>3 DEF WebSocketClose, WebSocketClosed
  <2>3. ListenersTypeOK'
    BY <1>2, <2>1, <2>2 DEF ListenerInv, ListenersTypeOK
  <2>4. At("queued")' = At("queued") /\ At("dropping")' = At("dropping") /\ Jobs' = Jobs
    BY <2>1 DEF At, Jobs
  <2> HIDE DEF At, Jobs
  <2>5. (listenerClosed' <=> shutting' # "none") /\ (shutting' = "done" => At("dropping") = {})
        /\ shutting' \in {"server", "done"}
    BY <2>2 DEF ListenerInv
  <2>6. WebSocketKept'
    BY <1>1, <1>2, <2>1, <2>2, <2>4 DEF ListenerInv, WebSocketKept
  <2> QED BY <1>1, <1>2, <2>1, <2>3, <2>4, <2>5, <2>6 DEF ListenerInv, Listens
<1>4. CASE ServerStopped
  <2>1. /\ shutting = "server" /\ Jobs = {} /\ endpoint' = "closed" /\ shutting' = "queue"
        /\ CloseOffered /\ UNCHANGED listenerClosed
    BY <1>4 DEF ServerStopped
  <2>2. /\ peer' \in [Peers -> [at : Places, open : BOOLEAN]]
        /\ offered' \in [values : Seq(Peers), closed : BOOLEAN]
        /\ offered'.closed = TRUE /\ offered'.values = <<>>
        /\ taker' \in {taker, "ended"}
        /\ Lists(Peers, offered'.values, At("queued")') /\ Jobs' = Jobs
        /\ \A q \in Peers : /\ peer'[q].open = peer[q].open
                            /\ peer'[q].at = IF peer[q].at = "queued" THEN "dropping"
                                             ELSE peer[q].at
    BY <2>1, QueueCloses
  <2>3. ListenersTypeOK'
    BY <1>2, <2>1, <2>2 DEF ListenerInv, ListenersTypeOK, Places
  <2>4. WebSocketKept'
    BY <1>1, <1>2, <2>1, <2>2 DEF WebSocketKept
  <2>5. \A q \in Peers : peer'[q].open => peer'[q].at \notin {"away", "gone", "reported"}
    BY <2>2 DEF ListenerInv
  <2>6. listenerClosed' /\ shutting' # "none"
    BY <2>1 DEF ListenerInv
  <2> QED BY <1>1, <1>2, <2>1, <2>2, <2>3, <2>4, <2>5, <2>6 DEF ListenerInv, Listens
<1> QED BY <1>3, <1>4

LEMMA KindOpen == ListenerInv => listenerKind \in {"tcp", "websocket", "webtransport"}
BY ListenerAssumption DEF ListenerInv, ListenersTypeOK

LEMMA LoopInv ==
    ASSUME ListenerInv, LoopStep \/ IncomingFails \/ \E p \in Peers : Arrives(p)
    PROVE  ListenerInv'
<1>1. incoming \notin {"none", "ended"}
  BY DEF LoopStep, LoopReported, Tracks, IncomingFails, Arrives
<1>2. Listens("webtransport") /\ WebTransportKept
  <2>1. ~Listens("tcp") /\ ~Listens("websocket")
    BY <1>1 DEF ListenerInv, TcpKept, WebSocketKept
  <2> QED BY <2>1, KindOpen DEF Listens, ListenerInv
<1>3. UNCHANGED <<listenerKind, listenerClosed, endpoint, offered, taker, shutting, jobsAwaited>>
  BY DEF LoopStep, LoopReported, Tracks, IncomingFails, Arrives, LoopMoves
<1>4. shutting \notin {"jobs", "done"}
  BY <1>1, <1>2 DEF WebTransportKept
<1>5. CASE LoopReported \/ IncomingFails
  <2>1. UNCHANGED peer /\ incoming \in {"waiting", "reporting"}
        /\ incoming' \in {"ended", "reporting", "waiting"}
    BY <1>5 DEF LoopReported, IncomingFails, LoopMoves
  <2>2. \A p \in Peers : peer[p].at # "offered"
    BY <1>2, <2>1 DEF WebTransportKept
  <2>3. ListenersTypeOK'
    BY <1>3, <2>1 DEF ListenerInv, ListenersTypeOK
  <2>4. At("queued")' = At("queued") /\ At("dropping")' = At("dropping") /\ Jobs' = Jobs
    BY <2>1 DEF At, Jobs
  <2> HIDE DEF At, Jobs
  <2>5. WebTransportKept'
    BY <1>2, <1>3, <1>4, <2>1, <2>2, <2>4 DEF WebTransportKept
  <2> QED BY <1>2, <1>3, <2>1, <2>3, <2>4, <2>5 DEF ListenerInv, Listens
<1>6. ASSUME NEW p \in Peers, Arrives(p) \/ Tracks(p) PROVE ListenerInv'
  <2>1. PICK to \in {"offered", "accepting"}, o \in BOOLEAN :
            /\ Moves(p, to, o)
            /\ \/ /\ to = "offered" /\ incoming = "waiting" /\ incoming' = "given"
                  /\ peer[p].at = "away"
               \/ /\ to = "accepting" /\ peer[p].at = "offered"
                  /\ incoming' \in {"ended", "waiting"}
    <3>1. peer[p].open \in BOOLEAN
      BY DEF ListenerInv, ListenersTypeOK
    <3> QED BY <1>6, <3>1 DEF Arrives, Tracks, LoopMoves
  <2>2. /\ peer' \in [Peers -> [at : Places, open : BOOLEAN]]
        /\ peer'[p].at = to
        /\ \A q \in Peers : q # p => peer'[q] = peer[q]
        /\ \A q \in Peers : peer'[q].at = IF q = p THEN to ELSE peer[q].at
    BY <2>1, PeerMoved DEF Places, InJob
  <2>3. ListenersTypeOK'
    BY <1>3, <2>1, <2>2 DEF ListenerInv, ListenersTypeOK, Places
  <2>4. Lists(Peers, offered'.values, At("queued")')
    BY <1>3, <2>1, <2>2, QueueStays
  <2>5. At("dropping")' \subseteq At("dropping")
    BY <2>1, <2>2 DEF At
  <2>6. \A q \in Peers : peer'[q].open => peer'[q].at \notin {"away", "gone", "reported"}
    BY <2>2 DEF ListenerInv
  <2>7. \A q, r \in Peers : peer'[q].at = "offered" =>
            incoming' = "given" /\ (peer'[r].at = "offered" => q = r)
    <3>1. CASE to = "offered"
      <4>1. \A q \in Peers : peer[q].at # "offered"
        BY <1>2, <2>1, <3>1 DEF WebTransportKept
      <4> QED BY <2>1, <2>2, <3>1, <4>1
    <3>2. CASE to = "accepting"
      <4>1. \A q \in Peers : q # p => peer[q].at # "offered"
        BY <1>2, <2>1, <3>2 DEF WebTransportKept
      <4> QED BY <2>2, <3>2, <4>1
    <3> QED BY <3>1, <3>2
  <2>8. WebTransportKept'
    BY <1>2, <1>3, <1>4, <2>1, <2>7 DEF WebTransportKept
  <2> QED BY <1>2, <1>3, <2>3, <2>4, <2>5, <2>6, <2>8 DEF ListenerInv, Listens
<1> QED BY <1>5, <1>6 DEF LoopStep

LEMMA WebTransportInv ==
    ASSUME ListenerInv, WebTransportClose \/ EndpointCloses \/ LoopAwaited \/ JobsAwaited
    PROVE  ListenerInv'
<1>1. Listens("webtransport") /\ WebTransportKept
  <2>1. shutting \in {"loop", "jobs"} => ~Listens("tcp") /\ ~Listens("websocket")
    BY DEF ListenerInv, TcpKept, WebSocketKept
  <2>2. Listens("webtransport")
    BY <2>1, KindOpen DEF WebTransportClose, EndpointCloses, LoopAwaited, JobsAwaited, Listens
  <2> QED BY <2>2 DEF ListenerInv
<1>2. UNCHANGED <<listenerKind, incoming>>
  BY DEF WebTransportClose, EndpointCloses, LoopAwaited, JobsAwaited
<1>3. CASE WebTransportClose
  <2>1. /\ listenerClosed' = TRUE /\ endpoint' = "stopped" /\ shutting' = "queue"
        /\ CloseOffered /\ UNCHANGED jobsAwaited
    BY <1>3 DEF WebTransportClose
  <2>2. /\ peer' \in [Peers -> [at : Places, open : BOOLEAN]]
        /\ offered' \in [values : Seq(Peers), closed : BOOLEAN]
        /\ offered'.closed = TRUE /\ offered'.values = <<>>
        /\ taker' \in {taker, "ended"}
        /\ Lists(Peers, offered'.values, At("queued")') /\ Jobs' = Jobs
        /\ \A q \in Peers : /\ peer'[q].open = peer[q].open
                            /\ peer'[q].at = IF peer[q].at = "queued" THEN "dropping"
                                             ELSE peer[q].at
    BY <2>1, QueueCloses
  <2>3. ListenersTypeOK'
    BY <1>2, <2>1, <2>2 DEF ListenerInv, ListenersTypeOK, Places
  <2>4. WebTransportKept'
    BY <1>1, <1>2, <2>1, <2>2 DEF WebTransportKept
  <2>5. \A q \in Peers : peer'[q].open => peer'[q].at \notin {"away", "gone", "reported"}
    BY <2>2 DEF ListenerInv
  <2> QED BY <1>1, <1>2, <2>1, <2>2, <2>3, <2>4, <2>5 DEF ListenerInv, Listens
<1>4. CASE EndpointCloses \/ LoopAwaited \/ JobsAwaited
  <2>1. UNCHANGED <<offered, taker, listenerClosed>>
    BY <1>4 DEF EndpointCloses, LoopAwaited, JobsAwaited
  <2>2. /\ peer' \in [Peers -> [at : Places, open : BOOLEAN]]
        /\ \A q \in Peers : peer'[q].at = peer[q].at /\ (peer'[q].open => peer[q].open)
    <3>1. peer \in [Peers -> [at : Places, open : BOOLEAN]]
      BY DEF ListenerInv, ListenersTypeOK, Places
    <3>2. CASE UNCHANGED peer
      BY <3>1, <3>2
    <3>3. CASE peer' = [q \in Peers |-> [peer[q] EXCEPT !.open = FALSE]]
      <4>1. \A q \in Peers : /\ peer'[q] \in [at : Places, open : BOOLEAN]
                             /\ peer'[q].at = peer[q].at /\ ~peer'[q].open
        BY <3>1, <3>3 DEF Places
      <4>2. peer' = [q \in Peers |-> peer'[q]]
        BY <3>3
      <4> HIDE DEF Places
      <4> QED BY <4>1, <4>2
    <3> QED BY <1>4, <3>2, <3>3 DEF EndpointCloses, LoopAwaited, JobsAwaited
  <2>3. At("queued")' = At("queued") /\ At("dropping")' = At("dropping") /\ Jobs' = Jobs
    BY <2>2 DEF At, Jobs
  <2>4. Jobs \subseteq Peers
    BY DEF Jobs
  <2>5. \A q \in Peers : peer'[q].open => peer'[q].at \notin {"away", "gone", "reported"}
    BY <2>2 DEF ListenerInv
  <2> HIDE DEF At, Jobs
  <2>6. \/ /\ shutting = "queue" /\ At("dropping") = {} /\ shutting' = "loop"
           /\ endpoint' = "closed" /\ UNCHANGED jobsAwaited
        \/ /\ shutting = "loop" /\ incoming = "ended" /\ shutting' = "jobs"
           /\ jobsAwaited' = Jobs /\ UNCHANGED endpoint
        \/ /\ shutting = "jobs" /\ jobsAwaited \cap Jobs = {} /\ shutting' = "done"
           /\ UNCHANGED <<jobsAwaited, endpoint>>
    BY <1>4 DEF EndpointCloses, LoopAwaited, JobsAwaited
  <2>7. ListenersTypeOK'
    BY <1>2, <2>1, <2>2, <2>4, <2>6 DEF ListenerInv, ListenersTypeOK, Places
  <2>8. WebTransportKept'
    BY <1>1, <1>2, <2>1, <2>2, <2>3, <2>6 DEF WebTransportKept
  <2>9. (listenerClosed' <=> shutting' # "none") /\ At("dropping") = {}
    BY <2>1, <2>6 DEF ListenerInv
  <2> QED BY <1>1, <1>2, <2>1, <2>3, <2>5, <2>7, <2>8, <2>9 DEF ListenerInv, Listens
<1> QED BY <1>3, <1>4

LEMMA ListenersStep == ASSUME ListenerInv, [ListenersNext]_listenerVars PROVE ListenerInv'
<1>1. CASE UNCHANGED listenerVars
  <2>1. UNCHANGED <<listenerKind, listenerClosed, endpoint, offered, peer, taker, incoming,
                    shutting, jobsAwaited>>
    BY <1>1 DEF listenerVars
  <2>2. At("queued")' = At("queued") /\ At("dropping")' = At("dropping") /\ Jobs' = Jobs
    BY <2>1 DEF At, Jobs
  <2> HIDE DEF At, Jobs
  <2> QED BY <2>1, <2>2 DEF ListenerInv, ListenersTypeOK, Listens, TcpKept, WebSocketKept,
                            WebTransportKept
<1>2. CASE TakerAsks \/ TakerStep \/ TcpClose
  BY <1>2, AsksInv, TcpInv DEF TakerStep
<1>3. CASE LoopStep \/ IncomingFails \/ \E p \in Peers : Arrives(p)
  BY <1>3, LoopInv
<1>4. CASE CloseStep \/ WebSocketClose \/ WebTransportClose
  BY <1>4, WebSocketInv, WebTransportInv DEF CloseStep
<1>5. ASSUME NEW p \in Peers, Handle(p) \/ JobStep(p) \/ JobGetsStream(p) \/ PeerLeaves(p)
      PROVE  ListenerInv'
  BY <1>5, HandleInv, JobStepInv, StreamInvL, LeavesInv
<1> QED BY <1>1, <1>2, <1>3, <1>4, <1>5 DEF ListenersNext

LEMMA ListenersStart == ListenersInit => ListenerInv
<1> SUFFICES ASSUME ListenersInit PROVE ListenerInv
  OBVIOUS
<1>1. \A p \in Peers : peer[p].at = "away" /\ ~peer[p].open
  BY DEF ListenersInit
<1>2. At("queued") = {} /\ At("dropping") = {} /\ Jobs = {}
  BY <1>1 DEF At, Jobs, InJob
<1>3. ListenersTypeOK
  BY EmptySeq DEF ListenersInit, ListenersTypeOK
<1>4. Lists(Peers, offered.values, At("queued"))
  BY <1>2, EmptyListed DEF ListenersInit
<1> HIDE DEF At, Jobs
<1>5. TcpKept \/ ~Listens("tcp")
  BY <1>1 DEF ListenersInit, Listens, TcpKept
<1>6. WebSocketKept \/ ~Listens("websocket")
  BY <1>1, <1>2 DEF ListenersInit, Listens, WebSocketKept
<1>7. WebTransportKept \/ ~Listens("webtransport")
  BY <1>1, <1>2 DEF ListenersInit, Listens, WebTransportKept
<1> QED BY <1>1, <1>2, <1>3, <1>4, <1>5, <1>6, <1>7 DEF ListenersInit, ListenerInv

\* The step part of the specification, of which the fairness is no part.
ListenersRun == ListenersInit /\ [][ListenersNext]_listenerVars

\* In every reachable state a connection that has been accepted is with a job, in the
\* queue, with a close() that is under way or with the consumer, for each kind of
\* listener and however far its close() has come.
THEOREM ListenersInvariant == ListenersRun => []ListenerInv
<1>1. ListenerInv /\ [ListenersNext]_listenerVars => ListenerInv'
  BY ListenersStep
<1> QED BY <1>1, ListenersStart, PTL DEF ListenersRun

LEMMA ListenerInvSays == ListenerInv => ListenersTypeOK /\ EveryPeerOwned
<1> SUFFICES ASSUME ListenerInv PROVE ListenersTypeOK /\ EveryPeerOwned
  OBVIOUS
<1>1. \A p \in Peers : peer[p].at \in Places
  BY DEF ListenerInv, ListenersTypeOK, Places
<1>2. ToSet(offered.values) = At("queued") /\ IsInjective(offered.values)
  BY DEF ListenerInv, Lists
<1>3. ASSUME shutting = "done", NEW p \in Peers
      PROVE  peer[p].at \in {"away", "taken", "gone"} \/ (Listens("tcp") /\ peer[p].at = "offered")
  <2>1. CASE Listens("tcp")
    BY <2>1 DEF ListenerInv, TcpKept
  <2>2. CASE offered.closed
    <3>1. At("queued") = {} /\ At("dropping") = {}
      <4>1. ToSet(<<>>) = {}
        BY EmptyListed DEF Lists
      <4> HIDE DEF At
      <4> QED BY <1>2, <1>3, <2>2, <4>1 DEF ListenerInv
    <3>2. peer[p].at \notin {"queued", "dropping"}
      BY <3>1 DEF At
    <3>3. CASE Listens("websocket")
      <4>1. Jobs = {}
        BY <2>2, <3>3 DEF ListenerInv, WebSocketKept
      <4> QED BY <1>1, <3>2, <3>3, <4>1 DEF Jobs, InJob, Places, ListenerInv, WebSocketKept
    <3>4. CASE Listens("webtransport")
      <4>1. Jobs = {} /\ incoming = "ended"
        BY <1>3, <3>4 DEF ListenerInv, WebTransportKept
      <4>2. peer[p].at # "offered"
        BY <3>4, <4>1 DEF ListenerInv, WebTransportKept
      <4> QED BY <1>1, <3>2, <4>1, <4>2 DEF Jobs, InJob, Places
    <3> QED BY <2>1, <3>3, <3>4, KindOpen DEF Listens
  <2>3. Listens("tcp") \/ offered.closed
    BY <1>3, KindOpen DEF ListenerInv, Listens, WebSocketKept, WebTransportKept
  <2> QED BY <2>1, <2>2, <2>3
<1> HIDE DEF At
<1> QED BY <1>2, <1>3 DEF ListenerInv, EveryPeerOwned

LEMMA TakenStep ==
    ASSUME ListenerInv, [ListenersNext]_listenerVars, NEW p \in Peers,
           peer[p].at # "taken", peer'[p].at = "taken"
    PROVE  /\ ~offered.closed
           /\ listenerClosed => peer[p].at # "away" \/ shutting = "server"
<1>1. peer \in [Peers -> [at : Places, open : BOOLEAN]]
  BY DEF ListenerInv, ListenersTypeOK, Places
<1>2. ASSUME NEW q \in Peers, NEW to \in Places, NEW o \in BOOLEAN, Moves(q, to, o)
      PROVE  p = q /\ to = "taken"
  <2>1. peer'[p].at = IF p = q THEN to ELSE peer[p].at
    BY <1>2, PeerMoved
  <2> QED BY <2>1
<1>3. ASSUME NEW q \in Peers, NEW to \in Places, NEW o \in BOOLEAN, Moves(q, to, o), to # "taken"
      PROVE  FALSE
  BY <1>2, <1>3
<1>4. ASSUME NEW q \in Peers, Push(q) PROVE p = q /\ ~offered.closed
  <2>1. \E to \in {"refused", "taken", "queued"} :
            Moves(q, to, TRUE) /\ (to = "refused" <=> offered.closed)
    BY <1>4 DEF Push
  <2> QED BY <1>2, <2>1 DEF Places, InJob
<1>5. ~CloseOffered
  BY QueueCloses
<1>6. CASE TakerAsks
  <2> DEFINE h == Head(offered.values)
  <2>1. offered.values # <<>> /\ peer' = [peer EXCEPT ![h].at = "taken"]
    BY <1>6 DEF TakerAsks
  <2>2. h \in At("queued")
    <3> HIDE DEF At
    <3> QED BY <2>1, ListsLess DEF ListenerInv
  <2> HIDE DEF h
  <2>3. h = p
    BY <1>1, <2>1, <2>2 DEF At
  <2> QED BY <2>1, <2>2, <2>3 DEF At, ListenerInv
<1>7. CASE TcpAcceptFails \/ TcpClose \/ LoopReported \/ IncomingFails \/ WebSocketClose
           \/ WebSocketClosed \/ LoopAwaited \/ JobsAwaited \/ UNCHANGED listenerVars
  <2>1. UNCHANGED peer
    BY <1>7 DEF TcpAcceptFails, TcpClose, LoopReported, IncomingFails, WebSocketClose,
                WebSocketClosed, LoopAwaited, JobsAwaited, listenerVars
  <2> QED BY <2>1
<1>8. CASE ServerStopped \/ WebTransportClose
  BY <1>5, <1>8 DEF ServerStopped, WebTransportClose
<1>9. ~EndpointCloses
  <2>1. EndpointCloses => peer'[p] = [peer[p] EXCEPT !.open = FALSE]
    BY DEF EndpointCloses
  <2> QED BY <1>1, <2>1 DEF Places
<1>10. ASSUME NEW q \in Peers, TcpAccepts(q)
       PROVE  ~offered.closed /\ peer[p].at # "away"
  <2>1. \/ Moves(q, "offered", TRUE)
        \/ Moves(q, "taken", TRUE) /\ peer[q].at = "offered"
    BY <1>10 DEF TcpAccepts
  <2>2. p = q /\ peer[q].at = "offered"
    BY <1>2, <1>3, <2>1 DEF Places, InJob
  <2> QED BY <1>10, <2>2 DEF TcpAccepts, ListenerInv, TcpKept
<1>11. ASSUME NEW q \in Peers, Tracks(q) \/ Arrives(q) \/ JobStep(q) \/ PeerLeaves(q) PROVE FALSE
  <2>1. peer[q].at \in Places /\ peer[q].open \in BOOLEAN /\ listenerClosed \in BOOLEAN
    BY <1>1 DEF ListenerInv, ListenersTypeOK
  <2>2. ASSUME NEW to \in Places, NEW o \in BOOLEAN, Moves(q, to, o),
               to # "taken" \/ peer[q].at = to
        PROVE  FALSE
    BY <1>2, <2>2
  <2>3. CASE Tracks(q)
    BY <2>1, <2>2, <2>3 DEF Tracks, Places, InJob
  <2>4. CASE Arrives(q)
    BY <2>1, <2>2, <2>4 DEF Arrives, Places, InJob
  <2>5. CASE JobAccepts(q)
    BY <2>1, <2>2, <2>5 DEF JobAccepts, JobMoves, Places, InJob
  <2>6. CASE JobUpgrades(q)
    <3>1. CASE Moves(q, "reported", FALSE)
      BY <2>2, <3>1 DEF Places, InJob
    <3>2. CASE Moves(q, IF listenerClosed THEN "gone" ELSE "stream", ~listenerClosed)
      <4>1. CASE listenerClosed
        <5>1. Moves(q, "gone", FALSE)
          BY <3>2, <4>1 DEF Moves
        <5> QED BY <2>2, <5>1 DEF Places
      <4>2. CASE ~listenerClosed
        <5>1. Moves(q, "stream", TRUE)
          BY <3>2, <4>2 DEF Moves
        <5> QED BY <2>2, <5>1 DEF Places, InJob
      <4> QED BY <4>1, <4>2
    <3> QED BY <2>6, <3>1, <3>2 DEF JobUpgrades, JobMoves
  <2>7. CASE JobEnds(q)
    <3> DEFINE o == IF peer[q].at = "refused" THEN FALSE ELSE peer[q].open
    <3>1. o \in BOOLEAN /\ Moves(q, "gone", o)
      BY <2>1, <2>7 DEF JobEnds, JobMoves
    <3> HIDE DEF o
    <3> QED BY <2>2, <3>1 DEF Places
  <2>8. CASE DropEnds(q)
    BY <2>2, <2>8 DEF DropEnds, JobMoves, Places
  <2>9. CASE PeerLeaves(q)
    BY <2>1, <2>2, <2>9 DEF PeerLeaves, JobMoves
  <2> QED BY <1>11, <2>3, <2>4, <2>5, <2>6, <2>7, <2>8, <2>9 DEF JobStep
<1>12. ASSUME NEW q \in Peers, Handle(q)
       PROVE  ~offered.closed /\ (listenerClosed => shutting = "server")
  <2>1. Push(q) \/ Moves(q, "gone", FALSE) \/ Moves(q, "reported", FALSE)
    BY <1>12 DEF Handle
  <2>2. Push(q)
    BY <1>3, <2>1 DEF Places, InJob
  <2> QED BY <1>4, <1>12, <2>2 DEF Handle, ListenerInv, WebSocketKept
<1>13. ASSUME NEW q \in Peers, JobGetsStream(q)
       PROVE  ~offered.closed /\ peer[p].at # "away"
  <2>1. Push(q) \/ Moves(q, "reported", FALSE)
    BY <1>13 DEF JobGetsStream, JobMoves
  <2>2. Push(q)
    BY <1>3, <2>1 DEF Places, InJob
  <2>3. p = q /\ ~offered.closed
    BY <1>4, <2>2
  <2> QED BY <1>13, <2>3 DEF JobGetsStream
<1> QED BY <1>6, <1>7, <1>8, <1>9, <1>10, <1>11, <1>12, <1>13
        DEF ListenersNext, TakerStep, LoopStep, CloseStep

\* A listener whose queue is closed gives out no connection, and one that is closing
\* gives out only what it had accepted, or what its server was already upgrading.
THEOREM NothingGivenLate == ListenersRun => NothingTakenLate
<1>1. ListenerInv /\ [ListenersNext]_listenerVars =>
      [\A p \in Peers :
           peer[p].at # "taken" /\ peer'[p].at = "taken" =>
               /\ ~offered.closed
               /\ listenerClosed => peer[p].at # "away" \/ shutting = "server"]_listenerVars
  BY TakenStep
<1> QED BY <1>1, ListenersInvariant, PTL DEF ListenersRun, NothingTakenLate

(***************************************************************************)
(* TransportConnects.                                                      *)
(***************************************************************************)
\* A socket that is still opening is the one the call waits for, or marked as given up.
ConnectsInv ==
    /\ ConnectsTypeOK /\ NoSocketLost
    /\ dialing = "idle" <=> dial = 0
    /\ dialing = "streaming" => connectKind = "webtransport"
    /\ \A s \in Sockets : socket[s] = "opening" =>
           s \in gaveUp \/ (s = dial /\ dialing = "connecting")

ConnectsRun == ConnectsInit /\ [][ConnectsNext]_connectVars

LEMMA InitConnects == ConnectsInit => ConnectsInv
  BY ConnectAssumption
     DEF ConnectsInit, ConnectsInv, ConnectsTypeOK, NoSocketLost, Sockets

LEMMA NextConnects == ASSUME ConnectsInv, [ConnectsNext]_connectVars PROVE ConnectsInv'
<1> USE ConnectAssumption DEF ConnectsInv, ConnectsTypeOK, NoSocketLost, Sockets, Fixed
<1>1. CASE UNCHANGED connectVars
  BY <1>1 DEF connectVars
<1>2. CASE Dial
  <2>1. timer' \in {"off", "armed"}
    BY <1>2 DEF Dial, Armed
  <2>2. dial + 1 \in Sockets
    BY <1>2 DEF Dial
  <2>3. socket' = [socket EXCEPT ![dial + 1] = "opening"] /\ dial' = dial + 1
        /\ dialing' = "connecting" /\ UNCHANGED <<gaveUp, connectKind, layer>>
    BY <1>2 DEF Dial
  <2>4. \A s \in Sockets : s # dial + 1 => socket'[s] = socket[s] /\ socket[s] # "open"
    BY <1>2, <2>3 DEF Dial
  <2>5. \A s \in Sockets : socket[s] = "opening" => s \in gaveUp
    BY <1>2 DEF Dial
  <2> QED BY <2>1, <2>2, <2>3, <2>4, <2>5
<1>3. CASE WaitGivenUp
  BY <1>3 DEF WaitGivenUp
<1>4. CASE StreamOpened
  <2>1. dialing' \in {"connected", "waiting", "failed"}
    BY <1>4 DEF StreamOpened, Failed
  <2> QED BY <1>4, <2>1 DEF StreamOpened, Failed
<1>5. CASE ConnectTimerFires
  <2>1. dialing' \in {"waiting", "failed"} /\ dial \in Sockets
    BY <1>5 DEF ConnectTimerFires, Failed
  <2> QED BY <1>5, <2>1 DEF ConnectTimerFires
<1>6. CASE Built \/ BuildFails \/ Unwound \/ StubCloses \/ OtherEndCloses
  BY <1>6 DEF Built, BuildFails, Unwound, StubCloses, OtherEndCloses
<1>7. ASSUME NEW s \in Sockets, Opens(s) PROVE ConnectsInv'
  <2>1. timer' \in {"off", "armed"}
    BY <1>7 DEF Opens, Armed
  <2>2. LateConnection(s) \in {"open", "closed"}
        /\ (LateConnection(s) = "open" => s \notin gaveUp)
    BY DEF LateConnection
  <2> QED BY <1>7, <2>1, <2>2 DEF Opens
<1>8. ASSUME NEW s \in Sockets, DialFails(s) PROVE ConnectsInv'
  <2>1. s = dial /\ dialing = "connecting" => dialing' \in {"waiting", "failed"}
    BY <1>8 DEF DialFails, Failed
  <2> QED BY <1>8, <2>1 DEF DialFails
<1> QED BY <1>1, <1>2, <1>3, <1>4, <1>5, <1>6, <1>7, <1>8 DEF ConnectsNext

\* A socket that is still opening is the one its connect call waits for, or one whose
\* timer has fired: so none opens that nobody will close.
THEOREM ConnectsInvariant == ConnectsRun => []ConnectsInv
  BY InitConnects, NextConnects, PTL DEF ConnectsRun

(***************************************************************************)
(* ReconnectingClient.                                                     *)
(***************************************************************************)
Unended == {o \in Operations : operation[o].result = "running"}

\* The lane holds what has been started and not ended, and capabilities come from
\* connections.
LaneKept ==
    /\ Lists(Operations, lane, Unended)
    /\ at # "gate" => lane # <<>>
    /\ \A o \in Operations :
           /\ operation[o].kind = "none" <=> operation[o].result = "none"
           /\ operation[o].kind = "call" => operation[o].cap \in Caps
           /\ operation[o].kind = "bootstrap" /\ operation[o].result = "done" =>
                  operation[o].cap \in Caps

ConnectionKept ==
    /\ current \in {0, made}
    /\ 1 .. made = asked \cup ({current} \ {0}) /\ current \notin asked
    /\ at \in {"ready", "answer", "replaced", "rebooting", "resent"} => current # 0
    /\ at \in {"replacing", "connecting", "waiting", "closing"} => current = 0
    /\ shut => at \in {"gate", "closing"}

Balanced(count) ==
    count.attempts = count.successes + count.failures + (IF InProgress(count) THEN 1 ELSE 0)

\* The running operation is a call whose connection is being replaced, or has been.
Retrying == /\ at # "gate" /\ Kind = "call"
            /\ InProgress(reconnects) \/ at \in {"replaced", "rebooting", "resent"}

CountersKept ==
    /\ Balanced(reconnects) /\ Balanced(retries)
    /\ InProgress(reconnects) => at \in {"replacing", "connecting", "waiting"}
    /\ at = "replacing" => InProgress(reconnects)
    /\ InProgress(retries) <=> Retrying
    /\ at \in {"rebooting", "resent"} => Kind = "call"

\* The running operation may have sent something.
MaySend == /\ at \notin {"gate", "closing"}
           /\ at \in {"connecting", "waiting", "ready"} => InProgress(reconnects)

SentKept ==
    /\ \A j \in DOMAIN sent :
           /\ sent[j].conn <= made /\ operation[sent[j].op].kind # "none"
           /\ sent[j].op \in Unended =>
                  /\ MaySend /\ sent[j].op = Running
                  /\ at \in {"replaced", "rebooting"} => sent[j].conn < made
    /\ at \notin {"gate", "resent"} =>
           \A i, j \in DOMAIN sent : sent[i].op = Running /\ sent[j].op = Running => i = j

ReconnectInv ==
    /\ ReconnectTypeOK /\ LaneKept /\ ConnectionKept /\ CountersKept /\ SentKept
    /\ RetriesMapped

OperationRecords == [kind : Kinds \cup {"none"}, cap : Caps \cup {NoCap},
                     result : {"none", "running", "done", "failed"}]
CountRecords == [attempts : Nat, successes : Nat, failures : Nat]
SentRecords == [op : Operations, conn : 1 .. MaxConnects, cap : Caps, mapped : BOOLEAN]
Stages == {"gate", "connecting", "waiting", "ready", "answer", "replacing", "replaced",
           "rebooting", "resent", "closing"}

\* The variables of the lane, and the others.
LaneTyped ==
    /\ operation \in [Operations -> OperationRecords] /\ lane \in Seq(Operations)
    /\ at \in Stages /\ previous \in Caps \cup {NoCap}
CountsTyped == reconnects \in CountRecords /\ retries \in CountRecords
RestTyped ==
    /\ choice \in ReconnectChoices /\ attempt \in 0 .. MaxAttempts /\ aborted \in BOOLEAN
    /\ bootCap \in Caps \cup {NoCap} /\ current \in 0 .. made /\ made \in 0 .. MaxConnects
    /\ asked \subseteq 1 .. MaxConnects /\ shut \in BOOLEAN
SentTyped == sent \in Seq(SentRecords)

LEMMA ReconnectTypes ==
    /\ ReconnectTypeOK <=> LaneTyped /\ CountsTyped /\ RestTyped /\ SentTyped
    /\ ReconnectTypeOK' <=> LaneTyped' /\ CountsTyped' /\ RestTyped' /\ SentTyped'
  BY DEF ReconnectTypeOK, LaneTyped, CountsTyped, RestTyped, SentTyped, OperationRecords,
         CountRecords, SentRecords, Stages

LEMMA SentEach ==
    ASSUME SentTyped
    PROVE  /\ Len(sent) \in Nat /\ DOMAIN sent = 1 .. Len(sent)
           /\ \A j \in DOMAIN sent :
                  /\ sent[j] \in SentRecords /\ sent[j].op \in Operations
                  /\ sent[j].conn \in 1 .. MaxConnects
<1>1. Len(sent) \in Nat /\ DOMAIN sent = 1 .. Len(sent)
  BY LenProperties DEF SentTyped
<1>2. \A j \in DOMAIN sent : sent[j] \in SentRecords
  BY <1>1, ElementOfSeq DEF SentTyped
<1> QED BY <1>1, <1>2 DEF SentRecords

LEMMA CountBegins ==
    ASSUME NEW n \in CountRecords, Balanced(n), ~InProgress(n)
    PROVE  /\ Add(n, "attempts") \in CountRecords
           /\ Balanced(Add(n, "attempts")) /\ InProgress(Add(n, "attempts"))
<1> DEFINE m == Add(n, "attempts")
<1>1. /\ m \in CountRecords /\ m.attempts = n.attempts + 1 /\ m.successes = n.successes
      /\ m.failures = n.failures
  BY DEF Add, CountRecords
<1>2. n.attempts \in Nat /\ n.successes \in Nat /\ n.failures \in Nat
      /\ n.attempts = n.successes + n.failures
  BY DEF CountRecords, Balanced
<1> HIDE DEF m
<1>3. Balanced(m) /\ InProgress(m)
  BY <1>1, <1>2 DEF Balanced, InProgress
<1> QED BY <1>1, <1>3 DEF m

LEMMA CountEnds ==
    ASSUME NEW n \in CountRecords, Balanced(n), InProgress(n),
           NEW f \in {"successes", "failures"}
    PROVE  Add(n, f) \in CountRecords /\ Balanced(Add(n, f)) /\ ~InProgress(Add(n, f))
<1> DEFINE m == Add(n, f)
<1>1. m \in CountRecords /\ m.attempts = n.attempts
      /\ m.successes + m.failures = n.successes + n.failures + 1
  BY DEF Add, CountRecords
<1>2. n.attempts \in Nat /\ n.successes \in Nat /\ n.failures \in Nat
      /\ n.attempts = n.successes + n.failures + 1
  BY DEF CountRecords, Balanced
<1>3. m.attempts \in Nat /\ m.successes \in Nat /\ m.failures \in Nat
  BY <1>1 DEF CountRecords
<1> HIDE DEF m
<1>4. Balanced(m) /\ ~InProgress(m)
  BY <1>1, <1>2, <1>3 DEF Balanced, InProgress
<1> QED BY <1>1, <1>4 DEF m

LEMMA RunningKnown ==
    ASSUME LaneTyped, LaneKept, lane # <<>>
    PROVE  /\ Running \in Operations /\ Running \in Unended
           /\ operation[Running] \in OperationRecords
           /\ Lists(Operations, Tail(lane), Unended \ {Running})
<1>1. Running \in Unended /\ Running \in Operations
      /\ Lists(Operations, Tail(lane), Unended \ {Running})
  BY ListsLess DEF LaneKept, Running
<1> QED BY <1>1 DEF LaneTyped

\* The finally clause leaves nothing behind that the next operation could mistake for
\* its own.
LEMMA OperationEnds ==
    ASSUME ReconnectInv, lane # <<>>, NEW result \in {"done", "failed"},
           NEW cap \in Caps \cup {NoCap}, EndsWith(result, cap),
           Kind = "call" => cap \in Caps,
           Kind = "bootstrap" /\ result = "done" => cap \in Caps,
           UNCHANGED <<sent, made>>
    PROVE  LaneTyped' /\ LaneKept' /\ SentTyped' /\ SentKept' /\ RetriesMapped'
           /\ at' = "gate"
<1> DEFINE r == Running
<1>1. /\ r \in Operations /\ r \in Unended /\ operation[r] \in OperationRecords
      /\ Lists(Operations, Tail(lane), Unended \ {r})
  BY RunningKnown, ReconnectTypes DEF ReconnectInv
<1>2. operation' = [operation EXCEPT ![r].result = result, ![r].cap = cap]
      /\ lane' = Tail(lane) /\ at' = "gate" /\ previous' = NoCap
  BY DEF EndsWith
<1>3. operation \in [Operations -> OperationRecords] /\ Kind = operation[r].kind
  BY ReconnectTypes DEF ReconnectInv, LaneTyped, Kind
<1> HIDE DEF r
<1>4. /\ operation' \in [Operations -> OperationRecords]
      /\ operation'[r].kind = operation[r].kind /\ operation'[r].result = result
      /\ operation'[r].cap = cap
      /\ \A o \in Operations : o # r => operation'[o] = operation[o]
  BY <1>1, <1>2, <1>3 DEF OperationRecords
<1>5. Unended' = Unended \ {r}
  BY <1>1, <1>4 DEF Unended
<1>6. operation[r].kind # "none"
  BY <1>1 DEF ReconnectInv, LaneKept, Unended
<1>7. LaneKept'
  <2>1. Lists(Operations, lane', Unended')
    BY <1>1, <1>2, <1>5
  <2>2. \A o \in Operations :
           /\ operation'[o].kind = "none" <=> operation'[o].result = "none"
           /\ operation'[o].kind = "call" => operation'[o].cap \in Caps
           /\ operation'[o].kind = "bootstrap" /\ operation'[o].result = "done" =>
                  operation'[o].cap \in Caps
    BY <1>1, <1>3, <1>4, <1>6 DEF ReconnectInv, LaneKept
  <2> QED BY <1>2, <2>1, <2>2 DEF LaneKept
<1>8. LaneTyped'
  BY <1>1, <1>2, <1>4 DEF LaneTyped, Lists, Stages
<1>9. SentTyped'
  BY ReconnectTypes DEF ReconnectInv, SentTyped
<1>10. SentKept'
  <2>1. \A j \in DOMAIN sent : sent[j].op \in Operations
    BY ReconnectTypes, SentEach DEF ReconnectInv
  <2>2. ASSUME NEW j \in DOMAIN sent
        PROVE  sent[j].conn <= made /\ operation'[sent[j].op].kind # "none"
               /\ sent[j].op \notin Unended'
    <3>1. sent[j].op \in Unended => sent[j].op = r
      BY DEF ReconnectInv, SentKept, r
    <3> QED BY <1>4, <1>5, <1>6, <2>1, <3>1 DEF ReconnectInv, SentKept
  <2> QED BY <1>2, <2>2 DEF SentKept
<1>11. RetriesMapped'
  BY DEF ReconnectInv, RetriesMapped
<1> QED BY <1>2, <1>7, <1>8, <1>9, <1>10, <1>11

LEMMA OperationEndsAs ==
    ASSUME ReconnectInv, lane # <<>>, NEW result \in {"done", "failed"}, Ends(result),
           result = "failed" \/ Kind # "bootstrap", UNCHANGED <<sent, made>>
    PROVE  LaneTyped' /\ LaneKept' /\ SentTyped' /\ SentKept' /\ RetriesMapped'
           /\ at' = "gate"
<1>1. operation[Running] \in OperationRecords /\ Running \in Operations
  BY RunningKnown, ReconnectTypes DEF ReconnectInv
<1>2. Cap \in Caps \cup {NoCap}
  BY <1>1 DEF Cap, OperationRecords
<1>3. Kind = "call" => Cap \in Caps
  BY <1>1 DEF ReconnectInv, LaneKept, Kind, Cap
<1>4. EndsWith(result, Cap)
  BY DEF Ends
<1> QED BY <1>2, <1>3, <1>4, OperationEnds

LEMMA OperationThrows ==
    ASSUME ReconnectInv, lane # <<>>, Throws, UNCHANGED <<sent, made>>
    PROVE  /\ LaneTyped' /\ LaneKept' /\ SentTyped' /\ SentKept' /\ RetriesMapped'
           /\ CountsTyped' /\ CountersKept' /\ at' = "gate"
<1>1. LaneTyped' /\ LaneKept' /\ SentTyped' /\ SentKept' /\ RetriesMapped' /\ at' = "gate"
  BY OperationEndsAs DEF Throws
<1>2. reconnects \in CountRecords /\ retries \in CountRecords
      /\ Balanced(reconnects) /\ Balanced(retries)
  BY ReconnectTypes DEF ReconnectInv, CountersKept, CountsTyped
<1>3. reconnects' \in CountRecords /\ Balanced(reconnects') /\ ~InProgress(reconnects')
  <2>1. CASE InProgress(reconnects)
    BY <1>2, <2>1, CountEnds DEF Throws
  <2>2. CASE ~InProgress(reconnects)
    BY <1>2, <2>2 DEF Throws
  <2> QED BY <2>1, <2>2
<1>4. retries' \in CountRecords /\ Balanced(retries') /\ ~InProgress(retries')
  <2>1. CASE InProgress(retries)
    BY <1>2, <2>1, CountEnds DEF Throws
  <2>2. CASE ~InProgress(retries)
    BY <1>2, <2>2 DEF Throws
  <2> QED BY <2>1, <2>2
<1>5. CountersKept'
  BY <1>1, <1>3, <1>4 DEF CountersKept, Retrying
<1> QED BY <1>1, <1>3, <1>4, <1>5 DEF CountsTyped

(***************************************************************************)
(* Sending.                                                                *)
(***************************************************************************)
LEMMA SentOnce ==
    ASSUME ReconnectInv, lane # <<>>, at # "gate", NEW cap \in Caps, Sends(cap),
           current # 0, at' \in {"answer", "resent"}, at \in {"ready", "replaced", "rebooting"},
           at # "ready" => at' = "resent" /\ (previous # NoCap => cap.conn = current),
           UNCHANGED <<operation, lane, previous, current, made>>
    PROVE  SentTyped' /\ SentKept' /\ RetriesMapped'
<1> DEFINE r == Running
           e == [op |-> r, conn |-> current, cap |-> cap, mapped |-> previous # NoCap]
<1>1. /\ r \in Operations /\ r \in Unended /\ Len(sent) \in Nat /\ DOMAIN sent = 1 .. Len(sent)
      /\ sent \in Seq(SentRecords)
      /\ \A j \in DOMAIN sent : sent[j].op \in Operations /\ sent[j].conn \in 1 .. MaxConnects
  BY RunningKnown, ReconnectTypes, SentEach DEF ReconnectInv, SentTyped
<1>2. current = made /\ current \in 1 .. MaxConnects /\ made \in Nat
  BY ReconnectTypes DEF ReconnectInv, RestTyped, ConnectionKept
<1>3. /\ e \in SentRecords /\ e.op = r /\ e.conn = current /\ e.cap = cap
      /\ e.mapped = (previous # NoCap)
  BY <1>1, <1>2 DEF SentRecords
<1>4. sent' = Append(sent, e)
  BY DEF Sends
<1>5. /\ sent' \in Seq(SentRecords) /\ DOMAIN sent' = 1 .. Len(sent) + 1
      /\ \A j \in 1 .. Len(sent) : sent'[j] = sent[j]
      /\ sent'[Len(sent) + 1] = e
  <2> HIDE DEF e
  <2> QED BY <1>1, <1>3, <1>4, AppendProperties, LenProperties
<1>6. Running' = r /\ Unended' = Unended /\ Kind' = Kind
  BY DEF Running, Unended, Kind
<1>7. operation[r].kind # "none"
  BY <1>1 DEF ReconnectInv, LaneKept, Unended
\* What the running operation has sent so far, on earlier connections.
<1>8. ASSUME NEW j \in DOMAIN sent, sent[j].op = r
      PROVE  at # "ready" /\ sent[j].conn < made
  <2>1. MaySend /\ (at \in {"replaced", "rebooting"} => sent[j].conn < made)
    BY <1>1, <1>8 DEF ReconnectInv, SentKept
  <2>2. at # "ready"
    BY <2>1 DEF ReconnectInv, CountersKept, MaySend
  <2> QED BY <2>1, <2>2
<1>9. \A i, j \in DOMAIN sent : sent[i].op = r /\ sent[j].op = r => i = j
  BY DEF ReconnectInv, SentKept, r
<1> HIDE DEF r, e
<1>10. SentTyped'
  BY <1>5 DEF SentTyped
<1>11. \A j \in DOMAIN sent' : j = Len(sent) + 1 \/ j \in DOMAIN sent
  BY <1>1, <1>5
<1>12. SentKept'
  <2>1. ASSUME NEW j \in DOMAIN sent'
        PROVE  /\ sent'[j].conn <= made /\ operation[sent'[j].op].kind # "none"
               /\ sent'[j].op \in Unended => sent'[j].op = r
    <3>1. CASE j = Len(sent) + 1
      BY <1>2, <1>3, <1>5, <1>7, <3>1
    <3>2. CASE j \in DOMAIN sent
      BY <1>1, <1>5, <3>2 DEF ReconnectInv, SentKept, r
    <3> QED BY <1>11, <3>1, <3>2
  <2>2. MaySend' /\ at' \notin {"replaced", "rebooting"}
    BY DEF MaySend
  <2>3. at' # "resent" => \A i, j \in DOMAIN sent' : sent'[i].op = r /\ sent'[j].op = r => i = j
    <3> SUFFICES ASSUME at' # "resent", NEW i \in DOMAIN sent', NEW j \in DOMAIN sent',
                        sent'[i].op = r, sent'[j].op = r
                 PROVE  i = j
      OBVIOUS
    <3>1. at = "ready"
      OBVIOUS
    <3>2. i = Len(sent) + 1 /\ j = Len(sent) + 1
      BY <1>1, <1>5, <1>8, <1>11, <3>1
    <3> QED BY <3>2
  <2> QED BY <1>6, <2>1, <2>2, <2>3 DEF SentKept
<1>13. RetriesMapped'
  <2> SUFFICES ASSUME NEW i \in DOMAIN sent', NEW j \in DOMAIN sent', i < j,
                      sent'[i].op = sent'[j].op
               PROVE  /\ sent'[i].conn < sent'[j].conn
                      /\ \A k \in DOMAIN sent' : sent'[k].op = sent'[i].op => k \in {i, j}
                      /\ sent'[j].mapped => sent'[j].cap.conn = sent'[j].conn
    BY DEF RetriesMapped
  <2>1. i \in DOMAIN sent /\ sent'[i] = sent[i]
    BY <1>1, <1>5
  <2>2. CASE j \in DOMAIN sent
    <3>1. sent'[j] = sent[j]
      BY <1>1, <1>5, <2>2
    <3>2. sent[i].op # r
      BY <1>9, <2>1, <2>2, <3>1, SMTT(30)
    <3>3. \A k \in DOMAIN sent' : sent'[k].op = sent'[i].op => k \in DOMAIN sent /\ sent'[k] = sent[k]
      BY <1>1, <1>3, <1>5, <1>11, <2>1, <3>2
    <3> QED BY <2>1, <2>2, <3>1, <3>3 DEF ReconnectInv, RetriesMapped
  <2>3. CASE j = Len(sent) + 1
    <3>1. sent'[j] = e /\ sent[i].op = r /\ at # "ready" /\ sent[i].conn < made
      BY <1>3, <1>5, <1>8, <2>1, <2>3
    <3>2. \A k \in DOMAIN sent' : sent'[k].op = r => k \in {i, j}
      BY <1>1, <1>5, <1>9, <1>11, <2>1, <2>3, <3>1
    <3>3. sent'[i].conn < sent'[j].conn
      BY <1>2, <1>3, <2>1, <3>1
    <3>4. sent'[j].mapped => sent'[j].cap.conn = sent'[j].conn
      BY <1>3, <3>1
    <3> QED BY <2>1, <3>1, <3>2, <3>3, <3>4
  <2> QED BY <1>11, <2>2, <2>3
<1> QED BY <1>10, <1>12, <1>13

(***************************************************************************)
(* The running operation moves on.                                         *)
(***************************************************************************)
LEMMA OperationGoesOn ==
    ASSUME ReconnectInv, lane # <<>>, UNCHANGED <<operation, lane, sent>>,
           at # "resent", at' \in Stages \ {"resent"}, previous' \in Caps \cup {NoCap},
           made' \in Nat, made <= made', MaySend => MaySend',
           at' \in {"replaced", "rebooting"} => made < made' \/ at \in {"replaced", "rebooting"}
    PROVE  LaneTyped' /\ LaneKept' /\ SentTyped' /\ SentKept' /\ RetriesMapped'
<1>1. LaneTyped' /\ SentTyped'
  BY ReconnectTypes DEF ReconnectInv, LaneTyped, SentTyped
<1>2. Unended' = Unended /\ Running' = Running
  BY DEF Unended, Running
<1>3. LaneKept'
  BY <1>2 DEF ReconnectInv, LaneKept
<1>4. \A j \in DOMAIN sent : sent[j].op \in Operations /\ sent[j].conn \in Nat
  BY ReconnectTypes, SentEach DEF ReconnectInv
<1>5. made \in Nat /\ Running \in Unended
  BY ReconnectTypes, RunningKnown DEF ReconnectInv, RestTyped
<1>6. ASSUME NEW j \in DOMAIN sent
      PROVE  /\ sent[j].conn <= made' /\ operation[sent[j].op].kind # "none"
             /\ sent[j].op \in Unended =>
                    /\ MaySend' /\ sent[j].op = Running
                    /\ at' \in {"replaced", "rebooting"} => sent[j].conn < made'
  BY <1>4, <1>5 DEF ReconnectInv, SentKept
<1>7. at' # "gate" => \A i, j \in DOMAIN sent : sent[i].op = Running /\ sent[j].op = Running => i = j
  <2>1. CASE at = "gate"
    <3>1. \A j \in DOMAIN sent : sent[j].op # Running
      BY <1>5, <2>1 DEF ReconnectInv, SentKept, MaySend
    <3> QED BY <3>1
  <2>2. CASE at # "gate"
    BY <2>2 DEF ReconnectInv, SentKept
  <2> QED BY <2>1, <2>2
<1>8. SentKept'
  BY <1>2, <1>6, <1>7 DEF SentKept
<1>9. RetriesMapped'
  BY DEF ReconnectInv, RetriesMapped
<1> QED BY <1>1, <1>3, <1>8, <1>9

\* connectWithReconnect begins, or ends at once because its signal was given.
LEMMA ConnectsFrom ==
    ASSUME ReconnectInv, lane # <<>>, Connects, current = 0, ~shut,
           at = "gate" \/ at = "replacing",
           UNCHANGED <<choice, aborted, connVars, sent>>
    PROVE  ReconnectInv'
<1>1. UNCHANGED <<current, made, asked, bootCap, shut>>
  BY DEF connVars
<1>2. attempt' = 0 /\ MaxAttempts \in Nat
  BY ReconnectAssumption DEF Connects
<1>3. RestTyped'
  BY <1>1, <1>2, ReconnectTypes DEF ReconnectInv, RestTyped
<1>4. CASE aborted
  <2>1. LaneTyped' /\ LaneKept' /\ SentTyped' /\ SentKept' /\ RetriesMapped'
        /\ CountsTyped' /\ CountersKept' /\ at' = "gate"
    BY <1>1, <1>4, OperationThrows DEF Connects
  <2>2. ConnectionKept'
    BY <1>1, <2>1 DEF ReconnectInv, ConnectionKept
  <2> QED BY <1>3, <2>1, <2>2, ReconnectTypes DEF ReconnectInv
<1>5. CASE ~aborted
  <2>1. at' = "connecting" /\ UNCHANGED <<operation, lane, previous, reconnects, retries>>
    BY <1>5 DEF Connects, Goes
  <2>2. CountsTyped'
    BY <2>1, ReconnectTypes DEF ReconnectInv, CountsTyped
  <2>3. Kind' = Kind
    BY <2>1 DEF Kind, Running
  <2>4. at = "gate" => ~InProgress(reconnects) /\ ~InProgress(retries)
    BY DEF ReconnectInv, CountersKept, Retrying
  <2>5. at = "replacing" => InProgress(reconnects)
    BY DEF ReconnectInv, CountersKept
  <2>6. Retrying' <=> Retrying
    BY <2>1, <2>3, <2>4, <2>5 DEF Retrying
  <2>7. CountersKept'
    BY <2>1, <2>3, <2>4, <2>6 DEF ReconnectInv, CountersKept
  <2>8. ConnectionKept'
    BY <1>1, <2>1 DEF ReconnectInv, ConnectionKept
  <2>9. MaySend => MaySend'
    BY <2>1, <2>5 DEF MaySend
  <2>10. previous \in Caps \cup {NoCap} /\ made \in Nat
    BY ReconnectTypes DEF ReconnectInv, LaneTyped, RestTyped
  <2>11. LaneTyped' /\ LaneKept' /\ SentTyped' /\ SentKept' /\ RetriesMapped'
    BY <1>1, <2>1, <2>9, <2>10, OperationGoesOn DEF Stages
  <2> QED BY <1>3, <2>2, <2>7, <2>8, <2>11, ReconnectTypes DEF ReconnectInv
<1> QED BY <1>4, <1>5

LEMMA BeginKeeps == ASSUME ReconnectInv, Begin PROVE ReconnectInv'
<1>1. /\ lane # <<>> /\ at = "gate" /\ UNCHANGED <<choice, aborted, sent>>
      /\ UNCHANGED <<current, made, asked, bootCap, shut>> /\ UNCHANGED connVars
  BY DEF Begin, connVars
<1>2. CASE ~shut /\ current = 0
  BY <1>1, <1>2, ConnectsFrom DEF Begin
<1>3. ASSUME ~(~shut /\ current = 0), UNCHANGED <<attempt, reconnects, retries>>
      PROVE  RestTyped' /\ CountsTyped'
  BY <1>1, <1>3, ReconnectTypes DEF ReconnectInv, RestTyped, CountsTyped
<1>4. CASE shut
  <2>1. Ends("failed") /\ UNCHANGED <<attempt, reconnects, retries>>
    BY <1>4 DEF Begin
  <2>2. LaneTyped' /\ LaneKept' /\ SentTyped' /\ SentKept' /\ RetriesMapped' /\ at' = "gate"
    BY <1>1, <2>1, OperationEndsAs
  <2>3. ConnectionKept'
    BY <1>1, <2>2 DEF ReconnectInv, ConnectionKept
  <2>4. CountersKept'
    BY <1>1, <2>1, <2>2 DEF ReconnectInv, CountersKept, Retrying
  <2> QED BY <1>3, <1>4, <2>1, <2>2, <2>3, <2>4, ReconnectTypes DEF ReconnectInv
<1>5. CASE ~shut /\ current # 0
  <2>1. at' = "ready" /\ UNCHANGED <<operation, lane, previous, attempt, reconnects, retries>>
    BY <1>5 DEF Begin, Goes
  <2>2. ConnectionKept'
    BY <1>1, <1>5, <2>1 DEF ReconnectInv, ConnectionKept
  <2>3. CountersKept'
    BY <1>1, <2>1 DEF ReconnectInv, CountersKept, Retrying
  <2>4. previous \in Caps \cup {NoCap} /\ made \in Nat /\ ~MaySend
    BY <1>1, ReconnectTypes DEF ReconnectInv, LaneTyped, RestTyped, MaySend
  <2>5. LaneTyped' /\ LaneKept' /\ SentTyped' /\ SentKept' /\ RetriesMapped'
    BY <1>1, <2>1, <2>4, OperationGoesOn DEF Stages
  <2> QED BY <1>3, <1>5, <2>1, <2>2, <2>3, <2>5, ReconnectTypes DEF ReconnectInv
<1> QED BY <1>2, <1>4, <1>5

LEMMA ThrowKeeps ==
    ASSUME ReconnectInv, lane # <<>>, Throws, RestTyped',
           UNCHANGED <<current, made, asked, shut, sent>>
    PROVE  ReconnectInv'
<1>1. /\ LaneTyped' /\ LaneKept' /\ SentTyped' /\ SentKept' /\ RetriesMapped'
      /\ CountsTyped' /\ CountersKept' /\ at' = "gate"
  BY OperationThrows
<1>2. ConnectionKept'
  BY <1>1 DEF ReconnectInv, ConnectionKept
<1> QED BY <1>1, <1>2, ReconnectTypes DEF ReconnectInv

LEMMA EndKeeps ==
    ASSUME ReconnectInv, lane # <<>>, NEW result \in {"done", "failed"}, Ends(result),
           result = "failed" \/ Kind # "bootstrap", ~InProgress(reconnects), ~Retrying,
           RestTyped', UNCHANGED <<current, made, asked, sent, reconnects, retries>>
    PROVE  ReconnectInv'
<1>1. LaneTyped' /\ LaneKept' /\ SentTyped' /\ SentKept' /\ RetriesMapped' /\ at' = "gate"
  BY OperationEndsAs
<1>2. ConnectionKept'
  BY <1>1 DEF ReconnectInv, ConnectionKept
<1>3. CountersKept' /\ CountsTyped'
  BY <1>1, ReconnectTypes DEF ReconnectInv, CountersKept, Retrying, CountsTyped
<1> QED BY <1>1, <1>2, <1>3, ReconnectTypes DEF ReconnectInv

LEMMA GivenHere ==
    ASSUME ReconnectInv, current # 0, NEW i \in CapIndexes
    PROVE  /\ [conn |-> current, index |-> i] \in Caps
           /\ [conn |-> current, index |-> i].conn = current
<1>1. current \in 0 .. made /\ made \in 0 .. MaxConnects /\ MaxConnects \in Nat
  BY ReconnectTypes, ReconnectAssumption DEF ReconnectInv, RestTyped
<1>2. current \in 1 .. MaxConnects
  BY <1>1
<1> QED BY <1>2 DEF Caps

LEMMA ResendKeeps ==
    ASSUME ReconnectInv, at \in {"replaced", "rebooting"}, NEW cap \in Caps, Resend(cap),
           Kind = "call", previous # NoCap => cap.conn = current,
           RestTyped', UNCHANGED <<current, made, asked, shut>>
    PROVE  ReconnectInv'
<1>1. lane # <<>> /\ current # 0 /\ ~shut
  BY DEF ReconnectInv, LaneKept, ConnectionKept
<1>2. Sends(cap) /\ at' = "resent" /\ UNCHANGED <<operation, lane, previous, reconnects, retries>>
  BY DEF Resend, Goes
<1>3. SentTyped' /\ SentKept' /\ RetriesMapped'
  BY <1>1, <1>2, SentOnce
<1>4. LaneTyped' /\ LaneKept'
  BY <1>2, ReconnectTypes DEF ReconnectInv, LaneTyped, LaneKept, Unended, Stages
<1>5. ConnectionKept'
  BY <1>1, <1>2 DEF ReconnectInv, ConnectionKept
<1>6. CountersKept' /\ CountsTyped'
  <2>1. Kind' = Kind
    BY <1>2 DEF Kind, Running
  <2>2. Retrying' /\ Retrying
    BY <1>2, <2>1 DEF Retrying
  <2> QED BY <1>2, <2>1, <2>2, ReconnectTypes DEF ReconnectInv, CountersKept, CountsTyped
<1> QED BY <1>3, <1>4, <1>5, <1>6, ReconnectTypes DEF ReconnectInv

LEMMA RemapKeeps ==
    ASSUME ReconnectInv, at \in {"replaced", "rebooting"}, Remap, Kind = "call",
           RestTyped', UNCHANGED <<current, made, asked, shut>>
    PROVE  ReconnectInv'
<1>1. lane # <<>> /\ current # 0
  BY DEF ReconnectInv, LaneKept, ConnectionKept
<1>2. CASE choice.remap = "gives"
  <2>1. PICK i \in CapIndexes : Resend([conn |-> current, index |-> i])
    BY <1>2 DEF Remap
  <2> DEFINE cap == [conn |-> current, index |-> i]
  <2>2. cap \in Caps /\ cap.conn = current /\ Resend(cap)
    BY <1>1, <2>1, GivenHere
  <2> HIDE DEF cap
  <2> QED BY <2>2, ResendKeeps
<1>3. CASE choice.remap # "gives"
  BY <1>1, <1>3, ThrowKeeps DEF Remap, MapFails
<1> QED BY <1>2, <1>3

LEMMA RebootedKeeps == ASSUME ReconnectInv, Rebooted PROVE ReconnectInv'
<1>1. /\ at = "rebooting" /\ UNCHANGED <<current, made, asked, shut>>
      /\ UNCHANGED <<choice, attempt, aborted>>
  BY DEF Rebooted
<1>2. lane # <<>> /\ current # 0 /\ Kind = "call"
  BY <1>1 DEF ReconnectInv, LaneKept, ConnectionKept, CountersKept
<1>3. bootCap' \in Caps /\ bootCap'.conn = current
  BY <1>2, GivenHere DEF Rebooted
<1>4. RestTyped'
  BY <1>1, <1>3, ReconnectTypes DEF ReconnectInv, RestTyped
<1>5. CASE IsBootstrap
  BY <1>1, <1>2, <1>3, <1>4, <1>5, ResendKeeps DEF Rebooted
<1>6. CASE ~IsBootstrap
  BY <1>1, <1>2, <1>4, <1>6, RemapKeeps DEF Rebooted
<1> QED BY <1>5, <1>6

LEMMA MapKeeps == ASSUME ReconnectInv, Map PROVE ReconnectInv'
<1>1. /\ at = "replaced" /\ UNCHANGED <<choice, attempt, aborted>>
      /\ UNCHANGED <<current, made, asked, bootCap, shut>>
  BY DEF Map, connVars
<1>2. lane # <<>> /\ current # 0
  BY <1>1 DEF ReconnectInv, LaneKept, ConnectionKept
<1>3. RestTyped'
  BY <1>1, ReconnectTypes DEF ReconnectInv, RestTyped
<1>4. CASE Kind # "call"
  <2>1. ~InProgress(reconnects) /\ ~Retrying
    BY <1>1, <1>4 DEF ReconnectInv, CountersKept, Retrying
  <2> QED BY <1>1, <1>2, <1>3, <1>4, <2>1, EndKeeps DEF Map
<1>5. CASE Kind = "call" /\ previous = NoCap
  <2>1. Cap \in Caps
    BY <1>2, <1>5, RunningKnown, ReconnectTypes DEF ReconnectInv, LaneKept, Kind, Cap
  <2> QED BY <1>1, <1>3, <1>5, <2>1, ResendKeeps DEF Map
<1>6. CASE Kind = "call" /\ previous # NoCap /\ choice.rebootstrap
  <2>1. at' = "rebooting" /\ UNCHANGED <<operation, lane, previous, sent, reconnects, retries>>
    BY <1>6 DEF Map, Goes
  <2>2. Kind' = Kind
    BY <2>1 DEF Kind, Running
  <2>3. Retrying' /\ Retrying
    BY <1>1, <1>6, <2>1, <2>2 DEF Retrying
  <2>4. CountersKept' /\ CountsTyped'
    BY <1>1, <1>6, <2>1, <2>2, <2>3, ReconnectTypes DEF ReconnectInv, CountersKept, CountsTyped
  <2>5. ConnectionKept'
    BY <1>1, <1>2, <2>1 DEF ReconnectInv, ConnectionKept
  <2>6. previous \in Caps \cup {NoCap} /\ made \in Nat /\ MaySend'
    BY <1>1, <2>1, ReconnectTypes DEF ReconnectInv, LaneTyped, RestTyped, MaySend
  <2>7. LaneTyped' /\ LaneKept' /\ SentTyped' /\ SentKept' /\ RetriesMapped'
    BY <1>1, <1>2, <2>1, <2>6, OperationGoesOn DEF Stages
  <2> QED BY <1>3, <2>4, <2>5, <2>7, ReconnectTypes DEF ReconnectInv
<1>7. CASE Kind = "call" /\ previous # NoCap /\ ~choice.rebootstrap /\ IsBootstrap
  BY <1>1, <1>2, <1>3, <1>7, ThrowKeeps DEF Map, MapFails
<1>8. CASE Kind = "call" /\ previous # NoCap /\ ~choice.rebootstrap /\ ~IsBootstrap
  BY <1>1, <1>2, <1>3, <1>8, RemapKeeps DEF Map
<1> QED BY <1>4, <1>5, <1>6, <1>7, <1>8

LEMMA ConnectedKeeps == ASSUME ReconnectInv, Connected PROVE ReconnectInv'
<1>1. /\ at = "connecting" /\ made < MaxConnects /\ made' = made + 1 /\ current' = made + 1
      /\ UNCHANGED <<operation, lane, previous, choice, attempt, aborted, asked, bootCap,
                     shut, sent, retries>>
  BY DEF Connected, Goes
<1>2. lane # <<>> /\ current = 0 /\ ~shut
  BY <1>1 DEF ReconnectInv, LaneKept, ConnectionKept
<1>3. made \in Nat /\ made + 1 \in 1 .. MaxConnects /\ asked = 1 .. made
      /\ previous \in Caps \cup {NoCap}
  <2>1. made \in 0 .. MaxConnects /\ MaxConnects \in Nat /\ previous \in Caps \cup {NoCap}
    BY ReconnectTypes, ReconnectAssumption DEF ReconnectInv, RestTyped, LaneTyped
  <2>2. asked = 1 .. made
    BY <1>2 DEF ReconnectInv, ConnectionKept
  <2> QED BY <1>1, <2>1, <2>2
<1>4. RestTyped'
  BY <1>1, <1>3, ReconnectTypes DEF ReconnectInv, RestTyped
<1>5. \/ InProgress(reconnects) /\ at' = "replaced" /\ reconnects' = Add(reconnects, "successes")
      \/ ~InProgress(reconnects) /\ at' = "ready" /\ reconnects' = reconnects
  BY DEF Connected, Goes
<1>6. ConnectionKept'
  <2>1. 1 .. made' = asked' \cup ({current'} \ {0}) /\ current' \notin asked' /\ current' # 0
    BY <1>1, <1>3
  <2> QED BY <1>1, <1>2, <1>5, <2>1 DEF ConnectionKept
<1>7. /\ reconnects' \in CountRecords /\ Balanced(reconnects') /\ ~InProgress(reconnects')
  BY <1>5, CountEnds, ReconnectTypes DEF ReconnectInv, CountsTyped, CountersKept
<1>8. Kind' = Kind
  BY <1>1 DEF Kind, Running
<1>9. CountersKept' /\ CountsTyped'
  <2>1. Retrying' <=> Retrying
    BY <1>1, <1>5, <1>7, <1>8 DEF Retrying
  <2> QED BY <1>1, <1>5, <1>7, <1>8, <2>1, ReconnectTypes
          DEF ReconnectInv, CountersKept, CountsTyped
<1>10. MaySend => MaySend'
  BY <1>1, <1>5 DEF MaySend
<1>11. made' \in Nat /\ made < made'
  BY <1>1, <1>3
<1>12. LaneTyped' /\ LaneKept' /\ SentTyped' /\ SentKept' /\ RetriesMapped'
  BY <1>1, <1>2, <1>3, <1>5, <1>10, <1>11, OperationGoesOn DEF Stages
<1> QED BY <1>4, <1>6, <1>9, <1>12, ReconnectTypes DEF ReconnectInv

\* Between the attempts of connectWithReconnect.
LEMMA StillConnecting ==
    ASSUME ReconnectInv, at \in {"connecting", "waiting"}, at' \in {"connecting", "waiting"},
           UNCHANGED <<operation, lane, previous, reconnects, retries, sent>>,
           UNCHANGED <<current, made, asked, shut>>, RestTyped'
    PROVE  ReconnectInv'
<1>1. lane # <<>> /\ made \in Nat /\ previous \in Caps \cup {NoCap}
  BY ReconnectTypes DEF ReconnectInv, LaneKept, RestTyped, LaneTyped
<1>2. Kind' = Kind
  BY DEF Kind, Running
<1>3. CountersKept' /\ CountsTyped'
  BY <1>2, ReconnectTypes DEF ReconnectInv, CountersKept, CountsTyped, Retrying
<1>4. ConnectionKept'
  BY DEF ReconnectInv, ConnectionKept
<1>5. MaySend => MaySend'
  BY DEF MaySend
<1>6. LaneTyped' /\ LaneKept' /\ SentTyped' /\ SentKept' /\ RetriesMapped'
  BY <1>1, <1>5, OperationGoesOn DEF Stages
<1> QED BY <1>3, <1>4, <1>6, ReconnectTypes DEF ReconnectInv

LEMMA ConnectFailsKeeps == ASSUME ReconnectInv, ConnectFails PROVE ReconnectInv'
<1>1. /\ at \in {"connecting", "waiting"} /\ UNCHANGED <<choice, aborted, sent>>
      /\ UNCHANGED <<current, made, asked, bootCap, shut>>
  BY DEF ConnectFails, connVars
<1>2. lane # <<>>
  BY <1>1 DEF ReconnectInv, LaneKept
<1>3. attempt \in 0 .. MaxAttempts /\ MaxAttempts \in Nat
  BY ReconnectTypes, ReconnectAssumption DEF ReconnectInv, RestTyped
<1>4. CASE ~aborted /\ attempt < MaxAttempts
  <2>1. at' = "waiting" /\ attempt' = attempt + 1
        /\ UNCHANGED <<operation, lane, previous, reconnects, retries>>
    BY <1>4 DEF ConnectFails, Goes
  <2>2. attempt' \in 0 .. MaxAttempts
    BY <1>3, <1>4, <2>1
  <2>3. RestTyped'
    BY <1>1, <2>2, ReconnectTypes DEF ReconnectInv, RestTyped
  <2> QED BY <1>1, <2>1, <2>3, StillConnecting
<1>5. CASE ~(~aborted /\ attempt < MaxAttempts)
  <2>1. Throws /\ UNCHANGED attempt
    BY <1>5 DEF ConnectFails
  <2>2. RestTyped'
    BY <1>1, <2>1, ReconnectTypes DEF ReconnectInv, RestTyped
  <2> QED BY <1>1, <1>2, <2>1, <2>2, ThrowKeeps
<1> QED BY <1>4, <1>5

LEMMA WaitEndsKeeps == ASSUME ReconnectInv, WaitEnds PROVE ReconnectInv'
<1>1. /\ at = "waiting" /\ at' = "connecting" /\ UNCHANGED <<choice, attempt, aborted>>
      /\ UNCHANGED <<operation, lane, previous, reconnects, retries, sent>>
      /\ UNCHANGED <<current, made, asked, bootCap, shut>>
  BY DEF WaitEnds, Goes, connVars
<1>2. RestTyped'
  BY <1>1, ReconnectTypes DEF ReconnectInv, RestTyped
<1> QED BY <1>1, <1>2, StillConnecting

LEMMA AbortKeeps == ASSUME ReconnectInv, AbortConnects PROVE ReconnectInv'
<1>1. /\ aborted' = TRUE /\ UNCHANGED <<choice, operation, lane, at, attempt, previous, sent>>
      /\ UNCHANGED <<reconnects, retries, current, made, asked, bootCap, shut>>
  BY DEF AbortConnects, connVars
<1>2. RestTyped' /\ LaneTyped' /\ CountsTyped' /\ SentTyped'
  BY <1>1, ReconnectTypes DEF ReconnectInv, RestTyped, LaneTyped, CountsTyped, SentTyped
<1>3. Kind' = Kind /\ Running' = Running /\ Unended' = Unended
  BY <1>1 DEF Kind, Running, Unended
<1>4. LaneKept' /\ ConnectionKept'
  BY <1>1, <1>3 DEF ReconnectInv, LaneKept, ConnectionKept
<1>5. CountersKept'
  BY <1>1, <1>3 DEF ReconnectInv, CountersKept, Retrying
<1>6. SentKept' /\ RetriesMapped'
  BY <1>1, <1>3 DEF ReconnectInv, SentKept, MaySend, RetriesMapped
<1> QED BY <1>2, <1>4, <1>5, <1>6, ReconnectTypes DEF ReconnectInv

LEMMA AskKeeps == ASSUME ReconnectInv, Ask PROVE ReconnectInv'
<1>1. /\ at = "ready" /\ at' = "answer" /\ UNCHANGED <<choice, attempt, aborted>>
      /\ UNCHANGED <<operation, lane, previous, reconnects, retries>>
      /\ UNCHANGED <<current, made, asked, bootCap, shut>>
  BY DEF Ask, Goes, connVars
<1>2. /\ lane # <<>> /\ current # 0 /\ ~shut /\ made \in Nat /\ previous \in Caps \cup {NoCap}
  BY <1>1, ReconnectTypes DEF ReconnectInv, LaneKept, ConnectionKept, RestTyped, LaneTyped
<1>3. RestTyped' /\ CountsTyped'
  BY <1>1, ReconnectTypes DEF ReconnectInv, RestTyped, CountsTyped
<1>4. ConnectionKept'
  BY <1>1, <1>2 DEF ReconnectInv, ConnectionKept
<1>5. Kind' = Kind
  BY <1>1 DEF Kind, Running
<1>6. CountersKept'
  BY <1>1, <1>5 DEF ReconnectInv, CountersKept, Retrying
<1>7. LaneTyped' /\ LaneKept' /\ SentTyped' /\ SentKept' /\ RetriesMapped'
  <2>1. CASE Kind = "call"
    <3>1. Cap \in Caps /\ Sends(Cap)
      BY <1>2, <2>1, RunningKnown, ReconnectTypes DEF ReconnectInv, LaneKept, Kind, Cap, Ask
    <3>2. SentTyped' /\ SentKept' /\ RetriesMapped'
      BY <1>1, <1>2, <3>1, SentOnce
    <3>3. LaneTyped' /\ LaneKept'
      BY <1>1, ReconnectTypes DEF ReconnectInv, LaneTyped, LaneKept, Unended, Stages
    <3> QED BY <3>2, <3>3
  <2>2. CASE Kind # "call"
    <3>1. UNCHANGED sent /\ MaySend'
      BY <1>1, <2>2 DEF Ask, MaySend
    <3> QED BY <1>1, <1>2, <3>1, OperationGoesOn DEF Stages
  <2> QED BY <2>1, <2>2
<1> QED BY <1>3, <1>4, <1>6, <1>7, ReconnectTypes DEF ReconnectInv

LEMMA AnsweredKeeps == ASSUME ReconnectInv, Answered PROVE ReconnectInv'
<1>1. /\ at = "answer" /\ UNCHANGED <<choice, attempt, aborted, sent, reconnects, retries>>
      /\ UNCHANGED <<current, made, asked, shut>>
  BY DEF Answered
<1>2. lane # <<>> /\ current # 0 /\ ~InProgress(reconnects) /\ ~Retrying
  BY <1>1 DEF ReconnectInv, LaneKept, ConnectionKept, CountersKept, Retrying
<1>3. CASE Kind = "bootstrap"
  <2>1. bootCap' \in Caps /\ EndsWith("done", bootCap')
    BY <1>2, <1>3, GivenHere DEF Answered
  <2>2. LaneTyped' /\ LaneKept' /\ SentTyped' /\ SentKept' /\ RetriesMapped' /\ at' = "gate"
    BY <1>1, <1>2, <1>3, <2>1, OperationEnds
  <2>3. RestTyped' /\ CountsTyped'
    BY <1>1, <2>1, ReconnectTypes DEF ReconnectInv, RestTyped, CountsTyped
  <2>4. ConnectionKept'
    BY <1>1, <2>2 DEF ReconnectInv, ConnectionKept
  <2>5. CountersKept'
    BY <1>1, <1>2, <2>2 DEF ReconnectInv, CountersKept, Retrying
  <2> QED BY <2>2, <2>3, <2>4, <2>5, ReconnectTypes DEF ReconnectInv
<1>4. CASE Kind # "bootstrap"
  <2>1. Ends("done") /\ UNCHANGED bootCap
    BY <1>4 DEF Answered
  <2>2. RestTyped'
    BY <1>1, <2>1, ReconnectTypes DEF ReconnectInv, RestTyped
  <2> QED BY <1>1, <1>2, <1>4, <2>1, <2>2, EndKeeps
<1> QED BY <1>3, <1>4

\* The first step of #reconnect() while an operation runs.
LEMMA ReplacingKeeps ==
    ASSUME ReconnectInv, at = "answer", at' = "replacing", DropConnection,
           previous' = IF Kind = "call" THEN bootCap ELSE NoCap,
           retries' = IF Kind = "call" THEN Add(retries, "attempts") ELSE retries,
           reconnects' = Add(reconnects, "attempts"),
           UNCHANGED <<choice, attempt, aborted, operation, lane, made, shut, sent>>
    PROVE  ReconnectInv'
<1>1. /\ lane # <<>> /\ current # 0 /\ ~InProgress(reconnects) /\ ~Retrying /\ ~shut
      /\ ~InProgress(retries)
  BY DEF ReconnectInv, LaneKept, ConnectionKept, CountersKept, Retrying
<1>2. /\ made \in Nat /\ bootCap \in Caps \cup {NoCap} /\ asked \subseteq 1 .. MaxConnects
      /\ current \in 1 .. MaxConnects
  <2>1. /\ made \in 0 .. MaxConnects /\ bootCap \in Caps \cup {NoCap}
        /\ asked \subseteq 1 .. MaxConnects /\ current \in 0 .. made /\ MaxConnects \in Nat
    BY ReconnectTypes, ReconnectAssumption DEF ReconnectInv, RestTyped
  <2> QED BY <1>1, <2>1
<1>3. current' = 0 /\ bootCap' = NoCap /\ asked' = asked \cup {current}
  BY DEF DropConnection
<1>4. RestTyped'
  <2>1. current' \in 0 .. made'
    BY <1>2, <1>3
  <2> QED BY <1>2, <1>3, <2>1, ReconnectTypes DEF ReconnectInv, RestTyped
<1>5. ConnectionKept'
  <2>1. 1 .. made = asked \cup {current} /\ 0 \notin 1 .. MaxConnects
    BY <1>1 DEF ReconnectInv, ConnectionKept
  <2>2. 1 .. made' = asked' \cup ({current'} \ {0}) /\ current' \notin asked'
    BY <1>2, <1>3, <2>1
  <2> QED BY <1>1, <1>3, <2>2 DEF ConnectionKept
<1>6. Kind' = Kind
  BY DEF Kind, Running
<1>7. /\ reconnects \in CountRecords /\ retries \in CountRecords
      /\ Balanced(reconnects) /\ Balanced(retries)
  BY ReconnectTypes DEF ReconnectInv, CountersKept, CountsTyped
<1>8. reconnects' \in CountRecords /\ Balanced(reconnects') /\ InProgress(reconnects')
  BY <1>1, <1>7, CountBegins
<1>9. /\ retries' \in CountRecords /\ Balanced(retries')
      /\ InProgress(retries') <=> Kind = "call"
  <2>1. CASE Kind = "call"
    BY <1>1, <1>7, <2>1, CountBegins
  <2>2. CASE Kind # "call"
    BY <1>1, <1>7, <2>2
  <2> QED BY <2>1, <2>2
<1>10. CountersKept' /\ CountsTyped'
  <2>1. Retrying' <=> Kind = "call"
    BY <1>6, <1>8 DEF Retrying
  <2> QED BY <1>8, <1>9, <2>1 DEF CountersKept, CountsTyped
<1>11. MaySend' /\ previous' \in Caps \cup {NoCap}
  BY <1>2 DEF MaySend
<1>12. LaneTyped' /\ LaneKept' /\ SentTyped' /\ SentKept' /\ RetriesMapped'
  BY <1>1, <1>2, <1>11, OperationGoesOn DEF Stages
<1> QED BY <1>4, <1>5, <1>10, <1>12, ReconnectTypes DEF ReconnectInv

LEMMA AnswerFailsKeeps ==
    ASSUME ReconnectInv, NEW reconnectable \in BOOLEAN, AnswerFails(reconnectable)
    PROVE  ReconnectInv'
<1> DEFINE stays == ~reconnectable \/ Kind = "bootstrap" \/ (Kind = "call" /\ ~choice.retry)
<1>1. at = "answer" /\ UNCHANGED <<choice, attempt, aborted, made, shut, sent>>
  BY DEF AnswerFails
<1>2. lane # <<>> /\ ~InProgress(reconnects) /\ ~Retrying
  BY <1>1 DEF ReconnectInv, LaneKept, CountersKept, Retrying
<1>3. CASE stays
  <2>1. Ends("failed") /\ UNCHANGED <<current, asked, bootCap, reconnects, retries>>
    BY <1>3 DEF AnswerFails
  <2>2. RestTyped'
    BY <1>1, <2>1, ReconnectTypes DEF ReconnectInv, RestTyped
  <2> QED BY <1>1, <1>2, <2>1, <2>2, EndKeeps
<1>4. CASE ~stays
  <2>1. /\ at' = "replacing" /\ DropConnection /\ UNCHANGED <<operation, lane>>
        /\ previous' = IF Kind = "call" THEN bootCap ELSE NoCap
        /\ retries' = IF Kind = "call" THEN Add(retries, "attempts") ELSE retries
        /\ reconnects' = Add(reconnects, "attempts")
    BY <1>4 DEF AnswerFails
  <2> QED BY <1>1, <2>1, ReplacingKeeps
<1> QED BY <1>3, <1>4

LEMMA OldClosesKeeps == ASSUME ReconnectInv, OldCloses PROVE ReconnectInv'
<1>1. /\ at = "replacing" /\ UNCHANGED <<choice, aborted, sent>> /\ UNCHANGED connVars
      /\ UNCHANGED <<current, made, asked, bootCap, shut>>
  BY DEF OldCloses, connVars
<1>2. lane # <<>> /\ current = 0 /\ ~shut
  BY <1>1 DEF ReconnectInv, LaneKept, ConnectionKept
<1>3. CASE Connects
  BY <1>1, <1>2, <1>3, ConnectsFrom
<1>4. CASE Throws /\ UNCHANGED attempt
  <2>1. RestTyped'
    BY <1>1, <1>4, ReconnectTypes DEF ReconnectInv, RestTyped
  <2> QED BY <1>1, <1>2, <1>4, <2>1, ThrowKeeps
<1> QED BY <1>3, <1>4 DEF OldCloses

LEMMA LateFailureKeeps ==
    ASSUME ReconnectInv, at # "gate", Throws, UNCHANGED <<choice, attempt, aborted, sent>>,
           UNCHANGED connVars
    PROVE  ReconnectInv'
<1>1. UNCHANGED <<current, made, asked, bootCap, shut>>
  BY DEF connVars
<1>2. RestTyped' /\ lane # <<>>
  BY <1>1, ReconnectTypes DEF ReconnectInv, RestTyped, LaneKept
<1> QED BY <1>1, <1>2, ThrowKeeps

LEMMA ResentEndsKeeps == ASSUME ReconnectInv, ResentEnds PROVE ReconnectInv'
<1>1. /\ at = "resent" /\ UNCHANGED <<choice, attempt, aborted, sent>> /\ UNCHANGED connVars
      /\ UNCHANGED <<current, made, asked, bootCap, shut>>
  BY DEF ResentEnds, connVars
<1>2. CASE Throws
  BY <1>1, <1>2, LateFailureKeeps
<1>3. CASE Ends("done") /\ retries' = Add(retries, "successes") /\ UNCHANGED reconnects
  <2>1. /\ Kind = "call" /\ lane # <<>> /\ InProgress(retries) /\ ~InProgress(reconnects)
        /\ Balanced(retries) /\ Balanced(reconnects)
    BY <1>1 DEF ReconnectInv, LaneKept, CountersKept, Retrying
  <2>2. LaneTyped' /\ LaneKept' /\ SentTyped' /\ SentKept' /\ RetriesMapped' /\ at' = "gate"
    BY <1>1, <1>3, <2>1, OperationEndsAs
  <2>3. retries \in CountRecords /\ reconnects \in CountRecords
    BY ReconnectTypes DEF ReconnectInv, CountsTyped
  <2>4. retries' \in CountRecords /\ Balanced(retries') /\ ~InProgress(retries')
    BY <1>3, <2>1, <2>3, CountEnds
  <2>5. CountersKept' /\ CountsTyped'
    BY <1>3, <2>1, <2>2, <2>3, <2>4 DEF CountersKept, Retrying, CountsTyped
  <2>6. ConnectionKept' /\ RestTyped'
    BY <1>1, <2>2, ReconnectTypes DEF ReconnectInv, ConnectionKept, RestTyped
  <2> QED BY <2>2, <2>5, <2>6, ReconnectTypes DEF ReconnectInv
<1> QED BY <1>2, <1>3 DEF ResentEnds

LEMMA CloseClientKeeps == ASSUME ReconnectInv, CloseClient PROVE ReconnectInv'
<1>1. /\ lane # <<>> /\ at = "gate" /\ Kind = "close" /\ shut' = TRUE
      /\ UNCHANGED <<choice, attempt, aborted, made, sent, reconnects, retries>>
  BY DEF CloseClient
<1>2. ~InProgress(reconnects) /\ ~Retrying /\ ~InProgress(retries) /\ ~MaySend
  BY <1>1 DEF ReconnectInv, CountersKept, Retrying, MaySend
<1>3. CASE current = 0
  <2>1. Ends("done") /\ UNCHANGED <<current, asked, bootCap>>
    BY <1>3 DEF CloseClient
  <2>2. RestTyped'
    BY <1>1, <2>1, ReconnectTypes DEF ReconnectInv, RestTyped
  <2> QED BY <1>1, <1>2, <2>1, <2>2, EndKeeps
<1>4. CASE current # 0
  <2>1. /\ at' = "closing" /\ UNCHANGED <<operation, lane, previous>>
        /\ current' = 0 /\ bootCap' = NoCap /\ asked' = asked \cup {current}
    BY <1>4 DEF CloseClient, Goes, DropConnection
  <2>2. /\ made \in Nat /\ asked \subseteq 1 .. MaxConnects /\ current \in 1 .. MaxConnects
        /\ previous \in Caps \cup {NoCap}
    <3>1. /\ made \in 0 .. MaxConnects /\ asked \subseteq 1 .. MaxConnects
          /\ current \in 0 .. made /\ MaxConnects \in Nat /\ previous \in Caps \cup {NoCap}
      BY ReconnectTypes, ReconnectAssumption DEF ReconnectInv, RestTyped, LaneTyped
    <3> QED BY <1>4, <3>1
  <2>3. RestTyped'
    <3>1. current' \in 0 .. made'
      BY <1>1, <2>1, <2>2
    <3> QED BY <1>1, <2>1, <2>2, <3>1, ReconnectTypes DEF ReconnectInv, RestTyped
  <2>4. ConnectionKept'
    <3>1. 1 .. made = asked \cup {current} /\ 0 \notin 1 .. MaxConnects
      BY <1>4 DEF ReconnectInv, ConnectionKept
    <3>2. 1 .. made' = asked' \cup ({current'} \ {0}) /\ current' \notin asked'
      BY <1>1, <2>1, <2>2, <3>1
    <3> QED BY <2>1, <3>2 DEF ConnectionKept
  <2>5. Kind' = Kind
    BY <2>1 DEF Kind, Running
  <2>6. CountersKept' /\ CountsTyped'
    BY <1>1, <1>2, <2>1, <2>5, ReconnectTypes
       DEF ReconnectInv, CountersKept, Retrying, CountsTyped
  <2>7. LaneTyped' /\ LaneKept' /\ SentTyped' /\ SentKept' /\ RetriesMapped'
    BY <1>1, <1>2, <2>1, <2>2, OperationGoesOn DEF Stages
  <2> QED BY <2>3, <2>4, <2>6, <2>7, ReconnectTypes DEF ReconnectInv
<1> QED BY <1>3, <1>4

LEMMA ClientClosesKeeps == ASSUME ReconnectInv, ClientCloses PROVE ReconnectInv'
<1>1. /\ at = "closing" /\ Kind = "close"
      /\ UNCHANGED <<choice, attempt, aborted, sent, reconnects, retries>>
      /\ UNCHANGED <<current, made, asked, bootCap, shut>>
  BY DEF ClientCloses, connVars
<1>2. lane # <<>> /\ ~InProgress(reconnects) /\ ~Retrying
  BY <1>1 DEF ReconnectInv, LaneKept, CountersKept, Retrying
<1>3. RestTyped'
  BY <1>1, ReconnectTypes DEF ReconnectInv, RestTyped
<1>4. CASE Ends("done")
  BY <1>1, <1>2, <1>3, <1>4, EndKeeps
<1>5. CASE Ends("failed")
  BY <1>1, <1>2, <1>3, <1>5, EndKeeps
<1> QED BY <1>4, <1>5 DEF ClientCloses

LEMMA EnqueueKeeps == ASSUME ReconnectInv, NEW o \in Operations, Enqueue(o) PROVE ReconnectInv'
<1>1. /\ operation[o].kind = "none" /\ lane' = Append(lane, o)
      /\ UNCHANGED <<choice, at, attempt, aborted, previous, sent, reconnects, retries>>
      /\ UNCHANGED <<current, made, asked, bootCap, shut>>
  BY DEF Enqueue, connVars
<1>2. /\ operation \in [Operations -> OperationRecords] /\ lane \in Seq(Operations)
      /\ Lists(Operations, lane, Unended)
  BY ReconnectTypes DEF ReconnectInv, LaneTyped, LaneKept
<1>3. Held \subseteq Caps
  BY DEF ReconnectInv, LaneKept, Held
<1>4. PICK k \in Kinds : \E c \in IF k = "call" THEN Held ELSE {NoCap} :
          operation' = [operation EXCEPT ![o] = [kind |-> k, cap |-> c, result |-> "running"]]
  BY DEF Enqueue
<1>5. PICK c \in IF k = "call" THEN Held ELSE {NoCap} :
          operation' = [operation EXCEPT ![o] = [kind |-> k, cap |-> c, result |-> "running"]]
  BY <1>4
<1>6. /\ c \in Caps \cup {NoCap} /\ k # "none"
      /\ k = "call" => c \in Caps
  BY <1>3, <1>5 DEF Kinds
<1>7. /\ operation' \in [Operations -> OperationRecords]
      /\ operation'[o].kind = k /\ operation'[o].cap = c /\ operation'[o].result = "running"
      /\ \A p \in Operations : p # o => operation'[p] = operation[p]
  <2>1. [kind |-> k, cap |-> c, result |-> "running"] \in OperationRecords
    BY <1>6 DEF OperationRecords
  <2> QED BY <1>2, <1>5, <2>1
<1>8. o \notin Unended
  BY <1>1 DEF ReconnectInv, LaneKept, Unended
<1>9. Unended' = Unended \cup {o}
  BY <1>7 DEF Unended
<1>10. Lists(Operations, lane', Unended')
  BY <1>1, <1>2, <1>8, <1>9, ListsMore
<1>11. at # "gate" => lane' # <<>> /\ Running' = Running /\ Running \in Unended
  <2> SUFFICES ASSUME at # "gate" PROVE lane' # <<>> /\ Running' = Running /\ Running \in Unended
    OBVIOUS
  <2>1. lane # <<>> /\ Running \in Unended
    BY RunningKnown, ReconnectTypes DEF ReconnectInv, LaneKept
  <2>2. Len(lane) \in Nat \ {0} /\ Len(lane') = Len(lane) + 1 /\ lane' \in Seq(Operations)
        /\ lane'[1] = lane[1]
    BY <1>1, <1>2, <2>1, AppendProperties, LenProperties, EmptySeq
  <2>3. lane' # <<>> /\ Head(lane') = lane'[1] /\ Head(lane) = lane[1]
    BY <1>2, <2>1, <2>2, HeadTailProperties, LenProperties, EmptySeq
  <2> QED BY <2>1, <2>2, <2>3 DEF Running
<1>12. LaneKept'
  <2>1. \A p \in Operations :
           /\ operation'[p].kind = "none" <=> operation'[p].result = "none"
           /\ operation'[p].kind = "call" => operation'[p].cap \in Caps
           /\ operation'[p].kind = "bootstrap" /\ operation'[p].result = "done" =>
                  operation'[p].cap \in Caps
    BY <1>6, <1>7 DEF ReconnectInv, LaneKept
  <2> QED BY <1>1, <1>10, <1>11, <2>1 DEF LaneKept
<1>13. LaneTyped' /\ RestTyped' /\ CountsTyped' /\ SentTyped'
  <2>1. lane' \in Seq(Operations)
    BY <1>10 DEF Lists
  <2> QED BY <1>1, <1>7, <2>1, ReconnectTypes
          DEF ReconnectInv, LaneTyped, RestTyped, CountsTyped, SentTyped
<1>14. at # "gate" => Kind' = Kind
  BY <1>7, <1>8, <1>11 DEF Kind, Unended
<1>15. ConnectionKept'
  BY <1>1 DEF ReconnectInv, ConnectionKept
<1>16. CountersKept'
  BY <1>1, <1>14 DEF ReconnectInv, CountersKept, Retrying
<1>17. RetriesMapped'
  BY <1>1 DEF ReconnectInv, RetriesMapped
<1>18. SentKept'
  <2>1. \A j \in DOMAIN sent : sent[j].op \in Operations /\ sent[j].op # o
    BY <1>1, SentEach, ReconnectTypes DEF ReconnectInv, SentKept
  <2>2. ASSUME NEW j \in DOMAIN sent
        PROVE  /\ sent[j].conn <= made /\ operation'[sent[j].op].kind # "none"
               /\ sent[j].op \in Unended' =>
                      /\ MaySend' /\ sent[j].op = Running'
                      /\ at \in {"replaced", "rebooting"} => sent[j].conn < made
    <3>1. sent[j].op \in Unended' => sent[j].op \in Unended
      BY <1>9, <2>1
    <3>2. MaySend => MaySend' /\ at # "gate"
      BY <1>1 DEF MaySend
    <3> QED BY <1>7, <1>11, <2>1, <3>1, <3>2 DEF ReconnectInv, SentKept
  <2> QED BY <1>1, <1>11, <2>2 DEF ReconnectInv, SentKept
<1> QED BY <1>12, <1>13, <1>15, <1>16, <1>17, <1>18, ReconnectTypes DEF ReconnectInv

LEMMA InitReconnect == ReconnectInit => ReconnectInv
<1> SUFFICES ASSUME ReconnectInit PROVE ReconnectInv
  OBVIOUS
<1> USE DEF ReconnectInit
<1>1. /\ operation \in [Operations -> OperationRecords]
      /\ \A o \in Operations : operation[o].kind = "none" /\ operation[o].result = "none"
  BY DEF OperationRecords
<1>2. lane = <<>> /\ sent = <<>> /\ at = "gate" /\ <<>> \in Seq(Operations)
      /\ <<>> \in Seq(SentRecords) /\ DOMAIN <<>> = {}
  BY EmptySeq
<1>3. LaneTyped /\ SentTyped
  BY <1>1, <1>2 DEF LaneTyped, SentTyped, Stages
<1>4. /\ reconnects \in CountRecords /\ retries \in CountRecords
      /\ Balanced(reconnects) /\ Balanced(retries)
      /\ ~InProgress(reconnects) /\ ~InProgress(retries)
  BY DEF CountRecords, Balanced, InProgress
<1>5. CountersKept /\ CountsTyped
  BY <1>4 DEF CountersKept, CountsTyped, Retrying
<1>6. RestTyped
  <2>1. MaxAttempts \in Nat /\ MaxConnects \in Nat
    BY ReconnectAssumption
  <2>2. 0 \in 0 .. MaxAttempts /\ 0 \in 0 .. MaxConnects /\ 0 \in 0 .. 0
    BY <2>1
  <2> QED BY <2>2 DEF RestTyped
<1>9. ConnectionKept
  <2>1. 1 .. 0 = {}
    OBVIOUS
  <2> QED BY <2>1 DEF ConnectionKept
<1>7. LaneKept
  <2>1. Unended = {} /\ Lists(Operations, <<>>, {})
    BY <1>1, <1>2 DEF Unended, Lists, ToSet, IsInjective
  <2> QED BY <1>1, <1>2, <2>1 DEF LaneKept
<1>8. SentKept /\ RetriesMapped
  BY <1>2 DEF SentKept, RetriesMapped
<1> QED BY <1>3, <1>5, <1>6, <1>7, <1>8, <1>9, ReconnectTypes DEF ReconnectInv

LEMMA NextReconnect == ASSUME ReconnectInv, [ReconnectNext]_reconnectVars PROVE ReconnectInv'
<1>1. CASE UNCHANGED reconnectVars
  <2>1. /\ UNCHANGED <<choice, operation, lane, at, attempt, aborted, previous, sent>>
        /\ UNCHANGED <<current, made, asked, bootCap, shut, reconnects, retries>>
    BY <1>1 DEF reconnectVars, connVars
  <2>2. Kind' = Kind /\ Running' = Running /\ Unended' = Unended
    BY <2>1 DEF Kind, Running, Unended
  <2>3. ReconnectTypeOK'
    BY <2>1, ReconnectTypes
       DEF ReconnectInv, LaneTyped, RestTyped, CountsTyped, SentTyped
  <2>4. LaneKept' /\ ConnectionKept' /\ RetriesMapped'
    BY <2>1, <2>2 DEF ReconnectInv, LaneKept, ConnectionKept, RetriesMapped
  <2>5. CountersKept' /\ SentKept'
    BY <2>1, <2>2 DEF ReconnectInv, CountersKept, Retrying, SentKept, MaySend
  <2> QED BY <2>3, <2>4, <2>5 DEF ReconnectInv
<1>2. CASE LaneStep
  <2>1. CASE RebootFails
    BY <2>1, LateFailureKeeps DEF RebootFails, MapFails
  <2>2. ASSUME NEW b \in BOOLEAN, AnswerFails(b) PROVE ReconnectInv'
    BY <2>2, AnswerFailsKeeps
  <2> QED BY <1>2, <2>1, <2>2, BeginKeeps, ConnectedKeeps, ConnectFailsKeeps, WaitEndsKeeps,
             AskKeeps, AnsweredKeeps, OldClosesKeeps, MapKeeps, RebootedKeeps, ResentEndsKeeps,
             CloseClientKeeps, ClientClosesKeeps
          DEF LaneStep
<1>3. ASSUME NEW o \in Operations, Enqueue(o) PROVE ReconnectInv'
  BY <1>3, EnqueueKeeps
<1> QED BY <1>1, <1>2, <1>3, AbortKeeps DEF ReconnectNext

\* The lane of the reconnecting client runs one operation at a time, what it has sent
\* was sent on earlier connections unless it has the answer to wait for, and its
\* counters and connections agree with where it is.
THEOREM ReconnectInvariant == ReconnectSpec => []ReconnectInv
  BY InitReconnect, NextReconnect, PTL DEF ReconnectSpec

LEMMA ReconnectInvSays == ReconnectInv => ReconnectTypeOK /\ RetriesMapped /\ NoConnectionLost
  BY DEF ReconnectInv, ConnectionKept, CountersKept, Retrying, NoConnectionLost

\* Behind close() the reconnecting client neither sends nor connects, whatever was
\* waiting in its lane.
THEOREM NothingBehindClose == ReconnectSpec => ClosedForGood
<1>1. ASSUME ReconnectInv, [ReconnectNext]_reconnectVars, shut PROVE UNCHANGED <<sent, made>>
  <2>1. at \in {"gate", "closing"}
    BY <1>1 DEF ReconnectInv, ConnectionKept
  <2>2. CASE UNCHANGED reconnectVars
    BY <2>2 DEF reconnectVars, connVars
  <2>3. CASE Begin \/ CloseClient \/ ClientCloses
    BY <2>3 DEF Begin, CloseClient, ClientCloses, connVars
  <2>4. CASE AbortConnects \/ \E o \in Operations : Enqueue(o)
    BY <2>4 DEF AbortConnects, Enqueue, connVars
  <2>5. ~(Connected \/ ConnectFails \/ WaitEnds \/ Ask \/ Answered
          \/ (\E b \in BOOLEAN : AnswerFails(b)) \/ OldCloses \/ Map \/ Rebooted
          \/ RebootFails \/ ResentEnds)
    BY <2>1 DEF Connected, ConnectFails, WaitEnds, Ask, Answered, AnswerFails, OldCloses, Map,
                Rebooted, RebootFails, ResentEnds
  <2> QED BY <1>1, <2>2, <2>3, <2>4, <2>5 DEF ReconnectNext, LaneStep
<1>2. ReconnectInv /\ [ReconnectNext]_reconnectVars =>
      [shut => UNCHANGED <<sent, made>>]_reconnectVars
  BY <1>1
<1> QED BY <1>2, ReconnectInvariant, PTL DEF ReconnectSpec, ClosedForGood

(***************************************************************************)
(* TransportMiddleware.                                                    *)
(***************************************************************************)
Standing(is) == {f \in Passing : passage[f].is = is}
Under == {"asked", "ready"}

\* Where a frame stands, what it has passed, and that each list holds every frame once.
FramesKept ==
    /\ Lists(Passing, ready, Standing("ready"))
    /\ Lists(Outbound, toInner, Standing("through") \cap Outbound)
    /\ Lists(Inbound, toHandler, Standing("through") \cap Inbound)
    /\ \A f \in Passing :
           /\ passage[f].at \in 0 .. Len(stack)
           /\ passage[f].is \in Under => passage[f].at # 0
           /\ passage[f].is = "through" => passage[f].at = Len(stack)
           /\ passage[f].is \in Under \cup {"through"} =>
                  \A k \in 1 .. passage[f].at : ~TooLarge(f, stack[k])
           /\ passage[f].is = "asked" => Asynchronous

\* Inbound frames come one at a time.
InboundKept ==
    /\ \A f, g \in Inbound : f < g /\ passage[g].is # "idle" => FrameEnded(f)
    /\ InOrder(toHandler)

Before(f, g, s) == \E i, j \in DOMAIN s : i < j /\ s[i] = f /\ s[j] = g

\* f is further than g, or before it in the line.
Ahead(f, g) ==
    \/ passage[f].at > passage[g].at
    \/ passage[f].at = passage[g].at /\ Before(f, g, ready)

OutboundKept ==
    /\ \A f, g \in Outbound : f < g =>
           /\ passage[g].is # "idle" => passage[f].is # "idle"
           /\ ~Asynchronous =>
                  /\ passage[g].is = "through" => FrameEnded(f)
                  /\ passage[f].is = "ready" /\ passage[g].is = "ready" => Ahead(f, g)
    /\ ~Asynchronous => InOrder(toInner)

\* The outbound frames that have come to the counters.
Metered == {f \in Outbound : \E k \in 1 .. passage[f].at : stack[k] = "metrics"}

MetricsKept ==
    /\ metrics.total = metrics.sent + metrics.received
    /\ metrics.sent <= Cardinality(Metered)
    /\ metrics.snapshots = metrics.total \div SnapshotInterval
    /\ \A f \in Passing : passage[f].is = "idle" => passage[f].at = 0

MiddlewareInv ==
    /\ MiddlewareTypeOK /\ FramesKept /\ InboundKept /\ OutboundKept /\ MetricsKept

LEMMA LeastOne == ASSUME NEW S \in SUBSET Nat, S # {} PROVE Min(S) \in S /\ \A y \in S : Min(S) <= y
<1> DEFINE R == {ss \in Nat \X Nat : ss[1] < ss[2]}
<1>1. IsWellFoundedOn(R, Nat)
  BY NatLessThanWellFounded DEF OpToRel
<1> HIDE DEF R
<1>2. \E x \in S : \A y \in S : ~ (<<y, x>> \in R)
  BY <1>1, WFMin
<1>3. PICK x \in S : \A y \in S : <<y, x>> \notin R
  BY <1>2
<1>4. \A y \in S : x <= y
  <2> SUFFICES ASSUME NEW y \in S PROVE x <= y
    OBVIOUS
  <2>1. x \in Nat /\ y \in Nat
    OBVIOUS
  <2>2. <<y, x>> \in Nat \X Nat /\ <<y, x>>[1] = y /\ <<y, x>>[2] = x
    BY <2>1
  <2>3. ~(y < x)
    BY <1>3, <2>2 DEF R
  <2> QED BY <2>1, <2>3
<1> QED BY <1>4 DEF Min

\* The frame goes on behind `rest`, which is what is ready without it.
First(f, rest) ==
    /\ Lists(Passing, rest, Standing("ready") \ {f})
    /\ passage[f].is \in {"idle", "ready"}
    /\ \A g, h \in Outbound \ {f} : Before(g, h, ready) => Before(g, h, rest)
    /\ f \in Inbound => \A g \in Inbound : g < f => FrameEnded(g)
    /\ f \in Outbound =>
           \A g \in Outbound : g < f =>
               /\ passage[g].is # "idle"
               /\ ~Asynchronous /\ passage[g].is = "ready" => passage[g].at > passage[f].at

LEMMA StackKnown ==
    ASSUME MiddlewareTypeOK
    PROVE  /\ Len(stack) \in Nat /\ DOMAIN stack = 1 .. Len(stack)
           /\ \A k \in 1 .. Len(stack) :
                  stack[k] \in {"observer", "sendLimit", "limit", "metrics", "filter", "async"}
           /\ \A i, j \in 1 .. Len(stack) : stack[i] = "metrics" /\ stack[j] = "metrics" => i = j
<1> DEFINE K == {"observer", "sendLimit", "limit", "metrics", "filter", "async"}
<1>1. stack \in Seq(K) /\ \A i, j \in DOMAIN stack : stack[i] = "metrics" /\ stack[j] = "metrics" => i = j
  BY MiddlewareAssumption DEF MiddlewareTypeOK
<1> HIDE DEF K
<1>2. Len(stack) \in Nat /\ DOMAIN stack = 1 .. Len(stack)
  BY <1>1, LenProperties
<1>3. \A k \in 1 .. Len(stack) : stack[k] \in K
  BY <1>1, <1>2, ElementOfSeq
<1> QED BY <1>1, <1>2, <1>3 DEF K

LEMMA StandsSays ==
    ASSUME MiddlewareTypeOK, NEW f \in Passing, NEW a \in Nat, NEW is \in States, Stands(f, a, is)
    PROVE  /\ passage' \in [Passing -> [at : Nat, is : States]]
           /\ passage'[f].at = a /\ passage'[f].is = is
           /\ \A g \in Passing : g # f => passage'[g] = passage[g]
  BY DEF MiddlewareTypeOK, Stands

LEMMA ChainSplits ==
    ASSUME MiddlewareTypeOK, NEW f \in Passing, NEW a \in 0 .. Len(stack), NEW rest,
           Chain(f, a + 1, rest)
    PROVE  \/ \E m \in a + 1 .. Len(stack) :
                  /\ Hooked(f, m) /\ Enters(f, m, rest)
                  /\ \A k \in a + 1 .. m - 1 : ~Hooked(f, k)
           \/ Leaves(f, rest) /\ \A k \in a + 1 .. Len(stack) : ~Hooked(f, k)
<1> DEFINE hooks == {j \in a + 1 .. Len(stack) : Hooked(f, j)}
<1>1. Len(stack) \in Nat /\ a \in Nat
  BY StackKnown
<1>2. CASE hooks = {}
  BY <1>2 DEF Chain
<1>3. CASE hooks # {}
  <2>1. hooks \in SUBSET Nat
    BY <1>1
  <2>2. Enters(f, Min(hooks), rest)
    BY <1>3 DEF Chain
  <2> HIDE DEF hooks
  <2>3. Min(hooks) \in hooks /\ \A y \in hooks : Min(hooks) <= y
    BY <1>3, <2>1, LeastOne
  <2> DEFINE m == Min(hooks)
  <2>4. m \in hooks /\ (\A y \in hooks : m <= y) /\ Enters(f, m, rest)
    BY <2>2, <2>3
  <2> HIDE DEF m
  <2>5. m \in a + 1 .. Len(stack) /\ Hooked(f, m)
    BY <2>4 DEF hooks
  <2>6. ASSUME NEW k \in a + 1 .. m - 1 PROVE ~Hooked(f, k)
    <3>1. k \in a + 1 .. Len(stack) /\ k \in Nat /\ m \in Nat /\ ~(m <= k)
      BY <1>1, <2>5
    <3> QED BY <2>4, <3>1 DEF hooks
  <2> QED BY <2>4, <2>5, <2>6
<1> QED BY <1>2, <1>3

(***************************************************************************)
(* Order in a sequence.                                                    *)
(***************************************************************************)
LEMMA AppendKnown ==
    ASSUME NEW T, NEW s \in Seq(T), NEW x \in T
    PROVE  /\ Len(s) \in Nat /\ DOMAIN s = 1 .. Len(s) /\ Append(s, x) \in Seq(T)
           /\ DOMAIN Append(s, x) = 1 .. Len(s) + 1
           /\ \A i \in 1 .. Len(s) : Append(s, x)[i] = s[i]
           /\ Append(s, x)[Len(s) + 1] = x
  BY AppendProperties, LenProperties

LEMMA BeforeAppended ==
    ASSUME NEW T, NEW s \in Seq(T), NEW x \in T, NEW g, NEW h, Before(g, h, s)
    PROVE  Before(g, h, Append(s, x))
<1> DEFINE t == Append(s, x)
<1>1. /\ Len(s) \in Nat /\ DOMAIN s = 1 .. Len(s) /\ DOMAIN t = 1 .. Len(s) + 1
      /\ \A i \in 1 .. Len(s) : t[i] = s[i]
  BY AppendKnown
<1> HIDE DEF t
<1>2. PICK i \in DOMAIN s, j \in DOMAIN s : i < j /\ s[i] = g /\ s[j] = h
  BY DEF Before
<1>3. i \in DOMAIN t /\ j \in DOMAIN t /\ i < j /\ t[i] = g /\ t[j] = h
  BY <1>1, <1>2
<1>4. Before(g, h, t)
  BY <1>3 DEF Before
<1> QED BY <1>4 DEF t

LEMMA BeforeTheLast ==
    ASSUME NEW T, NEW s \in Seq(T), NEW x \in T, NEW g \in ToSet(s)
    PROVE  Before(g, x, Append(s, x))
<1> DEFINE t == Append(s, x)
<1>1. /\ Len(s) \in Nat /\ DOMAIN s = 1 .. Len(s) /\ DOMAIN t = 1 .. Len(s) + 1
      /\ \A i \in 1 .. Len(s) : t[i] = s[i]
      /\ t[Len(s) + 1] = x
  BY AppendKnown
<1> HIDE DEF t
<1>2. PICK i \in DOMAIN s : s[i] = g
  BY DEF ToSet
<1>3. i \in DOMAIN t /\ Len(s) + 1 \in DOMAIN t /\ i < Len(s) + 1 /\ t[i] = g
  BY <1>1, <1>2
<1>4. Before(g, x, t)
  BY <1>1, <1>3 DEF Before
<1> QED BY <1>4 DEF t

LEMMA BeforeInTail ==
    ASSUME NEW T, NEW s \in Seq(T), s # <<>>, NEW g, NEW h, Before(g, h, s),
           g # Head(s), h # Head(s)
    PROVE  Before(g, h, Tail(s))
<1> DEFINE t == Tail(s)
<1>1. /\ Len(s) \in Nat \ {0} /\ DOMAIN s = 1 .. Len(s) /\ DOMAIN t = 1 .. Len(s) - 1
      /\ \A i \in 1 .. Len(s) - 1 : t[i] = s[i + 1]
      /\ Head(s) = s[1]
  BY HeadTailProperties, LenProperties, EmptySeq
<1> HIDE DEF t
<1>2. PICK i \in DOMAIN s, j \in DOMAIN s : i < j /\ s[i] = g /\ s[j] = h
  BY DEF Before
<1>3. i # 1 /\ j # 1 /\ i \in Nat /\ j \in Nat
  BY <1>1, <1>2
<1>4. i - 1 \in DOMAIN t /\ j - 1 \in DOMAIN t /\ i - 1 < j - 1 /\ t[i - 1] = g /\ t[j - 1] = h
  BY <1>1, <1>2, <1>3
<1>5. Before(g, h, t)
  BY <1>4 DEF Before
<1> QED BY <1>5 DEF t

LEMMA InOrderMore ==
    ASSUME NEW T \in SUBSET Nat, NEW s \in Seq(T), InOrder(s), NEW x \in T,
           \A y \in ToSet(s) : y < x
    PROVE  InOrder(Append(s, x))
<1> DEFINE t == Append(s, x)
<1>1. /\ Len(s) \in Nat /\ DOMAIN s = 1 .. Len(s) /\ DOMAIN t = 1 .. Len(s) + 1
      /\ \A i \in 1 .. Len(s) : t[i] = s[i]
      /\ t[Len(s) + 1] = x
  BY AppendKnown
<1>2. \A i \in 1 .. Len(s) : s[i] \in ToSet(s)
  BY <1>1 DEF ToSet
<1> HIDE DEF t
<1>3. \A i, j \in DOMAIN t : i < j => t[i] < t[j]
  <2> SUFFICES ASSUME NEW i \in DOMAIN t, NEW j \in DOMAIN t, i < j PROVE t[i] < t[j]
    OBVIOUS
  <2>1. i \in 1 .. Len(s) /\ t[i] = s[i]
    BY <1>1
  <2>2. CASE j \in 1 .. Len(s)
    BY <1>1, <2>1, <2>2 DEF InOrder
  <2>3. CASE j = Len(s) + 1
    BY <1>1, <1>2, <2>1, <2>3
  <2> QED BY <1>1, <2>2, <2>3
<1> QED BY <1>3 DEF InOrder, t

(***************************************************************************)
(* Who goes on first.                                                      *)
(***************************************************************************)
LEMMA SendIsFirst == ASSUME MiddlewareInv, NEW f \in Passing, Send(f) PROVE First(f, ready)
<1>1. /\ f \in Outbound /\ passage[f].is = "idle"
      /\ \A g \in Outbound : g < f => passage[g].is # "idle"
  BY DEF Send
<1>2. f \notin Inbound /\ Outbound \subseteq Nat
  BY <1>1, MiddlewareAssumption
<1>3. Standing("ready") \ {f} = Standing("ready")
  BY <1>1 DEF Standing
<1>4. passage[f].at = 0
  BY <1>1 DEF MiddlewareInv, MetricsKept
<1>5. \A g \in Outbound : passage[g].is = "ready" => passage[g].at > passage[f].at
  BY <1>4, StackKnown DEF MiddlewareInv, FramesKept, Under, Passing
<1> QED BY <1>1, <1>2, <1>3, <1>5 DEF First, MiddlewareInv, FramesKept

LEMMA ReceiveIsFirst == ASSUME MiddlewareInv, NEW f \in Passing, Receive(f) PROVE First(f, ready)
<1>1. f \in Inbound /\ passage[f].is = "idle" /\ \A g \in Inbound : g < f => FrameEnded(g)
  BY DEF Receive
<1>2. f \notin Outbound
  BY <1>1, MiddlewareAssumption
<1>3. Standing("ready") \ {f} = Standing("ready")
  BY <1>1 DEF Standing
<1> QED BY <1>1, <1>2, <1>3 DEF First, MiddlewareInv, FramesKept

LEMMA HeadIsFirst ==
    ASSUME MiddlewareInv, ready # <<>>
    PROVE  First(Head(ready), Tail(ready)) /\ Head(ready) \in Passing
<1> DEFINE f == Head(ready)
<1>1. /\ f \in Standing("ready") /\ f \in Passing
      /\ Lists(Passing, Tail(ready), Standing("ready") \ {f})
  BY ListsLess DEF MiddlewareInv, FramesKept
<1>2. ready \in Seq(Passing) /\ IsInjective(ready)
  BY DEF MiddlewareInv, FramesKept, Lists
<1>3. Len(ready) \in Nat \ {0} /\ DOMAIN ready = 1 .. Len(ready) /\ f = ready[1]
  BY <1>2, HeadTailProperties, LenProperties, EmptySeq
<1> HIDE DEF f
<1>4. passage[f].is = "ready"
  BY <1>1 DEF Standing
<1>5. \A g : ~Before(g, f, ready)
  BY <1>2, <1>3 DEF Before, IsInjective
<1>6. \A g, h \in Outbound \ {f} : Before(g, h, ready) => Before(g, h, Tail(ready))
  BY <1>2, BeforeInTail DEF f
<1>7. f \in Inbound => \A g \in Inbound : g < f => FrameEnded(g)
  BY <1>4 DEF MiddlewareInv, InboundKept
<1>8. ASSUME f \in Outbound, NEW g \in Outbound, g < f
      PROVE  /\ passage[g].is # "idle"
             /\ ~Asynchronous /\ passage[g].is = "ready" => passage[g].at > passage[f].at
  <2>1. passage[g].is # "idle"
    BY <1>4, <1>8 DEF MiddlewareInv, OutboundKept
  <2>2. ~Asynchronous /\ passage[g].is = "ready" => Ahead(g, f)
    BY <1>4, <1>8 DEF MiddlewareInv, OutboundKept
  <2> QED BY <1>5, <2>1, <2>2 DEF Ahead
<1>9. First(f, Tail(ready))
  BY <1>1, <1>4, <1>6, <1>7, <1>8 DEF First
<1> QED BY <1>1, <1>9 DEF f

(***************************************************************************)
(* The counters.                                                           *)
(***************************************************************************)
LEMMA IntervalStep ==
    ASSUME NEW t \in Nat
    PROVE  (t + 1) \div SnapshotInterval =
               t \div SnapshotInterval + (IF (t + 1) % SnapshotInterval = 0 THEN 1 ELSE 0)
<1>1. SnapshotInterval \in Nat \ {0}
  BY MiddlewareAssumption
<1> QED BY <1>1

LEMMA MeteredFinite == IsFiniteSet(Metered) /\ IsFiniteSet(Metered')
  BY MiddlewareAssumption, FS_Subset DEF Metered

LEMMA CountsRise ==
    ASSUME MiddlewareInv, NEW f \in Passing, metrics' = Counted(f), Metered \subseteq Metered',
           f \in Outbound => f \notin Metered /\ f \in Metered'
    PROVE  /\ metrics' \in [sent : Nat, received : Nat, total : Nat, snapshots : Nat]
           /\ metrics'.total = metrics'.sent + metrics'.received
           /\ metrics'.sent <= Cardinality(Metered')
           /\ metrics'.snapshots = metrics'.total \div SnapshotInterval
<1>1. /\ metrics \in [sent : Nat, received : Nat, total : Nat, snapshots : Nat]
      /\ metrics.total = metrics.sent + metrics.received
      /\ metrics.sent <= Cardinality(Metered)
      /\ metrics.snapshots = metrics.total \div SnapshotInterval
  BY DEF MiddlewareInv, MiddlewareTypeOK, MetricsKept
<1> DEFINE up == IF f \in Outbound THEN 1 ELSE 0
           in == IF f \in Inbound THEN 1 ELSE 0
           snap == IF (metrics.total + 1) % SnapshotInterval = 0 THEN 1 ELSE 0
<1>2. /\ up \in Nat /\ in \in Nat /\ snap \in Nat /\ up + in = 1
  BY MiddlewareAssumption DEF Passing
<1>3. metrics' = [metrics EXCEPT !.sent = @ + up, !.received = @ + in, !.total = @ + 1,
                                 !.snapshots = @ + snap]
  BY DEF Counted
<1>4. Cardinality(Metered) + up <= Cardinality(Metered')
  <2>1. Cardinality(Metered) \in Nat /\ Cardinality(Metered') \in Nat
    BY MeteredFinite, FS_CardinalityType
  <2>2. CASE f \in Outbound
    <3>1. /\ Cardinality(Metered \cup {f}) = Cardinality(Metered) + 1
          /\ IsFiniteSet(Metered \cup {f}) /\ Metered \cup {f} \subseteq Metered'
      BY <2>2, MeteredFinite, FS_AddElement
    <3>2. Cardinality(Metered \cup {f}) <= Cardinality(Metered')
      BY <3>1, MeteredFinite, FS_Subset
    <3> QED BY <2>1, <2>2, <3>1, <3>2
  <2>3. CASE f \notin Outbound
    <3>1. Cardinality(Metered) <= Cardinality(Metered')
      BY MeteredFinite, FS_Subset
    <3> QED BY <2>1, <2>3, <3>1
  <2> QED BY <2>2, <2>3
<1>5. metrics.snapshots + snap = (metrics.total + 1) \div SnapshotInterval
  BY <1>1, IntervalStep
<1>6. Cardinality(Metered) \in Nat /\ Cardinality(Metered') \in Nat
  BY MeteredFinite, FS_CardinalityType
<1> HIDE DEF up, in, snap
<1>7. /\ metrics' \in [sent : Nat, received : Nat, total : Nat, snapshots : Nat]
      /\ metrics'.sent = metrics.sent + up /\ metrics'.received = metrics.received + in
      /\ metrics'.total = metrics.total + 1 /\ metrics'.snapshots = metrics.snapshots + snap
  <2>1. /\ metrics.sent + up \in Nat /\ metrics.received + in \in Nat
        /\ metrics.total + 1 \in Nat /\ metrics.snapshots + snap \in Nat
    BY <1>1, <1>2
  <2>2. metrics' = [sent |-> metrics.sent + up, received |-> metrics.received + in,
                    total |-> metrics.total + 1, snapshots |-> metrics.snapshots + snap]
    BY <1>1, <1>3
  <2> QED BY <2>1, <2>2
<1>8. metrics'.total = metrics'.sent + metrics'.received
  BY <1>1, <1>2, <1>7
<1>9. metrics'.sent <= Cardinality(Metered')
  BY <1>1, <1>2, <1>4, <1>6, <1>7
<1>10. metrics'.snapshots = metrics'.total \div SnapshotInterval
  BY <1>5, <1>7
<1> QED BY <1>7, <1>8, <1>9, <1>10

LEMMA CountsStay ==
    ASSUME MiddlewareInv, UNCHANGED metrics, Metered \subseteq Metered'
    PROVE  /\ metrics' \in [sent : Nat, received : Nat, total : Nat, snapshots : Nat]
           /\ metrics'.total = metrics'.sent + metrics'.received
           /\ metrics'.sent <= Cardinality(Metered')
           /\ metrics'.snapshots = metrics'.total \div SnapshotInterval
<1>1. /\ metrics \in [sent : Nat, received : Nat, total : Nat, snapshots : Nat]
      /\ metrics.sent <= Cardinality(Metered)
  BY DEF MiddlewareInv, MiddlewareTypeOK, MetricsKept
<1>2. Cardinality(Metered) \in Nat /\ Cardinality(Metered') \in Nat
      /\ Cardinality(Metered) <= Cardinality(Metered')
  BY MeteredFinite, FS_CardinalityType, FS_Subset
<1>3. metrics'.sent <= Cardinality(Metered')
  BY <1>1, <1>2
<1> QED BY <1>1, <1>3 DEF MiddlewareInv, MetricsKept

(***************************************************************************)
(* A frame goes on.                                                        *)
(***************************************************************************)
LEMMA NothingBetween ==
    ASSUME NEW b \in Nat, NEW a \in 0 .. b, \A k \in a + 1 .. b : FALSE PROVE a = b
<1>1. a + 1 \notin a + 1 .. b
  OBVIOUS
<1> QED BY <1>1

LEMMA FrameSorts ==
    /\ Outbound \subseteq Nat /\ Inbound \subseteq Nat /\ Passing \subseteq Nat
    /\ \A f \in Passing : f \in Outbound <=> f \notin Inbound
    /\ Outbound \subseteq Passing /\ Inbound \subseteq Passing
  BY MiddlewareAssumption DEF Passing

LEMMA StandingMoves ==
    ASSUME MiddlewareTypeOK, NEW f \in Passing, NEW a \in Nat, NEW is \in States, Stands(f, a, is)
    PROVE  /\ Standing(is)' = Standing(is) \cup {f}
           /\ \A x \in States \ {is} : Standing(x)' = Standing(x) \ {f}
<1>1. /\ passage'[f].is = is /\ \A g \in Passing : g # f => passage'[g] = passage[g]
  BY StandsSays
<1>2. Standing(is)' = Standing(is) \cup {f}
  BY <1>1 DEF Standing
<1>3. ASSUME NEW x \in States \ {is} PROVE Standing(x)' = Standing(x) \ {f}
  BY <1>1 DEF Standing
<1> QED BY <1>2, <1>3

\* What a middleware does with a frame.
LEMMA EntersAs ==
    ASSUME NEW f \in Passing, NEW m, NEW rest, Enters(f, m, rest)
    PROVE  /\ metrics' = IF stack[m] = "metrics" THEN Counted(f) ELSE metrics
           /\ UNCHANGED <<stack, toInner, toHandler>>
           /\ \E is \in {"thrown", "asked", "dropped", "ready"} :
                  /\ Stands(f, m, is)
                  /\ ready' = IF is = "ready" THEN Append(rest, f) ELSE rest
                  /\ is = "asked" => stack[m] = "async"
                  /\ is = "ready" => ~TooLarge(f, stack[m])
<1> DEFINE kind == stack[m]
<1>1. metrics' = (IF kind = "metrics" THEN Counted(f) ELSE metrics)
      /\ UNCHANGED <<stack, toInner, toHandler>>
  BY DEF Enters
<1>2. \/ Stands(f, m, "thrown") /\ ready' = rest
      \/ kind = "async" /\ Stands(f, m, "asked") /\ ready' = rest
      \/ Stands(f, m, "dropped") /\ ready' = rest
      \/ ~TooLarge(f, kind) /\ Stands(f, m, "ready") /\ ready' = Append(rest, f)
  BY DEF Enters
<1> QED BY <1>1, <1>2

LEMMA EntersKeeps ==
    ASSUME MiddlewareInv, NEW f \in Passing, NEW rest, First(f, rest),
           NEW m \in passage[f].at + 1 .. Len(stack), Enters(f, m, rest),
           \A k \in passage[f].at + 1 .. m - 1 : ~Hooked(f, k)
    PROVE  MiddlewareInv'
<1> USE FrameSorts
<1>1. PICK is \in {"thrown", "asked", "dropped", "ready"} :
          /\ Stands(f, m, is)
          /\ ready' = IF is = "ready" THEN Append(rest, f) ELSE rest
          /\ is = "asked" => stack[m] = "async"
          /\ is = "ready" => ~TooLarge(f, stack[m])
  BY EntersAs
<1>2. /\ metrics' = IF stack[m] = "metrics" THEN Counted(f) ELSE metrics
      /\ UNCHANGED <<stack, toInner, toHandler>>
  BY EntersAs
<1>3. /\ MiddlewareTypeOK /\ Len(stack) \in Nat /\ DOMAIN stack = 1 .. Len(stack)
      /\ passage[f].at \in 0 .. Len(stack) /\ m \in Nat /\ m > passage[f].at /\ m <= Len(stack)
  BY StackKnown DEF MiddlewareInv, FramesKept
<1>4. /\ passage' \in [Passing -> [at : Nat, is : States]]
      /\ passage'[f].at = m /\ passage'[f].is = is
      /\ \A g \in Passing : g # f => passage'[g] = passage[g]
  BY <1>1, <1>3, StandsSays DEF States
<1>5. /\ Standing(is)' = Standing(is) \cup {f}
      /\ \A x \in States \ {is} : Standing(x)' = Standing(x) \ {f}
  BY <1>1, <1>3, StandingMoves DEF States
<1>6. /\ passage[f].is \in {"idle", "ready"} /\ Lists(Passing, rest, Standing("ready") \ {f})
      /\ rest \in Seq(Passing)
  BY DEF First, Lists
<1>7. Lists(Passing, ready', Standing("ready")')
  <2>1. CASE is = "ready"
    <3>1. Lists(Passing, Append(rest, f), (Standing("ready") \ {f}) \cup {f})
      BY <1>6, ListsMore
    <3>2. (Standing("ready") \ {f}) \cup {f} = Standing("ready")'
      BY <1>5, <2>1
    <3> QED BY <1>1, <2>1, <3>1, <3>2
  <2>2. CASE is # "ready"
    <3>1. Standing("ready")' = Standing("ready") \ {f}
      BY <1>5, <2>2 DEF States
    <3> QED BY <1>1, <1>6, <2>2, <3>1
  <2> QED BY <2>1, <2>2
<1>8. Standing("through")' = Standing("through")
  <2>1. f \notin Standing("through")
    BY <1>6 DEF Standing
  <2>2. "through" \in States \ {is}
    BY <1>1 DEF States
  <2>3. Standing("through")' = Standing("through") \ {f}
    BY <1>5, <2>2
  <2> QED BY <2>1, <2>3
<1>9. \A g : TooLarge(g, stack[m])' = TooLarge(g, stack[m])
  BY <1>2 DEF TooLarge
<1>10. \A k \in passage[f].at + 1 .. m - 1 : ~TooLarge(f, stack[k])
  BY DEF Hooked, TooLarge
<1>11. ASSUME NEW g \in Passing
       PROVE  /\ passage'[g].at \in 0 .. Len(stack)
              /\ passage'[g].is \in Under => passage'[g].at # 0
              /\ passage'[g].is = "through" => passage'[g].at = Len(stack)
              /\ passage'[g].is \in Under \cup {"through"} =>
                     \A k \in 1 .. passage'[g].at : ~TooLarge(g, stack[k])
              /\ passage'[g].is = "asked" => Asynchronous
  <2>1. CASE g # f
    BY <1>4, <2>1 DEF MiddlewareInv, FramesKept
  <2>2. CASE g = f
    <3>1. is = "asked" => Asynchronous /\ ~TooLarge(f, stack[m])
      BY <1>1, <1>3 DEF Asynchronous, ToSet, TooLarge
    <3>2. \A k \in 1 .. passage[f].at : ~TooLarge(f, stack[k])
      BY <1>3, <1>6 DEF MiddlewareInv, FramesKept, Under, MetricsKept
    <3>3. is \in Under => \A k \in 1 .. m : ~TooLarge(f, stack[k])
      <4> SUFFICES ASSUME is \in Under, NEW k \in 1 .. m PROVE ~TooLarge(f, stack[k])
        OBVIOUS
      <4>1. k \in 1 .. passage[f].at \/ k \in passage[f].at + 1 .. m - 1 \/ k = m
        BY <1>3
      <4> QED BY <1>1, <1>10, <3>1, <3>2, <4>1 DEF Under
    <3> QED BY <1>1, <1>3, <1>4, <2>2, <3>1, <3>3 DEF Under
  <2> QED BY <2>1, <2>2
<1>12. Asynchronous' = Asynchronous
  BY <1>2 DEF Asynchronous
<1>13. FramesKept'
  <2>1. Lists(Outbound, toInner', Standing("through")' \cap Outbound)
        /\ Lists(Inbound, toHandler', Standing("through")' \cap Inbound)
    BY <1>2, <1>8 DEF MiddlewareInv, FramesKept
  <2>2. \A g \in Passing, k \in 1 .. Len(stack) : TooLarge(g, stack[k])' = TooLarge(g, stack[k])
    BY <1>2 DEF TooLarge
  <2> QED BY <1>2, <1>7, <1>11, <1>12, <2>1 DEF FramesKept, TooLarge
<1>14. \A g \in Passing : FrameEnded(g) => g # f /\ FrameEnded(g)'
  BY <1>4, <1>6 DEF FrameEnded
<1>15. InboundKept'
  <2>1. ASSUME NEW h \in Inbound, NEW g \in Inbound, h < g, passage'[g].is # "idle"
        PROVE  FrameEnded(h)'
    <3>1. FrameEnded(h)
      BY <1>4, <2>1 DEF MiddlewareInv, InboundKept, First
    <3> QED BY <1>14, <3>1
  <2>2. InOrder(toHandler')
    BY <1>2 DEF MiddlewareInv, InboundKept
  <2> QED BY <2>1, <2>2 DEF InboundKept
<1>16. OutboundKept'
  <2>1. ASSUME NEW h \in Outbound, NEW g \in Outbound, h < g, passage'[g].is # "idle"
        PROVE  passage'[h].is # "idle"
    BY <1>1, <1>4, <2>1 DEF MiddlewareInv, OutboundKept, First
  <2>2. ASSUME ~Asynchronous, NEW h \in Outbound, NEW g \in Outbound, h < g,
               passage'[g].is = "through"
        PROVE  FrameEnded(h)'
    <3>1. g # f
      BY <1>1, <1>4, <2>2
    <3>2. FrameEnded(h)
      BY <1>4, <2>2, <3>1 DEF MiddlewareInv, OutboundKept
    <3> QED BY <1>14, <3>2
  <2>3. ASSUME ~Asynchronous, NEW h \in Outbound, NEW g \in Outbound, h < g,
               passage'[h].is = "ready", passage'[g].is = "ready"
        PROVE  Ahead(h, g)'
    <3>1. passage[h].at \in Nat /\ passage[g].at \in Nat
      BY <1>3 DEF MiddlewareTypeOK
    <3>2. CASE h # f /\ g # f
      <4>1. Ahead(h, g) /\ passage'[h] = passage[h] /\ passage'[g] = passage[g]
        BY <1>4, <2>3, <3>2 DEF MiddlewareInv, OutboundKept
      <4>2. Before(h, g, ready) => Before(h, g, rest)
        BY <3>2 DEF First
      <4>3. Before(h, g, rest) => Before(h, g, ready')
        BY <1>1, <1>6, BeforeAppended
      <4> QED BY <4>1, <4>2, <4>3 DEF Ahead, Before
    <3>3. CASE g = f
      <4>1. h # f /\ passage'[h] = passage[h] /\ passage[h].at > passage[f].at /\ is = "ready"
        BY <1>4, <2>3, <3>3 DEF First
      <4>2. m = passage[f].at + 1
        <5>1. \A k : Hooked(f, k)
          BY <2>3, <3>3 DEF Hooked
        <5>2. m - 1 \in Nat /\ passage[f].at \in 0 .. m - 1
          BY <1>3, <3>1, <3>3
        <5>3. \A k \in passage[f].at + 1 .. m - 1 : FALSE
          BY <1>3, <5>1
        <5>4. passage[f].at = m - 1
          BY ONLY <5>2, <5>3, NothingBetween
        <5> QED BY <1>3, <3>1, <3>3, <5>4
      <4>3. passage'[h].at > passage'[g].at \/ passage'[h].at = passage'[g].at
        BY <1>3, <1>4, <3>1, <3>3, <4>1, <4>2
      <4>4. h \in ToSet(rest)
        BY <1>6, <2>3, <4>1 DEF Standing, Lists
      <4>5. Before(h, f, ready')
        BY <1>1, <1>6, <4>1, <4>4, BeforeTheLast
      <4> QED BY <3>3, <4>3, <4>5 DEF Ahead, Before
    <3>4. CASE h = f
      <4>1. g # f /\ passage'[g] = passage[g] /\ passage[g].is = "ready"
        <5>1. g # f
          BY <2>3, <3>4
        <5> QED BY <1>4, <2>3, <5>1
      <4>2. passage[f].is = "ready"
        BY <1>6, <2>3, <3>4, <4>1 DEF MiddlewareInv, OutboundKept
      <4>3. Ahead(f, g)
        BY <2>3, <3>4, <4>1, <4>2 DEF MiddlewareInv, OutboundKept
      <4>4. passage[f].at >= passage[g].at
        BY <3>1, <3>4, <4>3 DEF Ahead
      <4>5. passage'[h].at > passage'[g].at
        BY <1>3, <1>4, <3>1, <3>4, <4>1, <4>4
      <4> QED BY <4>5 DEF Ahead
    <3> QED BY <3>2, <3>3, <3>4
  <2>4. ~Asynchronous => InOrder(toInner')
    BY <1>2 DEF MiddlewareInv, OutboundKept
  <2> QED BY <1>12, <2>1, <2>2, <2>3, <2>4 DEF OutboundKept
<1>17. Metered \subseteq Metered'
  <2>1. ASSUME NEW g \in Metered PROVE g \in Metered'
    <3>1. PICK k \in 1 .. passage[g].at : stack[k] = "metrics"
      BY <2>1 DEF Metered
    <3>2. k \in 1 .. passage'[g].at
      BY <1>3, <1>4, <2>1, SMTT(30) DEF Metered, MiddlewareTypeOK
    <3> QED BY <1>2, <2>1, <3>1, <3>2 DEF Metered
  <2> QED BY <2>1
<1>18. stack[m] = "metrics" /\ f \in Outbound => f \notin Metered /\ f \in Metered'
  <2> SUFFICES ASSUME stack[m] = "metrics", f \in Outbound PROVE f \notin Metered /\ f \in Metered'
    OBVIOUS
  <2>1. \A k \in 1 .. passage[f].at : stack[k] # "metrics"
    BY <1>3, StackKnown
  <2>2. m \in 1 .. passage'[f].at /\ stack'[m] = "metrics"
    BY <1>2, <1>3, <1>4
  <2> QED BY <2>1, <2>2 DEF Metered
<1>19. /\ metrics' \in [sent : Nat, received : Nat, total : Nat, snapshots : Nat]
       /\ metrics'.total = metrics'.sent + metrics'.received
       /\ metrics'.sent <= Cardinality(Metered')
       /\ metrics'.snapshots = metrics'.total \div SnapshotInterval
  <2>1. CASE stack[m] = "metrics"
    BY <1>2, <1>17, <1>18, <2>1, CountsRise
  <2>2. CASE stack[m] # "metrics"
    BY <1>2, <1>17, <2>2, CountsStay
  <2> QED BY <2>1, <2>2
<1>20. MetricsKept'
  <2>1. \A g \in Passing : passage'[g].is = "idle" => passage'[g].at = 0
    BY <1>1, <1>4 DEF MiddlewareInv, MetricsKept
  <2> QED BY <1>19, <2>1 DEF MetricsKept
<1>21. MiddlewareTypeOK'
  <2>1. ready' \in Seq(Passing)
    BY <1>7 DEF Lists
  <2> QED BY <1>2, <1>4, <1>19, <2>1 DEF MiddlewareInv, MiddlewareTypeOK
<1> QED BY <1>13, <1>15, <1>16, <1>20, <1>21 DEF MiddlewareInv

LEMMA LeavesKeeps ==
    ASSUME MiddlewareInv, NEW f \in Passing, NEW rest, First(f, rest), Leaves(f, rest),
           \A k \in passage[f].at + 1 .. Len(stack) : ~Hooked(f, k)
    PROVE  MiddlewareInv'
<1> USE FrameSorts
<1> DEFINE n == Len(stack)
<1>1. /\ Stands(f, n, "through") /\ ready' = rest /\ UNCHANGED <<stack, metrics>>
      /\ f \in Outbound => toInner' = Append(toInner, f) /\ toHandler' = toHandler
      /\ f \notin Outbound => toHandler' = Append(toHandler, f) /\ toInner' = toInner
  BY DEF Leaves
<1>2. /\ MiddlewareTypeOK /\ n \in Nat /\ passage[f].at \in 0 .. n
  BY StackKnown DEF MiddlewareInv, FramesKept
<1>3. /\ passage' \in [Passing -> [at : Nat, is : States]]
      /\ passage'[f].at = n /\ passage'[f].is = "through"
      /\ \A g \in Passing : g # f => passage'[g] = passage[g]
  BY <1>1, <1>2, StandsSays DEF States
<1>4. /\ Standing("through")' = Standing("through") \cup {f}
      /\ Standing("ready")' = Standing("ready") \ {f}
  BY <1>1, <1>2, StandingMoves DEF States
<1>5. /\ passage[f].is \in {"idle", "ready"} /\ Lists(Passing, rest, Standing("ready") \ {f})
      /\ rest \in Seq(Passing) /\ f \notin Standing("through")
  BY DEF First, Lists, Standing
<1>6. /\ Lists(Outbound, toInner, Standing("through") \cap Outbound)
      /\ Lists(Inbound, toHandler, Standing("through") \cap Inbound)
  BY DEF MiddlewareInv, FramesKept
<1>7. Lists(Outbound, toInner', Standing("through")' \cap Outbound)
  <2>1. CASE f \in Outbound
    <3>1. Lists(Outbound, Append(toInner, f), (Standing("through") \cap Outbound) \cup {f})
      BY <1>5, <1>6, <2>1, ListsMore
    <3>2. (Standing("through") \cap Outbound) \cup {f} = Standing("through")' \cap Outbound
      BY <1>4, <2>1
    <3> QED BY <1>1, <2>1, <3>1, <3>2
  <2>2. CASE f \notin Outbound
    <3>1. Standing("through")' \cap Outbound = Standing("through") \cap Outbound
      BY <1>4, <2>2
    <3> QED BY <1>1, <1>6, <2>2, <3>1
  <2> QED BY <2>1, <2>2
<1>8. Lists(Inbound, toHandler', Standing("through")' \cap Inbound)
  <2>1. CASE f \notin Outbound
    <3>1. Lists(Inbound, Append(toHandler, f), (Standing("through") \cap Inbound) \cup {f})
      BY <1>5, <1>6, <2>1, ListsMore
    <3>2. (Standing("through") \cap Inbound) \cup {f} = Standing("through")' \cap Inbound
      BY <1>4, <2>1
    <3> QED BY <1>1, <2>1, <3>1, <3>2
  <2>2. CASE f \in Outbound
    <3>1. Standing("through")' \cap Inbound = Standing("through") \cap Inbound
      BY <1>4, <2>2
    <3> QED BY <1>1, <1>6, <2>2, <3>1
  <2> QED BY <2>1, <2>2
<1>9. \A k \in 1 .. n : ~TooLarge(f, stack[k])
  <2>1. \A k \in 1 .. passage[f].at : ~TooLarge(f, stack[k])
    BY <1>2, <1>5 DEF MiddlewareInv, FramesKept, Under, MetricsKept
  <2>2. \A k \in passage[f].at + 1 .. n : ~TooLarge(f, stack[k])
    BY DEF Hooked, TooLarge
  <2>3. \A k \in 1 .. n : k \in 1 .. passage[f].at \/ k \in passage[f].at + 1 .. n
    BY <1>2
  <2> QED BY <2>1, <2>2, <2>3
<1>10. ASSUME NEW g \in Passing
       PROVE  /\ passage'[g].at \in 0 .. n
              /\ passage'[g].is \in Under => passage'[g].at # 0
              /\ passage'[g].is = "through" => passage'[g].at = n
              /\ passage'[g].is \in Under \cup {"through"} =>
                     \A k \in 1 .. passage'[g].at : ~TooLarge(g, stack[k])
              /\ passage'[g].is = "asked" => Asynchronous
  <2>1. CASE g # f
    BY <1>3, <2>1 DEF MiddlewareInv, FramesKept
  <2>2. CASE g = f
    BY <1>2, <1>3, <1>9, <2>2 DEF Under
  <2> QED BY <2>1, <2>2
<1>11. Asynchronous' = Asynchronous
  BY <1>1 DEF Asynchronous
<1>12. FramesKept'
  <2>1. Lists(Passing, ready', Standing("ready")')
    BY <1>1, <1>4, <1>5
  <2> QED BY <1>1, <1>7, <1>8, <1>10, <1>11, <2>1 DEF FramesKept, TooLarge
<1>13. \A g \in Passing : FrameEnded(g) => g # f /\ FrameEnded(g)'
  BY <1>3, <1>5 DEF FrameEnded
\* What was delivered before is older.
<1>14. ASSUME NEW g \in Passing, passage[g].is = "through",
              (f \in Inbound /\ g \in Inbound) \/ (f \in Outbound /\ g \in Outbound /\ ~Asynchronous)
       PROVE  g < f
  <2>1. ~(f < g)
    BY <1>13, <1>14 DEF MiddlewareInv, InboundKept, OutboundKept
  <2>2. g # f
    BY <1>5, <1>14
  <2> QED BY <2>1, <2>2
<1>15. InboundKept'
  <2>1. ASSUME NEW h \in Inbound, NEW g \in Inbound, h < g, passage'[g].is # "idle"
        PROVE  FrameEnded(h)'
    <3>1. FrameEnded(h)
      BY <1>3, <2>1 DEF MiddlewareInv, InboundKept, First
    <3> QED BY <1>13, <3>1
  <2>2. InOrder(toHandler')
    <3>1. CASE f \in Outbound
      BY <1>1, <3>1 DEF MiddlewareInv, InboundKept
    <3>2. CASE f \in Inbound
      <4>1. ASSUME NEW g \in ToSet(toHandler) PROVE g < f
        <5>1. g \in Inbound /\ g \in Passing /\ g \in Standing("through")
          BY <1>6, <4>1 DEF Lists
        <5>2. passage[g].is = "through"
          BY <5>1 DEF Standing
        <5>3. (f \in Inbound /\ g \in Inbound) \/ (f \in Outbound /\ g \in Outbound /\ ~Asynchronous)
          BY <3>2, <5>1
        <5> QED BY ONLY <1>14, <5>1, <5>2, <5>3
      <4>2. toHandler \in Seq(Inbound) /\ InOrder(toHandler)
        BY <1>6 DEF Lists, MiddlewareInv, InboundKept
      <4>3. InOrder(Append(toHandler, f))
        BY <3>2, <4>1, <4>2, InOrderMore
      <4> QED BY <1>1, <3>2, <4>3
    <3> QED BY <3>1, <3>2
  <2> QED BY <2>1, <2>2 DEF InboundKept
<1>16. OutboundKept'
  <2>1. ASSUME NEW h \in Outbound, NEW g \in Outbound, h < g, passage'[g].is # "idle"
        PROVE  passage'[h].is # "idle"
    BY <1>3, <2>1 DEF MiddlewareInv, OutboundKept, First
  <2>2. ASSUME ~Asynchronous, NEW h \in Outbound, NEW g \in Outbound, h < g,
               passage'[g].is = "through"
        PROVE  FrameEnded(h)'
    <3>1. CASE g # f
      <4>1. FrameEnded(h)
        BY <1>3, <2>2, <3>1 DEF MiddlewareInv, OutboundKept
      <4> QED BY <1>13, <4>1
    <3>2. CASE g = f
      <4>1. h # f /\ passage[h].is # "idle"
            /\ (passage[h].is = "ready" => passage[h].at > passage[f].at)
        BY <2>2, <3>2 DEF First
      <4>2. passage[f].at = n
        <5>1. \A k : Hooked(f, k)
          BY <2>2, <3>2 DEF Hooked
        <5>2. \A k \in passage[f].at + 1 .. n : FALSE
          BY <5>1
        <5> QED BY ONLY <1>2, <5>2, NothingBetween
      <4>3. passage[h].is # "ready"
        BY <1>2, <4>1, <4>2 DEF MiddlewareInv, FramesKept
      <4>4. passage[h].is # "asked" /\ passage[h].is \in States
        BY <1>2, <2>2 DEF MiddlewareInv, FramesKept, MiddlewareTypeOK
      <4>5. FrameEnded(h)
        BY <4>1, <4>3, <4>4 DEF States, FrameEnded
      <4> QED BY <1>13, <4>5
    <3> QED BY <3>1, <3>2
  <2>3. ASSUME ~Asynchronous, NEW h \in Outbound, NEW g \in Outbound, h < g,
               passage'[h].is = "ready", passage'[g].is = "ready"
        PROVE  Ahead(h, g)'
    <3>1. h # f /\ g # f
      BY <1>3, <2>3
    <3>2. Ahead(h, g) /\ passage'[h] = passage[h] /\ passage'[g] = passage[g]
      BY <1>3, <2>3, <3>1 DEF MiddlewareInv, OutboundKept
    <3>3. Before(h, g, ready) => Before(h, g, ready')
      BY <1>1, <3>1 DEF First
    <3> QED BY <3>2, <3>3 DEF Ahead, Before
  <2>4. ~Asynchronous => InOrder(toInner')
    <3> SUFFICES ASSUME ~Asynchronous PROVE InOrder(toInner')
      OBVIOUS
    <3>1. CASE f \notin Outbound
      BY <1>1, <3>1 DEF MiddlewareInv, OutboundKept
    <3>2. CASE f \in Outbound
      <4>1. ASSUME NEW g \in ToSet(toInner) PROVE g < f
        <5>1. g \in Outbound /\ g \in Passing /\ passage[g].is = "through"
          BY <1>6, <4>1 DEF Lists, Standing
        <5> QED BY <1>14, <3>2, <5>1
      <4>2. toInner \in Seq(Outbound) /\ InOrder(toInner)
        BY <1>6 DEF Lists, MiddlewareInv, OutboundKept
      <4>3. InOrder(Append(toInner, f))
        BY <3>2, <4>1, <4>2, InOrderMore
      <4> QED BY <1>1, <3>2, <4>3
    <3> QED BY <3>1, <3>2
  <2> QED BY <1>11, <2>1, <2>2, <2>3, <2>4 DEF OutboundKept
<1>17. Metered \subseteq Metered'
  <2>1. ASSUME NEW g \in Metered PROVE g \in Metered'
    <3>1. PICK k \in 1 .. passage[g].at : stack[k] = "metrics"
      BY <2>1 DEF Metered
    <3>2. k \in 1 .. passage'[g].at
      BY <1>2, <1>3, <2>1, SMTT(30) DEF Metered, MiddlewareTypeOK
    <3> QED BY <1>1, <2>1, <3>1, <3>2 DEF Metered
  <2> QED BY <2>1
<1>18. MetricsKept' /\ metrics' \in [sent : Nat, received : Nat, total : Nat, snapshots : Nat]
  <2>1. \A g \in Passing : passage'[g].is = "idle" => passage'[g].at = 0
    BY <1>3 DEF MiddlewareInv, MetricsKept
  <2> QED BY <1>1, <1>17, <2>1, CountsStay DEF MetricsKept
<1>19. MiddlewareTypeOK'
  BY <1>1, <1>3, <1>5, <1>7, <1>8, <1>18 DEF MiddlewareInv, MiddlewareTypeOK, Lists
<1> QED BY <1>12, <1>15, <1>16, <1>18, <1>19 DEF MiddlewareInv

LEMMA GoesOnKeeps ==
    ASSUME MiddlewareInv, NEW f \in Passing, NEW rest, First(f, rest),
           Chain(f, passage[f].at + 1, rest)
    PROVE  MiddlewareInv'
<1>1. MiddlewareTypeOK /\ passage[f].at \in 0 .. Len(stack)
  BY DEF MiddlewareInv, FramesKept
<1>2. \/ \E m \in passage[f].at + 1 .. Len(stack) :
             /\ Hooked(f, m) /\ Enters(f, m, rest)
             /\ \A k \in passage[f].at + 1 .. m - 1 : ~Hooked(f, k)
      \/ Leaves(f, rest) /\ \A k \in passage[f].at + 1 .. Len(stack) : ~Hooked(f, k)
  BY <1>1, ChainSplits
<1> QED BY <1>2, EntersKeeps, LeavesKeeps

LEMMA AnswersKeeps == ASSUME MiddlewareInv, NEW f \in Passing, Answers(f) PROVE MiddlewareInv'
<1> USE FrameSorts
<1>1. PICK is \in {"ready", "dropped", "thrown"} :
          /\ Stands(f, passage[f].at, is)
          /\ ready' = IF is = "ready" THEN Append(ready, f) ELSE ready
  BY DEF Answers
<1>2. passage[f].is = "asked" /\ UNCHANGED <<stack, toInner, toHandler, metrics>>
  BY DEF Answers
<1>3. MiddlewareTypeOK /\ passage[f].at \in Nat /\ Asynchronous
  BY <1>2, StackKnown DEF MiddlewareInv, FramesKept
<1>4. /\ passage' \in [Passing -> [at : Nat, is : States]]
      /\ passage'[f].at = passage[f].at /\ passage'[f].is = is
      /\ \A g \in Passing : g # f => passage'[g] = passage[g]
  BY <1>1, <1>3, StandsSays DEF States
<1>5. /\ Standing(is)' = Standing(is) \cup {f}
      /\ \A x \in States \ {is} : Standing(x)' = Standing(x) \ {f}
  BY <1>1, <1>3, StandingMoves DEF States
<1>6. f \notin Standing("ready") /\ f \notin Standing("through")
  BY <1>2 DEF Standing
<1>7. Lists(Passing, ready, Standing("ready"))
  BY DEF MiddlewareInv, FramesKept
<1>8. Lists(Passing, ready', Standing("ready")')
  <2>1. CASE is = "ready"
    BY <1>1, <1>5, <1>6, <1>7, <2>1, ListsMore
  <2>2. CASE is # "ready"
    <3>1. Standing("ready")' = Standing("ready")
      BY <1>5, <1>6, <2>2 DEF States
    <3> QED BY <1>1, <1>7, <2>2, <3>1
  <2> QED BY <2>1, <2>2
<1>9. Standing("through")' = Standing("through")
  <2>1. "through" \in States \ {is}
    BY <1>1 DEF States
  <2>2. Standing("through")' = Standing("through") \ {f}
    BY <1>5, <2>1
  <2> QED BY <1>6, <2>2
<1>10. Asynchronous' /\ Asynchronous
  BY <1>2, <1>3 DEF Asynchronous
<1>11. FramesKept'
  <2>1. ASSUME NEW g \in Passing
        PROVE  /\ passage'[g].at \in 0 .. Len(stack)
               /\ passage'[g].is \in Under => passage'[g].at # 0
               /\ passage'[g].is = "through" => passage'[g].at = Len(stack)
               /\ passage'[g].is \in Under \cup {"through"} =>
                      \A k \in 1 .. passage'[g].at : ~TooLarge(g, stack[k])
    <3>1. CASE g # f
      BY <1>4, <3>1 DEF MiddlewareInv, FramesKept
    <3>2. CASE g = f
      BY <1>1, <1>2, <1>4, <3>2 DEF MiddlewareInv, FramesKept, Under
    <3> QED BY <3>1, <3>2
  <2>2. Lists(Outbound, toInner', Standing("through")' \cap Outbound)
        /\ Lists(Inbound, toHandler', Standing("through")' \cap Inbound)
    BY <1>2, <1>9 DEF MiddlewareInv, FramesKept
  <2> QED BY <1>2, <1>8, <1>10, <2>1, <2>2 DEF FramesKept, TooLarge
<1>12. \A g \in Passing : FrameEnded(g) => FrameEnded(g)'
  BY <1>2, <1>4 DEF FrameEnded
<1>13. \A g \in Passing : passage'[g].is = "idle" <=> passage[g].is = "idle"
  BY <1>1, <1>2, <1>4
<1>14. InboundKept'
  BY <1>2, <1>12, <1>13 DEF MiddlewareInv, InboundKept, InOrder
<1>15. OutboundKept'
  BY <1>10, <1>13 DEF MiddlewareInv, OutboundKept
<1>16. \A g \in Passing : passage'[g].at = passage[g].at
  BY <1>4
<1>17. Metered' = Metered
  BY <1>2, <1>16 DEF Metered
<1>18. MetricsKept' /\ metrics' \in [sent : Nat, received : Nat, total : Nat, snapshots : Nat]
  <2>1. \A g \in Passing : passage'[g].is = "idle" => passage'[g].at = 0
    BY <1>13, <1>16 DEF MiddlewareInv, MetricsKept
  <2> QED BY <1>2, <1>17, <2>1, CountsStay DEF MetricsKept
<1>19. MiddlewareTypeOK'
  BY <1>2, <1>4, <1>8, <1>18 DEF MiddlewareInv, MiddlewareTypeOK, Lists
<1> QED BY <1>11, <1>14, <1>15, <1>18, <1>19 DEF MiddlewareInv

LEMMA ResetKeeps == ASSUME MiddlewareInv, ResetMetrics PROVE MiddlewareInv'
<1>1. metrics' = NoCounts /\ UNCHANGED <<stack, passage, ready, toInner, toHandler>>
  BY DEF ResetMetrics
<1>2. /\ FramesKept' /\ InboundKept' /\ OutboundKept'
  BY <1>1 DEF MiddlewareInv, FramesKept, InboundKept, OutboundKept, Standing, TooLarge,
              Asynchronous, FrameEnded, InOrder, Ahead, Before
<1>3. metrics' \in [sent : Nat, received : Nat, total : Nat, snapshots : Nat]
  BY <1>1 DEF NoCounts
<1>4. MiddlewareTypeOK'
  BY <1>1, <1>3 DEF MiddlewareInv, MiddlewareTypeOK
<1>5. MetricsKept'
  <2>1. Metered' = Metered /\ Cardinality(Metered) \in Nat
    BY <1>1, MeteredFinite, FS_CardinalityType DEF Metered
  <2>2. SnapshotInterval \in Nat \ {0}
    BY MiddlewareAssumption
  <2>3. 0 = 0 \div SnapshotInterval
    BY <2>2
  <2> QED BY <1>1, <2>1, <2>3 DEF MiddlewareInv, MetricsKept, NoCounts
<1> QED BY <1>2, <1>4, <1>5 DEF MiddlewareInv

LEMMA InitMiddleware == MiddlewareInit => MiddlewareInv
<1> SUFFICES ASSUME MiddlewareInit PROVE MiddlewareInv
  OBVIOUS
<1> USE FrameSorts
<1>1. /\ stack \in Stacks /\ ready = <<>> /\ toInner = <<>> /\ toHandler = <<>>
      /\ metrics = NoCounts /\ passage \in [Passing -> [at : Nat, is : States]]
      /\ \A f \in Passing : passage[f].at = 0 /\ passage[f].is = "idle"
  BY DEF MiddlewareInit, States
<1>2. <<>> \in Seq(Passing) /\ <<>> \in Seq(Outbound) /\ <<>> \in Seq(Inbound)
      /\ DOMAIN <<>> = {}
  BY EmptySeq
<1>3. metrics \in [sent : Nat, received : Nat, total : Nat, snapshots : Nat]
  BY <1>1 DEF NoCounts
<1>4. MiddlewareTypeOK
  BY <1>1, <1>2, <1>3 DEF MiddlewareTypeOK
<1>5. FramesKept
  <2>1. Standing("ready") = {} /\ Standing("through") = {}
    BY <1>1 DEF Standing
  <2>2. \A T : <<>> \in Seq(T) => Lists(T, <<>>, {})
    BY <1>2 DEF Lists, ToSet, IsInjective
  <2>3. Len(stack) \in Nat
    BY <1>4, StackKnown
  <2>4. \A f \in Passing : passage[f].at \in 0 .. Len(stack) /\ passage[f].is \notin Under
    BY <1>1, <2>3 DEF Under
  <2> QED BY <1>1, <1>2, <2>1, <2>2, <2>4 DEF FramesKept, Under
<1>6. InboundKept /\ OutboundKept
  BY <1>1, <1>2 DEF InboundKept, OutboundKept, InOrder
<1>7. MetricsKept
  <2>1. Cardinality(Metered) \in Nat /\ SnapshotInterval \in Nat \ {0}
    BY MeteredFinite, FS_CardinalityType, MiddlewareAssumption
  <2>2. 0 = 0 \div SnapshotInterval
    BY <2>1
  <2> QED BY <1>1, <2>1, <2>2 DEF MetricsKept, NoCounts
<1> QED BY <1>4, <1>5, <1>6, <1>7 DEF MiddlewareInv

LEMMA NextMiddleware ==
    ASSUME MiddlewareInv, [MiddlewareNext]_middlewareVars PROVE MiddlewareInv'
<1>1. CASE UNCHANGED middlewareVars
  <2>1. UNCHANGED <<stack, passage, ready, toInner, toHandler, metrics>>
    BY <1>1 DEF middlewareVars
  <2>2. Metered' = Metered
    BY <2>1 DEF Metered
  <2> QED BY <2>1, <2>2
          DEF MiddlewareInv, MiddlewareTypeOK, FramesKept, InboundKept, OutboundKept, MetricsKept,
              Standing, TooLarge, Asynchronous, FrameEnded, InOrder, Ahead, Before
<1>2. CASE Resumes
  <2>1. ready # <<>> /\ Chain(Head(ready), passage[Head(ready)].at + 1, Tail(ready))
    BY <1>2 DEF Resumes
  <2>2. First(Head(ready), Tail(ready)) /\ Head(ready) \in Passing
    BY <2>1, HeadIsFirst
  <2> QED BY <2>1, <2>2, GoesOnKeeps
<1>3. ASSUME NEW f \in Passing, Send(f) \/ Receive(f) PROVE MiddlewareInv'
  <2>1. passage[f].is = "idle" /\ Chain(f, 1, ready)
    BY <1>3 DEF Send, Receive
  <2>2. passage[f].at + 1 = 1
    BY <2>1 DEF MiddlewareInv, MetricsKept
  <2>3. First(f, ready)
    BY <1>3, SendIsFirst, ReceiveIsFirst
  <2> QED BY <2>1, <2>2, <2>3, GoesOnKeeps
<1>4. ASSUME NEW f \in Passing, Answers(f) PROVE MiddlewareInv'
  BY <1>4, AnswersKeeps
<1> QED BY <1>1, <1>2, <1>3, <1>4, ResetKeeps DEF MiddlewareNext

\* Without asynchronous middleware an older frame is further in the stack or before a
\* newer one in the line; none is past a limit that it exceeds; and the counters have
\* counted no frame that has not come to them.
THEOREM MiddlewareInvariant == MiddlewareSpec => []MiddlewareInv
  BY InitMiddleware, NextMiddleware, PTL DEF MiddlewareSpec

LEMMA MiddlewareInvSays ==
    ASSUME MiddlewareInv PROVE MiddlewareTypeOK /\ OrderKept /\ LimitsEnforced /\ CountsAddUp
<1> USE FrameSorts
<1>1. OrderKept
  BY DEF MiddlewareInv, InboundKept, OutboundKept, FramesKept, Lists, OrderKept
<1>2. LimitsEnforced
  <2> SUFFICES ASSUME NEW k \in DOMAIN stack, NEW f \in Passing, TooLarge(f, stack[k]),
                      f \in ToSet(toInner) \cup ToSet(toHandler)
               PROVE  FALSE
    BY DEF LimitsEnforced
  <2>1. k \in 1 .. Len(stack)
    BY StackKnown DEF MiddlewareInv
  <2>2. passage[f].is = "through"
    BY DEF MiddlewareInv, FramesKept, Lists, Standing
  <2> QED BY <2>1, <2>2 DEF MiddlewareInv, FramesKept
<1>3. CountsAddUp
  <2> DEFINE Entered == {f \in Outbound : passage[f].is # "idle"}
  <2>1. Metered \subseteq Entered
    <3> SUFFICES ASSUME NEW f \in Metered PROVE passage[f].is # "idle"
      BY DEF Metered
    <3>1. f \in Passing /\ 1 .. passage[f].at # {}
      BY DEF Metered
    <3>2. passage[f].at # 0
      BY <3>1
    <3> QED BY <3>1, <3>2 DEF MiddlewareInv, MetricsKept
  <2>2. IsFiniteSet(Entered)
    BY MiddlewareAssumption, FS_Subset
  <2>3. Cardinality(Metered) <= Cardinality(Entered) /\ Cardinality(Metered) \in Nat
        /\ Cardinality(Entered) \in Nat
    BY <2>1, <2>2, MeteredFinite, FS_Subset, FS_CardinalityType
  <2> HIDE DEF Entered
  <2>4. metrics.sent <= Cardinality(Metered) /\ metrics.sent \in Nat
    BY DEF MiddlewareInv, MetricsKept, MiddlewareTypeOK
  <2>5. metrics.sent <= Cardinality(Entered)
    BY <2>3, <2>4
  <2> QED BY <2>5 DEF MiddlewareInv, MetricsKept, CountsAddUp, Entered
<1> QED BY <1>1, <1>2, <1>3 DEF MiddlewareInv

(***************************************************************************)
(* CircuitBreaker.                                                         *)
(***************************************************************************)
StateInv == TypeOK /\ TripsAtThreshold /\ OpenedAtKnown

LEMMA ThresholdPositive == MaxConsecutiveFailures \in Nat /\ MaxConsecutiveFailures > 0
<1>1. MaxConsecutiveFailures \in Nat \ {0}
  BY BreakerAssumption
<1> QED BY <1>1

LEMMA InitStateInv == Init => StateInv
<1> SUFFICES ASSUME Init PROVE StateInv
  OBVIOUS
<1>1. halfOpenProbeInFlight \in BOOLEAN /\ probeForgotten \in BOOLEAN
  BY DEF Init
<1>2. TypeOK
  BY <1>1 DEF Init, TypeOK, NoTime
<1>3. TripsAtThreshold /\ OpenedAtKnown
  BY ThresholdPositive DEF Init, TripsAtThreshold, OpenedAtKnown
<1> QED BY <1>2, <1>3 DEF StateInv

LEMMA NextStateInv == ASSUME StateInv, [Next]_breakerVars
                      PROVE  StateInv'
<1> USE ThresholdPositive
    DEF StateInv, TypeOK, TripsAtThreshold, OpenedAtKnown, NoTime
<1>1. CASE UNCHANGED breakerVars
  BY <1>1 DEF breakerVars
<1>2. CASE Tick
  BY <1>2 DEF Tick
<1>3. CASE Reset
  <2>1. halfOpenProbeInFlight' \in BOOLEAN
    BY <1>3 DEF Reset
  <2>2. probeForgotten' \in BOOLEAN
    BY <1>3 DEF Reset
  <2> QED BY <1>3, <2>1, <2>2 DEF Reset
<1>4. ASSUME NEW c \in Calls, StartCall(c) PROVE StateInv'
  BY <1>4 DEF StartCall
<1>5. ASSUME NEW c \in Calls, RefuseCall(c) PROVE StateInv'
  BY <1>5 DEF RefuseCall
<1>6. ASSUME NEW c \in Calls, Success(c) PROVE StateInv'
  BY <1>6 DEF Success, Settle
<1>7. ASSUME NEW c \in Calls, Failure(c) PROVE StateInv'
  BY <1>7 DEF Failure, Settle
<1> QED BY <1>1, <1>2, <1>3, <1>4, <1>5, <1>6, <1>7 DEF Next

\* The breaker's state agrees with its counter and its time of opening, whatever
\* settles late and whenever it is reset.
THEOREM StateConsistent == Spec => []StateInv
  BY InitStateInv, NextStateInv, PTL DEF Spec

\* In every reachable state a closed breaker is below its threshold.
THEOREM BreakerTrips == Spec => []TripsAtThreshold
<1>1. StateInv => TripsAtThreshold
  BY DEF StateInv
<1> QED BY <1>1, StateConsistent, PTL

ProbeInv == TypeOK /\ OneProbe /\ ProbeFlagExact

LEMMA NextProbeInv == ASSUME StateInv, ProbeInv, [Next]_breakerVars
                      PROVE  ProbeInv'
<1>0. TypeOK'
  BY NextStateInv DEF StateInv
<1> USE DEF ProbeInv, TypeOK, OneProbe, ProbeFlagExact, Probes
<1>1. CASE UNCHANGED breakerVars
  BY <1>0, <1>1 DEF breakerVars
<1>2. CASE Tick
  BY <1>0, <1>2 DEF Tick
<1>3. CASE Reset
  <2>1. Probes' = Probes /\ ~halfOpenProbeInFlight'
    BY <1>3 DEF Reset
  <2>2. ~probeForgotten' => ~probeForgotten /\ Probes = {}
    BY <1>3 DEF Reset
  <2> QED BY <1>0, <2>1, <2>2
<1>4. ASSUME NEW c \in Calls, StartCall(c) PROVE ProbeInv'
  BY <1>0, <1>4 DEF StartCall
<1>5. ASSUME NEW c \in Calls, RefuseCall(c) PROVE ProbeInv'
  BY <1>0, <1>5 DEF RefuseCall
<1>6. ASSUME NEW c \in Calls, Success(c) PROVE ProbeInv'
  BY <1>0, <1>6 DEF Success, Settle
<1>7. ASSUME NEW c \in Calls, Failure(c) PROVE ProbeInv'
  BY <1>0, <1>7 DEF Failure, Settle
<1> QED BY <1>1, <1>2, <1>3, <1>4, <1>5, <1>6, <1>7 DEF Next

\* As long as no reset comes in the middle of a probe, at most one probe runs at a
\* time, and the flag that refuses others is set exactly while one does.
THEOREM ProbesExclusive == Spec => [](OneProbe /\ ProbeFlagExact)
<1>1. Init => StateInv /\ ProbeInv
  BY InitStateInv DEF Init, StateInv, ProbeInv, OneProbe, ProbeFlagExact, Probes
<1>2. (StateInv /\ ProbeInv) /\ [Next]_breakerVars => (StateInv /\ ProbeInv)'
  BY NextStateInv, NextProbeInv
<1>3. StateInv /\ ProbeInv => OneProbe /\ ProbeFlagExact
  BY DEF ProbeInv
<1> QED BY <1>1, <1>2, <1>3, PTL DEF Spec

(***************************************************************************)
(* The composition: each part runs by itself.                              *)
(***************************************************************************)
LEMMA EachBegins ==
    MCInit => /\ ServiceInit /\ ListenersInit /\ ConnectsInit /\ MiddlewareInit
              /\ ReconnectInit /\ Init
  BY DEF MCInit

LEMMA EachSteps ==
    [MCNext]_vars => /\ [ServiceNext]_serviceVars /\ [ListenersNext]_listenerVars
                     /\ [ConnectsNext]_connectVars /\ [MiddlewareNext]_middlewareVars
                     /\ [ReconnectNext]_reconnectVars /\ [Next]_breakerVars
<1> SUFFICES ASSUME [MCNext]_vars
             PROVE  /\ [ServiceNext]_serviceVars /\ [ListenersNext]_listenerVars
                    /\ [ConnectsNext]_connectVars /\ [MiddlewareNext]_middlewareVars
                    /\ [ReconnectNext]_reconnectVars /\ [Next]_breakerVars
  OBVIOUS
<1>1. CASE UNCHANGED vars
  BY <1>1 DEF vars
<1>2. CASE ServicesNext
  BY <1>2 DEF ServicesNext
<1>3. CASE ListensNext
  BY <1>3 DEF ListensNext
<1>4. CASE DialsNext
  BY <1>4 DEF DialsNext
<1>5. CASE FiltersNext
  BY <1>5 DEF FiltersNext
<1>6. CASE ReconnectsNext
  BY <1>6 DEF ReconnectsNext
<1>7. CASE BreakersNext
  BY <1>7 DEF BreakersNext
<1> QED BY <1>1, <1>2, <1>3, <1>4, <1>5, <1>6, <1>7 DEF MCNext

LEMMA EachRuns ==
    MCSpec => /\ ServiceSpec /\ ListenersRun /\ ConnectsRun /\ MiddlewareSpec
              /\ ReconnectSpec /\ Spec
  BY EachBegins, EachSteps, PTL
     DEF MCSpec, ServiceSpec, ListenersRun, ConnectsRun, MiddlewareSpec, ReconnectSpec, Spec

\* No service leaks a connection or exceeds its limit, and no listener loses one, for
\* any number of connections and any limit.
THEOREM ServiceAlwaysKept == MCSpec => []ServiceKept
<1>1. ServiceInv /\ ListenerInv => ServiceKept
  BY ServiceInvSays, ListenerInvSays DEF ServiceKept
<1> QED BY <1>1, EachRuns, ServiceInvariant, ListenersInvariant, PTL

\* No connect call loses a socket, no reconnecting client a connection, and no stack
\* of middleware order, limits or counts, for any constants.
THEOREM ConnectionsAlwaysKept == MCSpec => []ConnectionsKept
<1>1. ConnectsInv /\ ReconnectInv /\ MiddlewareInv /\ StateInv => ConnectionsKept
  <2> SUFFICES ASSUME ConnectsInv, ReconnectInv, MiddlewareInv, StateInv PROVE ConnectionsKept
    OBVIOUS
  <2>1. ConnectsTypeOK /\ NoSocketLost
    BY DEF ConnectsInv
  <2>2. ReconnectTypeOK /\ RetriesMapped /\ NoConnectionLost
    BY ReconnectInvSays
  <2>3. MiddlewareTypeOK /\ OrderKept /\ LimitsEnforced /\ CountsAddUp
    BY MiddlewareInvSays
  <2>4. TypeOK
    BY DEF StateInv
  <2> QED BY <2>1, <2>2, <2>3, <2>4 DEF ConnectionsKept
<1> QED BY <1>1, EachRuns, ConnectsInvariant, ReconnectInvariant, MiddlewareInvariant,
           StateConsistent, PTL

\* A drain is graceful, a closed listener gives nothing out and a closed client sends
\* nothing, in every behaviour.
THEOREM NothingFollowsShutdown == MCSpec => NothingAfterShutdown
  BY EachRuns, DrainsGracefully, NothingGivenLate, NothingBehindClose, PTL
     DEF NothingAfterShutdown
=============================================================================
