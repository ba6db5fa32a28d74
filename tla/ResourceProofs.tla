--------------------------- MODULE ResourceProofs ---------------------------
(* Theorems about what outlives a call, or is charged to it: the blocks in the  *)
(* heap of the WASM module (WasmAbi), the files in the output directory of the   *)
(* code generator (GeneratedOutput), and the budget of a schema compiler's job   *)
(* (SchemaCompiler).                                                             *)
EXTENDS WasmAbi, GeneratedOutput, SchemaCompiler, FiniteSetTheorems, SequenceTheorems,
        WellFoundedInduction, TLAPS

(***************************************************************************)
(* The invariant of the ABI.                                               *)
(***************************************************************************)
\* The pointers of a wrapper.
Fields == {"errorTake", "hostCall", "pair"}

WrapperRecords ==
    [life : {"none", "open", "closed"}, as : {"plain", "factory", "serde"}, closing : BOOLEAN,
     errorTake : Blocks \cup {Nil}, hostCall : Blocks \cup {Nil}, pair : Blocks \cup {Nil}]

\* Each pointer of an open wrapper has a scratch block of its own, and no other block is
\* scratch.
CellsKept ==
    /\ wrapper \in [Wrappers -> WrapperRecords]
    /\ heap \in [Blocks -> {"free", "scratch", "call", "module"}]
    /\ \A w \in Wrappers, f \in Fields :
           wrapper[w][f] # Nil => Open(w) /\ heap[wrapper[w][f]] = "scratch"
    /\ \A v, w \in Wrappers, f, g \in Fields :
           wrapper[v][f] # Nil /\ wrapper[v][f] = wrapper[w][g] => v = w /\ f = g
    /\ \A b \in Blocks : heap[b] = "scratch" =>
           \E w \in Wrappers, f \in Fields : wrapper[w][f] = b

\* Peers belong to a wrapper that has them as long as they are open.
PeersKept ==
    /\ members \in [Wrappers -> SUBSET Handles] /\ alive \subseteq Handles
    /\ peer \in [Handles -> [of : Wrappers \cup {Nil}, owns : BOOLEAN, closed : BOOLEAN]]
    /\ moduleUp \in BOOLEAN
    /\ \A p \in Handles : p \in alive <=> ~peer[p].closed
    /\ \A p \in Handles : peer[p].of = Nil => peer[p].closed
    /\ \A w \in Wrappers, p \in Handles : p \in members[w] <=> p \in alive /\ peer[p].of = w
    /\ ~moduleUp => \A w \in Wrappers : ~Open(w)

\* A wrapper with peers is open; one that is asked to close is open for its peers only,
\* as the wrapper of a factory's peer is once that is closed.
LivesKept ==
    /\ \A w \in Wrappers :
           /\ members[w] # {} => Open(w)
           /\ Open(w) /\ wrapper[w].closing => members[w] # {} /\ wrapper[w].pair = Nil
           /\ wrapper[w].as # "serde" => wrapper[w].pair = Nil
    /\ \A p \in Handles : peer[p].of # Nil =>
           /\ wrapper[peer[p].of].life # "none"
           /\ peer[p].owns => wrapper[peer[p].of].as # "serde"
           /\ peer[p].owns /\ peer[p].closed /\ Open(peer[p].of) =>
                  wrapper[peer[p].of].closing

Stages == {"push", "events", "listening", "frames"}
DriveRecords ==
    [p : Handles \cup {Nil}, stage : Stages \cup {"single"}, pushes : BOOLEAN, drained : Nat]

\* The operations under way are those of peers that were made.
DrivesKept ==
    /\ drives \in Seq(DriveRecords) /\ Len(drives) <= MaxDepth
    /\ \A i \in 1 .. Len(drives) : drives[i].stage \in Stages =>
           drives[i].p \in Handles /\ peer[drives[i].p].of # Nil

CallRecords ==
    [at : {"alloc", "ask", "take", "free"}, w : Wrappers, p : Handles \cup {Nil}, needs : Nat,
     gives : {"nothing", "borrowed", "hostCall", "number", "event", "text", "bytes"},
     ptrs : Seq(Blocks), got : Blocks \cup {Nil},
     result : {"none", "some", "threw"}]

\* The blocks that the call under way has to give back.
CallBlocks ==
    IF call = NoCall THEN {} ELSE Range(call.ptrs) \cup ({call.got} \ {Nil})

Used == {b \in Blocks : heap[b] \in {"call", "module"}}

\* What is in use and no scratch is the call's or lost.
CallKept ==
    /\ flaws = {}
    /\ lost \subseteq Blocks /\ lost \cap CallBlocks = {} /\ Used = lost \cup CallBlocks
    /\ call # NoCall =>
           /\ call \in CallRecords /\ drives # <<>>
           /\ call.got # Nil => call.at = "take" /\ call.got \notin Range(call.ptrs)
           /\ call.p # Nil => peer[call.p].of = call.w

AbiInv == CellsKept /\ PeersKept /\ LivesKept /\ DrivesKept /\ CallKept

(***************************************************************************)
(* Least elements, sequences and blocks.                                   *)
(***************************************************************************)
LEMMA LeastOne == ASSUME NEW S \in SUBSET Nat, S # {} PROVE Min(S) \in S /\ \A y \in S : Min(S) <= y
<1> DEFINE R == {ss \in Nat \X Nat : ss[1] < ss[2]}
<1>1. IsWellFoundedOn(R, Nat)
  BY NatLessThanWellFounded DEF OpToRel
<1> HIDE DEF R
<1>2. \E x \in S : \A y \in S : ~ (<<y, x>> \in R)
  BY <1>1, WFMin
<1>3. PICK x \in S : \A y \in S : <<y, x>> \notin R
  BY <1>2
<1>4. \A y \in S : x <= y
  <2> SUFFICES ASSUME NEW y \in S PROVE x <= y
    OBVIOUS
  <2>1. x \in Nat /\ y \in Nat
    OBVIOUS
  <2>2. <<y, x>> \in Nat \X Nat /\ <<y, x>>[1] = y /\ <<y, x>>[2] = x
    BY <2>1
  <2>3. ~(y < x)
    BY <1>3, <2>2 DEF R
  <2> QED BY <2>1, <2>3
<1> QED BY <1>4 DEF Min

LEMMA RangeMore ==
    ASSUME NEW T, NEW s \in Seq(T), NEW x \in T
    PROVE  Append(s, x) \in Seq(T) /\ Range(Append(s, x)) = Range(s) \cup {x}
<1> DEFINE t == Append(s, x)
<1>1. /\ t \in Seq(T) /\ Len(t) = Len(s) + 1 /\ Len(s) \in Nat
      /\ \A i \in 1 .. Len(s) : t[i] = s[i]
      /\ t[Len(s) + 1] = x
  BY AppendProperties, LenProperties
<1>2. DOMAIN t = 1 .. Len(s) + 1 /\ DOMAIN s = 1 .. Len(s)
  BY <1>1, LenProperties
<1> HIDE DEF t
<1>3. \A i \in DOMAIN t : i \in DOMAIN s \/ i = Len(s) + 1
  BY <1>1, <1>2
<1>4. Len(s) + 1 \in DOMAIN t /\ DOMAIN s \subseteq DOMAIN t
  BY <1>1, <1>2
<1>5. Range(t) = Range(s) \cup {x}
  BY <1>1, <1>2, <1>3, <1>4 DEF Range
<1> QED BY <1>1, <1>5 DEF t

\* A pointer stands at a block or at none.
LEMMA CellsTyped ==
    ASSUME CellsKept, NEW w \in Wrappers, NEW f \in Fields
    PROVE  wrapper[w][f] \in Blocks \cup {Nil} /\ Nil \notin Blocks
<1>1. CASE f = "errorTake"
  BY <1>1, AbiAssumption DEF CellsKept, WrapperRecords, Nil
<1>2. CASE f = "hostCall"
  BY <1>2, AbiAssumption DEF CellsKept, WrapperRecords, Nil
<1>3. CASE f = "pair"
  BY <1>3, AbiAssumption DEF CellsKept, WrapperRecords, Nil
<1> QED BY <1>1, <1>2, <1>3 DEF Fields

\* A wrapper that gives some of its blocks back frees each once, and nobody else's.
LEMMA CellsDropped ==
    ASSUME CellsKept, NEW w \in Wrappers, NEW F \in SUBSET Fields,
           wrapper' \in [Wrappers -> WrapperRecords],
           \A v \in Wrappers : v # w => wrapper'[v] = wrapper[v],
           \A f \in Fields : wrapper'[w][f] = IF f \in F THEN Nil ELSE wrapper[w][f],
           (\E f \in Fields : wrapper'[w][f] # Nil) => wrapper'[w].life = "open",
           heap' = Freed(heap, {wrapper[w][f] : f \in F} \ {Nil})
    PROVE  /\ CellsKept'
           /\ BadFrees(heap, {wrapper[w][f] : f \in F} \ {Nil}) = {}
           /\ \A b \in Blocks : heap[b] \in {"call", "module"} => heap'[b] = heap[b]
           /\ \A b \in Blocks : heap'[b] \in {"call", "module"} => heap'[b] = heap[b]
<1> DEFINE D == {wrapper[w][f] : f \in F} \ {Nil}
<1>1. \A b \in D : b \in Blocks /\ heap[b] = "scratch"
  BY CellsTyped DEF CellsKept
<1>2. /\ heap' \in [Blocks -> {"free", "scratch", "call", "module"}]
      /\ \A b \in Blocks : heap'[b] = IF b \in D THEN "free" ELSE heap[b]
  BY DEF Freed, CellsKept
<1>3. BadFrees(heap, D) = {}
  BY <1>1 DEF BadFrees
<1>4. \A v \in Wrappers, g \in Fields : wrapper'[v][g] # Nil =>
          wrapper'[v][g] = wrapper[v][g] /\ (v # w \/ g \notin F)
  OBVIOUS
<1>5. \A v \in Wrappers, g \in Fields : wrapper'[v][g] # Nil => wrapper'[v][g] \notin D
  BY <1>4 DEF CellsKept
<1>6. \A v \in Wrappers, g \in Fields : wrapper'[v][g] # Nil => wrapper'[v][g] \in Blocks
  BY <1>4, CellsTyped
<1>7. \A v \in Wrappers, g \in Fields :
          wrapper'[v][g] # Nil => wrapper'[v].life = "open" /\ heap'[wrapper'[v][g]] = "scratch"
  <2> SUFFICES ASSUME NEW v \in Wrappers, NEW g \in Fields, wrapper'[v][g] # Nil
               PROVE  wrapper'[v].life = "open" /\ heap'[wrapper'[v][g]] = "scratch"
    OBVIOUS
  <2>1. heap'[wrapper'[v][g]] = heap[wrapper[v][g]]
    BY <1>2, <1>4, <1>5, <1>6
  <2>2. heap[wrapper[v][g]] = "scratch" /\ wrapper[v].life = "open"
    BY <1>4 DEF CellsKept, Open
  <2>3. wrapper'[v].life = "open"
    BY <2>2
  <2> QED BY <2>1, <2>2, <2>3
<1>8. \A u, v \in Wrappers, f, g \in Fields :
          wrapper'[u][f] # Nil /\ wrapper'[u][f] = wrapper'[v][g] => u = v /\ f = g
  BY <1>4 DEF CellsKept
<1>9. ASSUME NEW b \in Blocks, heap'[b] = "scratch"
      PROVE  \E v \in Wrappers, g \in Fields : wrapper'[v][g] = b
  <2>1. heap[b] = "scratch" /\ b \notin D
    BY <1>2, <1>9
  <2>2. PICK v \in Wrappers, g \in Fields : wrapper[v][g] = b
    BY <2>1 DEF CellsKept
  <2>3. v # w \/ g \notin F
    BY <2>1, <2>2, CellsTyped
  <2>4. wrapper'[v][g] = b
    BY <2>2, <2>3
  <2> QED BY <2>4
<1>10. CellsKept'
  BY <1>2, <1>7, <1>8, <1>9 DEF CellsKept, Open
<1> QED BY <1>1, <1>2, <1>3, <1>10

\* What leaves wrappers and peers alone keeps what is known of them.
LEMMA LivesStay == ASSUME PeersKept, LivesKept, UNCHANGED lifeVars PROVE PeersKept' /\ LivesKept'
<1>1. UNCHANGED <<wrapper, members, peer, alive, moduleUp>>
  BY DEF lifeVars
<1>2. \A w : Open(w)' <=> Open(w)
  BY <1>1 DEF Open
<1> QED BY <1>1, <1>2 DEF PeersKept, LivesKept

\* What a call takes from the free blocks, or gives back, is no scratch.
LEMMA CellsStay ==
    ASSUME CellsKept, UNCHANGED wrapper,
           heap' \in [Blocks -> {"free", "scratch", "call", "module"}],
           \A b \in Blocks : heap'[b] = "scratch" <=> heap[b] = "scratch"
    PROVE  CellsKept'
<1>1. \A w : Open(w)' <=> Open(w)
  BY DEF Open
<1> QED BY <1>1, CellsTyped DEF CellsKept

LEMMA DrivesStay == ASSUME DrivesKept, UNCHANGED <<drives, peer>> PROVE DrivesKept'
  BY DEF DrivesKept

LEMMA CallsIn == ASSUME CallKept, call.at # "none" PROVE call # NoCall /\ call \in CallRecords /\ drives # <<>>
  BY DEF CallKept, NoCall

\* The front of the row of operations, and what may stand behind it.
LEMMA DrivesFront ==
    ASSUME DrivesKept, drives # <<>>
    PROVE  /\ Front(drives) \in Seq(DriveRecords) /\ Len(Front(drives)) = Len(drives) - 1
           /\ Len(drives) \in Nat \ {0} /\ Top = drives[Len(drives)] /\ Top \in DriveRecords
           /\ \A i \in 1 .. Len(drives) - 1 : Front(drives)[i] = drives[i]
           /\ Top.stage \in Stages => Top.p \in Handles /\ peer[Top.p].of # Nil
<1>1. drives \in Seq(DriveRecords) /\ Len(drives) \in Nat \ {0}
  BY EmptySeq, LenProperties DEF DrivesKept
<1>2. /\ Front(drives) \in Seq(DriveRecords) /\ Len(Front(drives)) = Len(drives) - 1
      /\ \A i \in 1 .. Len(drives) - 1 : Front(drives)[i] = drives[i]
  <2>1. \A i \in 1 .. Len(drives) - 1 : drives[i] \in DriveRecords
    BY <1>1
  <2> DEFINE n == Len(drives) - 1
             s == SubSeq(drives, 1, n)
  <2>2. n \in Nat /\ n \in Int /\ 1 \in Int /\ \A i \in 1 .. n : drives[i] \in DriveRecords
    BY <1>1, <2>1
  <2>3. /\ s \in Seq(DriveRecords)
        /\ Len(s) = IF 1 <= n THEN n - 1 + 1 ELSE 0
        /\ \A i \in 1 .. n - 1 + 1 : s[i] = drives[1 + i - 1]
    <3> HIDE DEF n
    <3> QED BY <2>2, SubSeqProperties
  <2>4. Front(drives) = s
    BY DEF Front
  <2> HIDE DEF s
  <2>5. Len(s) = n
    <3> HIDE DEF n
    <3> QED BY <2>2, <2>3
  <2>6. ASSUME NEW i \in 1 .. n PROVE s[i] = drives[i]
    <3> HIDE DEF n
    <3>1. i \in 1 .. n - 1 + 1 /\ 1 + i - 1 = i
      BY <2>2, <2>6
    <3>2. s[i] = drives[1 + i - 1]
      BY <2>3, <3>1
    <3> QED BY <3>1, <3>2
  <2> QED BY <2>3, <2>4, <2>5, <2>6
<1>3. Top = drives[Len(drives)]
  BY DEF Top, Last
<1> QED BY <1>1, <1>2, <1>3 DEF DrivesKept

\* The innermost operation goes on, as another peer's or none would, or ends.
LEMMA DrivesReplaced ==
    ASSUME DrivesKept, drives # <<>>, UNCHANGED peer,
           \/ drives' = Front(drives)
           \/ \E d \in DriveRecords :
                  /\ drives' = Append(Front(drives), d)
                  /\ d.stage \in Stages => d.p \in Handles /\ peer[d.p].of # Nil
    PROVE  DrivesKept'
<1> DEFINE s == Front(drives)
<1>1. /\ s \in Seq(DriveRecords) /\ Len(s) = Len(drives) - 1 /\ Len(drives) \in Nat \ {0}
      /\ \A i \in 1 .. Len(drives) - 1 : s[i] = drives[i]
  BY DrivesFront
<1>2. Len(drives) <= MaxDepth /\ MaxDepth \in Nat
  BY AbiAssumption DEF DrivesKept
<1>3. \A i \in 1 .. Len(s) : s[i].stage \in Stages => s[i].p \in Handles /\ peer[s[i].p].of # Nil
  BY <1>1 DEF DrivesKept
<1> HIDE DEF s
<1>4. CASE drives' = s
  BY <1>1, <1>2, <1>3, <1>4 DEF DrivesKept
<1>5. ASSUME NEW d \in DriveRecords, drives' = Append(s, d),
             d.stage \in Stages => d.p \in Handles /\ peer[d.p].of # Nil
      PROVE  DrivesKept'
  <2>1. /\ drives' \in Seq(DriveRecords) /\ Len(drives') = Len(s) + 1
        /\ \A i \in 1 .. Len(s) : drives'[i] = s[i] /\ drives'[Len(s) + 1] = d
    BY <1>1, <1>5, AppendProperties
  <2>2. drives'[Len(s) + 1] = d
    BY <1>1, <1>5, AppendProperties
  <2>3. \A i \in 1 .. Len(drives') : drives'[i].stage \in Stages =>
            drives'[i].p \in Handles /\ peer[drives'[i].p].of # Nil
    <3> TAKE i \in 1 .. Len(drives')
    <3>1. CASE i \in 1 .. Len(s)
      BY <1>3, <2>1, <3>1
    <3>2. CASE i = Len(s) + 1
      BY <1>5, <2>2, <3>2
    <3> QED BY <1>1, <2>1, <3>1, <3>2
  <2> QED BY <1>1, <1>2, <2>1, <2>3 DEF DrivesKept
<1> QED BY <1>4, <1>5 DEF s

\* Where an operation is after one of its calls.
LEMMA DrivesGoOn ==
    ASSUME DrivesKept, drives # <<>>, UNCHANGED peer, NEW result, drives' = After(result)
    PROVE  DrivesKept'
<1> DEFINE d == Top
<1>1. d \in DriveRecords /\ (d.stage \in Stages => d.p \in Handles /\ peer[d.p].of # Nil)
  BY DrivesFront
<1>2. \A x \in Stages : [d EXCEPT !.stage = x] \in DriveRecords /\ [d EXCEPT !.stage = x].p = d.p
  BY <1>1 DEF DriveRecords, Stages
<1>3. [d EXCEPT !.drained = @ + 1] \in DriveRecords /\ [d EXCEPT !.drained = @ + 1].p = d.p
      /\ [d EXCEPT !.drained = @ + 1].stage = d.stage
  BY <1>1 DEF DriveRecords, Stages
<1>4. \/ drives' = Front(drives)
      \/ \E x \in Stages : d.stage \in Stages /\ drives' = Append(Front(drives), [d EXCEPT !.stage = x])
      \/ drives' = Append(Front(drives), [d EXCEPT !.drained = @ + 1])
  BY DEF After, Stages
<1> HIDE DEF d
<1>5. \/ drives' = Front(drives)
      \/ \E e \in DriveRecords :
             /\ drives' = Append(Front(drives), e)
             /\ e.stage \in Stages => e.p \in Handles /\ peer[e.p].of # Nil
  BY <1>1, <1>2, <1>3, <1>4
<1> QED BY <1>5, DrivesReplaced

\* The row grows by an operation that a peer, or nobody, is the subject of.
LEMMA DrivesBegun ==
    ASSUME DrivesKept, UNCHANGED peer, NEW d \in DriveRecords, drives' = Append(drives, d),
           Len(drives) < MaxDepth, d.stage \in Stages => d.p \in Handles /\ peer[d.p].of # Nil
    PROVE  DrivesKept' /\ drives' # <<>>
<1>1. drives \in Seq(DriveRecords) /\ Len(drives) \in Nat /\ MaxDepth \in Nat
  BY AbiAssumption, LenProperties DEF DrivesKept
<1>2. /\ drives' \in Seq(DriveRecords) /\ Len(drives') = Len(drives) + 1
      /\ \A i \in 1 .. Len(drives) : drives'[i] = drives[i]
      /\ drives'[Len(drives) + 1] = d
  BY <1>1, AppendProperties
<1>3. \A i \in 1 .. Len(drives') : i \in 1 .. Len(drives) \/ i = Len(drives) + 1
  BY <1>1, <1>2
<1>4. \A i \in 1 .. Len(drives') : drives'[i].stage \in Stages =>
            drives'[i].p \in Handles /\ peer[drives'[i].p].of # Nil
  BY <1>2, <1>3 DEF DrivesKept
<1>5. drives' # <<>>
  BY <1>1, <1>2
<1> QED BY <1>1, <1>2, <1>4, <1>5 DEF DrivesKept

\* The module's next block.
LEMMA NextIsFree ==
    ASSUME CellsKept, FreeBlocks # {}
    PROVE  NextBlock \in Blocks /\ heap[NextBlock] = "free"
<1>1. FreeBlocks \in SUBSET Nat
  BY AbiAssumption DEF FreeBlocks
<1>2. NextBlock \in FreeBlocks
  BY <1>1, LeastOne DEF NextBlock
<1> QED BY <1>2 DEF FreeBlocks

(***************************************************************************)
(* The steps of a call.                                                    *)
(***************************************************************************)
\* A call that is refused, or fails to allocate, loses what it had allocated.
LEMMA RefusedKeeps ==
    ASSUME AbiInv, call.at \in {"alloc", "ask"}, lost' = lost \cup Range(call.ptrs), Ends("threw"),
           UNCHANGED <<lifeVars, heap, flaws>>
    PROVE  AbiInv'
<1>1. call # NoCall /\ call \in CallRecords /\ drives # <<>> /\ call.got = Nil
  BY CallsIn DEF AbiInv, CallKept
<1>2. call' = NoCall /\ drives' = After("threw") /\ UNCHANGED <<wrapper, peer>>
  BY DEF Ends, lifeVars
<1>3. CellsKept' /\ PeersKept' /\ LivesKept' /\ DrivesKept'
  BY <1>1, <1>2, LivesStay, CellsStay, DrivesGoOn DEF AbiInv, CellsKept
<1>4. Range(call.ptrs) \subseteq Blocks /\ CallBlocks = Range(call.ptrs) /\ CallBlocks' = {}
  BY <1>1, <1>2 DEF CallRecords, CallBlocks, Range
<1>5. CallKept'
  BY <1>2, <1>4 DEF AbiInv, CallKept, Used
<1> QED BY <1>3, <1>5 DEF AbiInv

\* An allocation: the block is the call's.
LEMMA AllocKeeps == ASSUME AbiInv, AbiAlloc PROVE AbiInv'
<1> DEFINE n == NextBlock
<1>1. call # NoCall /\ call \in CallRecords /\ drives # <<>> /\ call.got = Nil
  BY CallsIn DEF AbiInv, CallKept, AbiAlloc
<1>2. n \in Blocks /\ heap[n] = "free"
  BY NextIsFree DEF AbiInv, AbiAlloc
<1>3. /\ heap' = [heap EXCEPT ![n] = "call"]
      /\ call' = [call EXCEPT !.ptrs = Append(@, n),
                              !.at = IF Len(call.ptrs) + 1 = call.needs THEN "ask" ELSE "alloc"]
      /\ UNCHANGED <<wrapper, members, peer, alive, moduleUp, drives, lost, flaws>>
  BY DEF AbiAlloc
<1> HIDE DEF n
<1>4. PeersKept' /\ LivesKept' /\ DrivesKept'
  BY <1>3, LivesStay, DrivesStay DEF AbiInv, lifeVars
<1>5. heap \in [Blocks -> {"free", "scratch", "call", "module"}]
  BY DEF AbiInv, CellsKept
<1>6. CellsKept'
  BY <1>2, <1>3, <1>5, CellsStay DEF AbiInv
<1>7. Used' = Used \cup {n} /\ n \notin Used
  BY <1>2, <1>3, <1>5 DEF Used
<1>8. /\ Append(call.ptrs, n) \in Seq(Blocks)
      /\ Range(Append(call.ptrs, n)) = Range(call.ptrs) \cup {n}
  BY <1>1, <1>2, RangeMore DEF CallRecords
<1>9. /\ call' \in CallRecords /\ call'.at # "none" /\ call'.ptrs = Append(call.ptrs, n)
      /\ call'.got = Nil /\ call'.p = call.p /\ call'.w = call.w
  BY <1>1, <1>3, <1>8 DEF CallRecords
<1>10. call' # NoCall
  BY <1>9 DEF NoCall
<1>11. CallBlocks' = CallBlocks \cup {n}
  BY <1>1, <1>8, <1>9, <1>10 DEF CallBlocks
<1>12. CallKept'
  BY <1>1, <1>3, <1>7, <1>9, <1>10, <1>11 DEF AbiInv, CallKept
<1> QED BY <1>4, <1>6, <1>12 DEF AbiInv

\* The export answers.  A handle that was freed is asked for only while another peer
\* keeps the wrapper open.
LEMMA AskKeeps == ASSUME AbiInv, Ask PROVE AbiInv'
<1>1. /\ call # NoCall /\ call \in CallRecords /\ drives # <<>> /\ call.got = Nil
      /\ call.at = "ask" /\ Open(call.w)
  BY CallsIn DEF AbiInv, CallKept, Ask
<1>2. PICK a \in Answers, got \in (IF FreeBlocks # {} THEN {Nil, NextBlock} ELSE {Nil}) :
          /\ call' = [call EXCEPT !.at = IF a = "some" THEN "take" ELSE "free",
                                  !.got = got, !.result = a]
          /\ heap' = IF got = Nil THEN heap ELSE [heap EXCEPT ![got] = "module"]
          /\ got # Nil => a = "some"
  BY DEF Ask
<1>3. a \in {"none", "some", "threw"}
  BY DEF Answers
<1>4. got # Nil => got \in Blocks /\ heap[got] = "free"
  BY NextIsFree DEF AbiInv
<1>5. UNCHANGED <<wrapper, members, peer, alive, moduleUp, drives, lost>>
  BY DEF Ask
<1>6. flaws' = {}
  <2>1. ~(call.p # Nil /\ call.p \notin alive /\ peer[call.p].owns /\ members[call.w] = {})
    <3> SUFFICES ASSUME call.p # Nil, call.p \notin alive, peer[call.p].owns PROVE members[call.w] # {}
      OBVIOUS
    <3>1. call.p \in Handles /\ call.w \in Wrappers /\ peer[call.p].of = call.w /\ call.w # Nil
      BY <1>1, AbiAssumption DEF AbiInv, CallKept, CallRecords, Nil
    <3>2. peer[call.p].closed
      BY <3>1 DEF AbiInv, PeersKept
    <3>3. wrapper[call.w].closing
      BY <1>1, <3>1, <3>2 DEF AbiInv, LivesKept
    <3> QED BY <1>1, <3>1, <3>3 DEF AbiInv, LivesKept
  <2>2. flaws = {}
    BY DEF AbiInv, CallKept
  <2> QED BY <2>1, <2>2 DEF Ask, Flaw
<1>7. PeersKept' /\ LivesKept' /\ DrivesKept'
  BY <1>5, LivesStay, DrivesStay DEF AbiInv, lifeVars
<1>8. heap \in [Blocks -> {"free", "scratch", "call", "module"}]
  BY DEF AbiInv, CellsKept
<1>9. CellsKept'
  BY <1>2, <1>4, <1>5, <1>8, CellsStay DEF AbiInv
<1>10. Used' = Used \cup ({got} \ {Nil}) /\ (got # Nil => got \notin Used)
  BY <1>2, <1>4, <1>8 DEF Used
<1>11. /\ call' \in CallRecords /\ call'.at \in {"take", "free"} /\ call'.ptrs = call.ptrs
       /\ call'.got = got /\ call'.p = call.p /\ call'.w = call.w
       /\ got # Nil => call'.at = "take"
  BY <1>1, <1>2, <1>3, <1>4 DEF CallRecords
<1>12. call' # NoCall
  BY <1>11 DEF NoCall
<1>13. CallBlocks' = CallBlocks \cup ({got} \ {Nil}) /\ CallBlocks = Range(call.ptrs)
  BY <1>1, <1>11, <1>12 DEF CallBlocks
<1>14. got # Nil => got \notin Range(call.ptrs) /\ got \notin lost
  BY <1>10, <1>13 DEF AbiInv, CallKept
<1>15. CallKept'
  BY <1>1, <1>5, <1>6, <1>10, <1>11, <1>12, <1>13, <1>14 DEF AbiInv, CallKept
<1> QED BY <1>7, <1>9, <1>15 DEF AbiInv

\* What was given is read, and given back or lost.
LEMMA TakeKeeps == ASSUME AbiInv, Take PROVE AbiInv'
<1> DEFINE back == {call.got} \ {Nil}
<1>1. /\ call # NoCall /\ call \in CallRecords /\ drives # <<>> /\ call.at = "take"
  BY CallsIn DEF AbiInv, CallKept, Take
<1>2. PICK dropped \in SUBSET back :
          /\ heap' = Freed(heap, back \ dropped) /\ lost' = lost \cup dropped
          /\ flaws' = flaws \cup BadFrees(heap, back \ dropped)
          /\ \E x \in {"none", "some", "threw"} :
                 call' = [call EXCEPT !.at = "free", !.got = Nil, !.result = x]
  <2>1. PICK ok \in BOOLEAN :
            LET dropped == IF ~ok /\ call.gives \in {"hostCall", "bytes"} THEN back ELSE {} IN
            /\ heap' = Freed(heap, back \ dropped) /\ lost' = lost \cup dropped
            /\ flaws' = flaws \cup BadFrees(heap, back \ dropped)
            /\ call' = [call EXCEPT !.at = "free", !.got = Nil,
                          !.result = CASE ~ok -> "threw"
                                       [] call.gives = "event" /\ back = {} -> "none"
                                       [] OTHER -> "some"]
    BY DEF Take
  <2> DEFINE d == IF ~ok /\ call.gives \in {"hostCall", "bytes"} THEN back ELSE {}
             x == CASE ~ok -> "threw" [] call.gives = "event" /\ back = {} -> "none" [] OTHER -> "some"
  <2>2. d \in SUBSET back /\ x \in {"none", "some", "threw"}
    OBVIOUS
  <2> QED BY <2>1, <2>2
<1>3. UNCHANGED <<wrapper, members, peer, alive, moduleUp, drives>>
  BY DEF Take
<1>4. \A b \in back : b \in Blocks /\ b \in Used /\ b \notin lost /\ b \notin Range(call.ptrs)
  BY <1>1 DEF AbiInv, CallKept, CallBlocks, CallRecords
<1>5. heap \in [Blocks -> {"free", "scratch", "call", "module"}]
  BY DEF AbiInv, CellsKept
<1>6. BadFrees(heap, back \ dropped) = {}
  BY <1>4 DEF BadFrees, Used
<1>7. /\ heap' \in [Blocks -> {"free", "scratch", "call", "module"}]
      /\ \A b \in Blocks : heap'[b] = IF b \in back \ dropped THEN "free" ELSE heap[b]
  BY <1>2, <1>5 DEF Freed
<1>8. CellsKept'
  BY <1>3, <1>4, <1>7, CellsStay DEF AbiInv, Used
<1>9. PeersKept' /\ LivesKept' /\ DrivesKept'
  BY <1>3, LivesStay, DrivesStay DEF AbiInv, lifeVars
<1>10. Used' = Used \ (back \ dropped)
  BY <1>7 DEF Used
<1>11. /\ call' \in CallRecords /\ call'.at = "free" /\ call'.ptrs = call.ptrs /\ call'.got = Nil
       /\ call'.p = call.p /\ call'.w = call.w
  BY <1>1, <1>2 DEF CallRecords
<1>12. call' # NoCall
  BY <1>11 DEF NoCall
<1>13. CallBlocks' = Range(call.ptrs) /\ CallBlocks = Range(call.ptrs) \cup back
  BY <1>1, <1>11, <1>12 DEF CallBlocks
<1> HIDE DEF back
<1>14. /\ lost' \subseteq Blocks /\ lost' \cap CallBlocks' = {} /\ Used' = lost' \cup CallBlocks'
  BY <1>2, <1>4, <1>10, <1>13 DEF AbiInv, CallKept
<1>15. CallKept'
  BY <1>1, <1>2, <1>3, <1>6, <1>11, <1>12, <1>14 DEF AbiInv, CallKept
<1> QED BY <1>8, <1>9, <1>15 DEF AbiInv

\* The call's own blocks are freed, each of them once.
LEMMA FinallyKeeps == ASSUME AbiInv, Finally PROVE AbiInv'
<1> DEFINE B == Range(call.ptrs)
<1>1. /\ call # NoCall /\ call \in CallRecords /\ drives # <<>> /\ call.at = "free" /\ call.got = Nil
  BY CallsIn DEF AbiInv, CallKept, Finally
<1>2. /\ heap' = Freed(heap, B) /\ flaws' = flaws \cup BadFrees(heap, B)
      /\ call' = NoCall /\ drives' = After(call.result)
      /\ UNCHANGED <<wrapper, members, peer, alive, moduleUp, lost>>
  BY DEF Finally, Ends, lifeVars
<1>3. CallBlocks = B /\ CallBlocks' = {}
  BY <1>1, <1>2 DEF CallBlocks
<1>4. \A b \in B : b \in Blocks /\ b \in Used /\ b \notin lost
  BY <1>1, <1>3 DEF AbiInv, CallKept, Used
<1>5. heap \in [Blocks -> {"free", "scratch", "call", "module"}]
  BY DEF AbiInv, CellsKept
<1> HIDE DEF B
<1>6. BadFrees(heap, B) = {}
  BY <1>4 DEF BadFrees, Used
<1>7. /\ heap' \in [Blocks -> {"free", "scratch", "call", "module"}]
      /\ \A b \in Blocks : heap'[b] = IF b \in B THEN "free" ELSE heap[b]
  BY <1>2, <1>5 DEF Freed
<1>8. CellsKept'
  BY <1>2, <1>4, <1>7, CellsStay DEF AbiInv, Used
<1>9. PeersKept' /\ LivesKept' /\ DrivesKept'
  BY <1>1, <1>2, LivesStay, DrivesGoOn DEF AbiInv, lifeVars
<1>10. Used' = Used \ B
  BY <1>7 DEF Used
<1>11. CallKept'
  BY <1>2, <1>3, <1>6, <1>10 DEF AbiInv, CallKept
<1> QED BY <1>8, <1>9, <1>11 DEF AbiInv

(***************************************************************************)
(* How a call begins.                                                      *)
(***************************************************************************)
Gives == {"nothing", "borrowed", "hostCall", "number", "event", "text", "bytes"}

LEMMA CallBegun ==
    ASSUME CallKept, call = NoCall, NEW w \in Wrappers, NEW p \in Handles \cup {Nil},
           p # Nil => peer[p].of = w,
           NEW c, c.ins \in Nat, c.cells \in Nat, c.gives \in Gives, Calls(w, p, c),
           UNCHANGED <<heap, lost, flaws, peer>>, drives' # <<>>
    PROVE  CallKept'
<1>1. /\ call' = [at |-> IF c.ins + c.cells = 0 THEN "ask" ELSE "alloc", w |-> w, p |-> p,
                  needs |-> c.ins + c.cells, gives |-> c.gives, ptrs |-> <<>>, got |-> Nil,
                  result |-> "none"]
  BY DEF Calls, NewCall
<1>2. <<>> \in Seq(Blocks) /\ Range(<<>>) = {}
  BY EmptySeq DEF Range
<1>3. c.ins + c.cells \in Nat
  OBVIOUS
<1>4. /\ call' \in CallRecords /\ call'.at # "none" /\ call'.ptrs = <<>> /\ call'.got = Nil
      /\ call'.p = p /\ call'.w = w
  BY <1>1, <1>2, <1>3 DEF CallRecords, Gives
<1>5. call' # NoCall
  BY <1>4 DEF NoCall
<1>6. CallBlocks = {} /\ CallBlocks' = {}
  BY <1>2, <1>4, <1>5 DEF CallBlocks
<1>7. Used' = Used
  BY DEF Used
<1> QED BY <1>1, <1>4, <1>5, <1>6, <1>7 DEF CallKept

LEMMA NextCallKeeps == ASSUME AbiInv, NextCall PROVE AbiInv'
<1>1. /\ call = NoCall /\ drives # <<>> /\ UNCHANGED <<lifeVars, heap, drives, lost, flaws>>
      /\ Top.stage \in Stages
      /\ \E c \in {PushFrame, PopL3Event, PopOutFrame} : Calls(peer[Top.p].of, Top.p, c)
  BY DEF NextCall, Stages
<1>2. UNCHANGED <<wrapper, peer, heap, drives, lost, flaws>>
  BY <1>1 DEF lifeVars
<1>3. Top.p \in Handles /\ peer[Top.p].of \in Wrappers
  BY <1>1, DrivesFront DEF AbiInv, PeersKept
<1>4. PICK c \in {PushFrame, PopL3Event, PopOutFrame} : Calls(peer[Top.p].of, Top.p, c)
  BY <1>1
<1>5. c.ins \in Nat /\ c.cells \in Nat /\ c.gives \in Gives
  BY <1>4 DEF PushFrame, PopL3Event, PopOutFrame, Call, Gives
<1> DEFINE p == Top.p
           w == peer[p].of
<1>6. Calls(w, p, c) /\ p \in Handles /\ w \in Wrappers /\ peer[p].of = w
  BY <1>3, <1>4
<1> HIDE DEF p, w
<1>7. CallKept'
  BY <1>1, <1>2, <1>5, <1>6, CallBegun DEF AbiInv
<1>8. CellsKept' /\ PeersKept' /\ LivesKept' /\ DrivesKept'
  BY <1>1, <1>2, LivesStay, CellsStay, DrivesStay DEF AbiInv, CellsKept
<1> QED BY <1>7, <1>8 DEF AbiInv

LEMMA DirectGives ==
    ASSUME NEW w, NEW c \in Direct(w) PROVE c.ins \in Nat /\ c.cells \in Nat /\ c.gives \in Gives
  BY DEF Direct, Gives, Call, RespondHostCallResults, RespondHostCallReturnFrame,
         RespondHostCallException, SendFinishOrRelease, SendProvide, SendAccept,
         SendThirdPartyAnswer, RegisterPendingThirdPartyAwait, SetBootstrapStubWithId,
         ProvisionsAndCancellation, SchemaManifestJson, PopHostCall, PopHostCallFallback

LEMMA SingleBegun ==
    ASSUME AbiInv, call = NoCall, Len(drives) < MaxDepth, NEW w \in Wrappers,
           NEW p \in Handles \cup {Nil}, NEW q \in Handles \cup {Nil}, p # Nil => peer[p].of = w,
           NEW c, c.ins \in Nat, c.cells \in Nat, c.gives \in Gives, Calls(w, p, c),
           drives' = Append(drives, [p |-> q, stage |-> "single", pushes |-> FALSE, drained |-> 0]),
           UNCHANGED <<lifeVars, heap, lost, flaws>>
    PROVE  AbiInv'
<1> DEFINE d == [p |-> q, stage |-> "single", pushes |-> FALSE, drained |-> 0]
<1>1. d \in DriveRecords /\ d.stage \notin Stages
  BY DEF DriveRecords, Stages
<1>2. UNCHANGED <<wrapper, peer, heap, lost, flaws>>
  BY DEF lifeVars
<1> HIDE DEF d
<1>3. DrivesKept' /\ drives' # <<>>
  BY <1>1, <1>2, DrivesBegun DEF AbiInv, d
<1>4. CallKept'
  BY <1>2, <1>3, CallBegun DEF AbiInv
<1>5. CellsKept' /\ PeersKept' /\ LivesKept'
  BY <1>2, LivesStay, CellsStay DEF AbiInv, CellsKept
<1> QED BY <1>3, <1>4, <1>5 DEF AbiInv

LEMMA DirectCallKeeps == ASSUME AbiInv, NEW p \in Handles, DirectCall(p) PROVE AbiInv'
<1>1. PICK c \in Direct(peer[p].of) :
          Calls(peer[p].of, IF c = SchemaManifestJson THEN Nil ELSE p, c)
  BY DEF DirectCall
<1>2. c.ins \in Nat /\ c.cells \in Nat /\ c.gives \in Gives
  BY DirectGives
<1> DEFINE q == IF c = SchemaManifestJson THEN Nil ELSE p
           w == peer[p].of
<1>3. q \in Handles \cup {Nil} /\ w \in Wrappers /\ (q # Nil => peer[q].of = w) /\ Calls(w, q, c)
  BY <1>1 DEF DirectCall, AbiInv, PeersKept
<1>4. /\ call = NoCall /\ Len(drives) < MaxDepth /\ UNCHANGED <<lifeVars, heap, lost, flaws>>
      /\ drives' = Append(drives, [p |-> p, stage |-> "single", pushes |-> FALSE, drained |-> 0])
  BY DEF DirectCall, MayAct
<1> HIDE DEF q, w
<1> QED BY <1>2, <1>3, <1>4, SingleBegun

LEMMA SerdeCallKeeps == ASSUME AbiInv, NEW w \in Wrappers, SerdeCall(w) PROVE AbiInv'
<1>1. CallSerde.ins \in Nat /\ CallSerde.cells \in Nat /\ CallSerde.gives \in Gives
  BY DEF CallSerde, Call, Gives
<1>2. /\ call = NoCall /\ Len(drives) < MaxDepth /\ UNCHANGED <<lifeVars, heap, lost, flaws>>
      /\ drives' = Append(drives, [p |-> Nil, stage |-> "single", pushes |-> FALSE, drained |-> 0])
      /\ Calls(w, Nil, CallSerde) /\ Nil \in Handles \cup {Nil}
  BY DEF SerdeCall, MayAct
<1> QED BY <1>1, <1>2, SingleBegun

\* Steps outside of a call, which take no block that a call has.
LEMMA CallIdle ==
    ASSUME CallKept, call = NoCall, UNCHANGED <<call, lost>>,
           flaws' = {},
           \A b \in Blocks : heap[b] \in {"call", "module"} <=> heap'[b] \in {"call", "module"}
    PROVE  CallKept'
<1>1. CallBlocks = {} /\ CallBlocks' = {}
  BY DEF CallBlocks
<1>2. Used' = Used
  BY DEF Used
<1> QED BY <1>1, <1>2 DEF CallKept

LEMMA PeerOperationKeeps == ASSUME AbiInv, NEW p \in Handles, PeerOperation(p) PROVE AbiInv'
<1>1. PICK stage \in {"push", "events", "frames"} : Starts(p, stage)
  BY DEF PeerOperation
<1> DEFINE d == [p |-> p, stage |-> stage, pushes |-> stage = "push", drained |-> 0]
<1>2. d \in DriveRecords /\ d.p = p
  BY <1>1 DEF DriveRecords, Stages
<1>3. /\ call = NoCall /\ Len(drives) < MaxDepth /\ drives' = Append(drives, d)
      /\ UNCHANGED <<wrapper, members, peer, alive, moduleUp, heap, call, lost, flaws>>
  BY <1>1 DEF Starts, MayAct, lifeVars
<1>4. peer[p].of # Nil
  BY <1>1 DEF Starts, AbiInv, PeersKept
<1> HIDE DEF d
<1>5. DrivesKept'
  BY <1>2, <1>3, <1>4, DrivesBegun DEF AbiInv
<1>6. CellsKept' /\ PeersKept' /\ LivesKept'
  BY <1>3, LivesStay, CellsStay DEF AbiInv, CellsKept, lifeVars
<1>7. CallKept'
  BY <1>3, CallIdle DEF AbiInv, CallKept
<1> QED BY <1>5, <1>6, <1>7 DEF AbiInv

LEMMA ListenedKeeps == ASSUME AbiInv, Listened PROVE AbiInv'
<1>1. /\ call = NoCall /\ drives # <<>> /\ Top.stage = "listening"
      /\ UNCHANGED <<wrapper, members, peer, alive, moduleUp, heap, call, lost, flaws>>
  BY DEF Listened, lifeVars
<1> DEFINE d == [Top EXCEPT !.stage = "events"]
<1>2. drives' = Append(Front(drives), d) \/ drives' = Front(drives)
  BY DEF Listened
<1>3. Top \in DriveRecords /\ (Top.stage \in Stages => Top.p \in Handles /\ peer[Top.p].of # Nil)
  BY <1>1, DrivesFront DEF AbiInv
<1>4. d \in DriveRecords /\ d.p \in Handles /\ peer[d.p].of # Nil
  BY <1>1, <1>3 DEF DriveRecords, Stages
<1> HIDE DEF d
<1>5. DrivesKept'
  BY <1>1, <1>2, <1>4, DrivesReplaced DEF AbiInv
<1>6. CellsKept' /\ PeersKept' /\ LivesKept'
  BY <1>1, LivesStay, CellsStay DEF AbiInv, CellsKept, lifeVars
<1>7. CallKept'
  BY <1>1, CallIdle DEF AbiInv, CallKept
<1> QED BY <1>5, <1>6, <1>7 DEF AbiInv

(***************************************************************************)
(* The steps that make wrappers and peers.                                 *)
(***************************************************************************)
LEMMA DrivesWait ==
    ASSUME DrivesKept, UNCHANGED drives, \A p \in Handles : peer[p].of # Nil => peer'[p].of # Nil
    PROVE  DrivesKept'
  BY DEF DrivesKept

\* A handle of nobody is the next one that the module gives.
LEMMA NextHandle == ASSUME HasHandle PROVE NewHandle \in Handles /\ peer[NewHandle].of = Nil
<1>1. {p \in Handles : peer[p].of = Nil} \in SUBSET Nat /\ {p \in Handles : peer[p].of = Nil} # {}
  BY AbiAssumption DEF HasHandle
<1>2. NewHandle \in {p \in Handles : peer[p].of = Nil}
  BY <1>1, LeastOne DEF NewHandle
<1> QED BY <1>2

\* What a constructor takes for one of its pointers: a free block or none.
LEMMA ScratchIs ==
    ASSUME CellsKept, NEW wanted \in BOOLEAN, NEW taken
    PROVE  \E x \in Blocks \cup {Nil} :
               /\ x # Nil => heap[x] = "free" /\ x \notin taken
               /\ Scratch(wanted, taken) = {x} \ {Nil} /\ Pointer(Scratch(wanted, taken)) = x
<1>1. CASE wanted /\ FreeBlocks \ taken # {}
  <2> DEFINE x == Min(FreeBlocks \ taken)
  <2>1. FreeBlocks \ taken \in SUBSET Nat
    BY AbiAssumption DEF FreeBlocks
  <2>2. x \in FreeBlocks \ taken
    BY <1>1, <2>1, LeastOne
  <2>3. x \in Blocks /\ heap[x] = "free" /\ x \notin taken /\ x # Nil /\ x \in Nat
    BY <2>2, AbiAssumption DEF FreeBlocks, Nil
  <2>4. Scratch(wanted, taken) = {x}
    BY <1>1 DEF Scratch
  <2> HIDE DEF x
  <2>5. {x} \in SUBSET Nat /\ {x} # {}
    BY <2>3
  <2>6. Min({x}) = x
    BY <2>5, LeastOne
  <2>7. Pointer({x}) = x
    BY <2>6 DEF Pointer
  <2> QED BY <2>3, <2>4, <2>7
<1>2. CASE ~(wanted /\ FreeBlocks \ taken # {})
  BY <1>2 DEF Scratch, Pointer
<1> QED BY <1>1, <1>2

\* A wrapper that was not open takes free blocks for its own.
LEMMA CellsGained ==
    ASSUME CellsKept, NEW w \in Wrappers, ~Open(w),
           wrapper' \in [Wrappers -> WrapperRecords],
           \A v \in Wrappers : v # w => wrapper'[v] = wrapper[v],
           \A f \in Fields : wrapper'[w][f] # Nil =>
               /\ wrapper'[w].life = "open"
               /\ wrapper'[w][f] \in Blocks /\ heap[wrapper'[w][f]] = "free",
           \A f, g \in Fields :
               wrapper'[w][f] # Nil /\ wrapper'[w][f] = wrapper'[w][g] => f = g,
           heap' = [b \in Blocks |-> IF \E f \in Fields : wrapper'[w][f] = b
                                     THEN "scratch" ELSE heap[b]]
    PROVE  /\ CellsKept'
           /\ \A b \in Blocks : heap[b] \in {"call", "module"} <=> heap'[b] \in {"call", "module"}
<1>1. Nil \notin Blocks
  BY AbiAssumption DEF Nil
<1>2. \A f \in Fields : wrapper[w][f] = Nil
  BY DEF CellsKept
<1>3. /\ heap' \in [Blocks -> {"free", "scratch", "call", "module"}]
      /\ \A b \in Blocks : heap'[b] = IF \E f \in Fields : wrapper'[w][f] = b
                                      THEN "scratch" ELSE heap[b]
  BY DEF CellsKept
<1>4. \A b \in Blocks : heap[b] = "scratch" => heap'[b] = "scratch"
  BY <1>3
<1>5. \A v \in Wrappers, f \in Fields : v # w /\ wrapper[v][f] # Nil =>
          wrapper[v][f] \in Blocks /\ heap[wrapper[v][f]] = "scratch" /\ Open(v)
  BY CellsTyped DEF CellsKept
<1>6. ASSUME NEW v \in Wrappers, NEW f \in Fields, wrapper'[v][f] # Nil
      PROVE  wrapper'[v].life = "open" /\ heap'[wrapper'[v][f]] = "scratch"
  <2>1. CASE v = w
    BY <1>3, <1>6, <2>1
  <2>2. CASE v # w
    BY <1>4, <1>5, <1>6, <2>2 DEF Open
  <2> QED BY <2>1, <2>2
<1>7. ASSUME NEW u \in Wrappers, NEW v \in Wrappers, NEW f \in Fields, NEW g \in Fields,
             wrapper'[u][f] # Nil, wrapper'[u][f] = wrapper'[v][g]
      PROVE  u = v /\ f = g
  <2>1. CASE u = w /\ v = w
    BY <1>7, <2>1
  <2>2. CASE u # w /\ v # w
    BY <1>7, <2>2 DEF CellsKept
  <2>3. CASE u = w /\ v # w
    <3>1. heap[wrapper'[u][f]] = "free" /\ wrapper[v][g] = wrapper'[u][f]
      BY <1>7, <2>3
    <3> QED BY <1>5, <1>7, <2>3, <3>1
  <2>4. CASE u # w /\ v = w
    <3>1. heap[wrapper'[v][g]] = "free" /\ wrapper[u][f] = wrapper'[v][g]
      BY <1>7, <2>4
    <3> QED BY <1>5, <1>7, <2>4, <3>1
  <2> QED BY <2>1, <2>2, <2>3, <2>4
<1>8. ASSUME NEW b \in Blocks, heap'[b] = "scratch"
      PROVE  \E v \in Wrappers, f \in Fields : wrapper'[v][f] = b
  <2>1. CASE \E f \in Fields : wrapper'[w][f] = b
    BY <2>1
  <2>2. CASE heap[b] = "scratch"
    <3>1. PICK v \in Wrappers, f \in Fields : wrapper[v][f] = b
      BY <2>2 DEF CellsKept
    <3>2. v # w
      BY <1>1, <1>2, <3>1
    <3> QED BY <3>1, <3>2
  <2> QED BY <1>3, <1>8, <2>1, <2>2
<1>9. CellsKept'
  BY <1>3, <1>6, <1>7, <1>8 DEF CellsKept, Open
<1>10. \A b \in Blocks : heap'[b] # heap[b] => heap[b] = "free" /\ heap'[b] = "scratch"
  BY <1>1, <1>3
<1> QED BY <1>9, <1>10

\* A peer is made for a wrapper that is open and not asked to close.
LEMMA PeerMade ==
    ASSUME PeersKept, LivesKept, NEW w \in Wrappers, NEW n \in Handles, NEW owns \in BOOLEAN,
           peer[n].of = Nil, moduleUp, UNCHANGED moduleUp,
           members' = [members EXCEPT ![w] = members[w] \cup {n}],
           peer' = [peer EXCEPT ![n] = [of |-> w, owns |-> owns, closed |-> FALSE]],
           alive' = alive \cup {n},
           \A v \in Wrappers : v # w => wrapper'[v] = wrapper[v],
           wrapper'[w] = wrapper[w] \/ \A p \in Handles : peer[p].of # w,
           wrapper'[w].life = "open", ~wrapper'[w].closing,
           owns => wrapper'[w].as # "serde",
           wrapper'[w].as # "serde" => wrapper'[w].pair = Nil
    PROVE  PeersKept' /\ LivesKept'
<1>1. w # Nil /\ peer[n].closed /\ n \notin alive /\ \A v \in Wrappers : n \notin members[v]
  BY AbiAssumption DEF PeersKept, Nil
<1>2. /\ members' \in [Wrappers -> SUBSET Handles] /\ alive' \subseteq Handles
      /\ peer' \in [Handles -> [of : Wrappers \cup {Nil}, owns : BOOLEAN, closed : BOOLEAN]]
  BY DEF PeersKept
<1>3. /\ peer'[n].of = w /\ peer'[n].owns = owns /\ ~peer'[n].closed
      /\ \A p \in Handles : p # n => peer'[p] = peer[p]
  BY DEF PeersKept
<1>4. /\ members'[w] = members[w] \cup {n}
      /\ \A v \in Wrappers : v # w => members'[v] = members[v]
  BY DEF PeersKept
<1>5. \A p \in Handles : p \in alive' <=> ~peer'[p].closed
  BY <1>3 DEF PeersKept
<1>6. \A v \in Wrappers, p \in Handles : p \in members'[v] <=> p \in alive' /\ peer'[p].of = v
  BY <1>1, <1>3, <1>4 DEF PeersKept
<1>7. PeersKept'
  BY <1>1, <1>2, <1>3, <1>5, <1>6 DEF PeersKept
<1>8. \A v \in Wrappers :
          /\ members'[v] # {} => wrapper'[v].life = "open"
          /\ wrapper'[v].life = "open" /\ wrapper'[v].closing => members'[v] # {} /\ wrapper'[v].pair = Nil
          /\ wrapper'[v].as # "serde" => wrapper'[v].pair = Nil
  BY <1>4 DEF LivesKept, Open
<1>9. ASSUME NEW p \in Handles, peer'[p].of # Nil
      PROVE  /\ wrapper'[peer'[p].of].life # "none"
             /\ peer'[p].owns => wrapper'[peer'[p].of].as # "serde"
             /\ peer'[p].owns /\ peer'[p].closed /\ wrapper'[peer'[p].of].life = "open" =>
                    wrapper'[peer'[p].of].closing
  <2>1. CASE p = n
    BY <1>3, <2>1
  <2>2. CASE p # n
    <3>1. peer'[p] = peer[p] /\ peer[p].of \in Wrappers
      BY <1>3, <1>9, <2>2 DEF PeersKept
    <3>2. wrapper'[peer[p].of] = wrapper[peer[p].of]
      BY <3>1
    <3> QED BY <1>9, <3>1, <3>2 DEF LivesKept, Open
  <2> QED BY <2>1, <2>2
<1> QED BY <1>7, <1>8, <1>9 DEF LivesKept, Open

LEMMA CreatePeerKeeps == ASSUME AbiInv, NEW w \in Wrappers, CreatePeer(w) PROVE AbiInv'
<1> DEFINE n == NewHandle
<1>1. n \in Handles /\ peer[n].of = Nil
  BY NextHandle DEF CreatePeer
<1>2. /\ call = NoCall /\ Open(w) /\ ~wrapper[w].closing
      /\ members' = [members EXCEPT ![w] = @ \cup {n}]
      /\ peer' = [peer EXCEPT ![n] = [of |-> w, owns |-> FALSE, closed |-> FALSE]]
      /\ alive' = alive \cup {n}
      /\ UNCHANGED <<wrapper, moduleUp, heap, drives, call, lost, flaws>>
  BY DEF CreatePeer, MayAct
<1> HIDE DEF n
<1>3. moduleUp
  BY <1>2 DEF AbiInv, PeersKept
<1>4. wrapper[w].life = "open" /\ (wrapper[w].as # "serde" => wrapper[w].pair = Nil)
  BY <1>2 DEF AbiInv, LivesKept, Open
<1>5. PeersKept' /\ LivesKept'
  <2>1. members' = [members EXCEPT ![w] = members[w] \cup {n}] /\ wrapper' = wrapper
    BY <1>2
  <2> QED BY <1>1, <1>2, <1>3, <1>4, <2>1, PeerMade DEF AbiInv
<1>6. \A p \in Handles : peer[p].of # Nil => peer'[p].of # Nil
  BY <1>1, <1>2
<1>7. DrivesKept'
  BY <1>2, <1>6, DrivesWait DEF AbiInv
<1>8. CellsKept'
  BY <1>2, CellsStay DEF AbiInv, CellsKept
<1>9. CallKept'
  BY <1>2, CallIdle DEF AbiInv, CallKept
<1> QED BY <1>5, <1>7, <1>8, <1>9 DEF AbiInv

LEMMA ConstructKeeps ==
    ASSUME AbiInv, NEW w \in Wrappers, NEW as \in {"factory", "plain", "serde"},
           NEW roomy \in BOOLEAN, NEW made \in BOOLEAN, Construct(w, as, roomy, made)
    PROVE  AbiInv'
<1>1. /\ call = NoCall /\ moduleUp /\ wrapper[w].life = "none" /\ ~Open(w)
      /\ UNCHANGED <<moduleUp, drives, call, lost, flaws>>
  BY DEF Construct, MayAct, Open
<1>2. /\ \A p \in Handles : peer[p].of # w
      /\ \A f \in Fields : wrapper[w][f] = Nil
      /\ members[w] = {} /\ w # Nil
  BY <1>1, AbiAssumption DEF AbiInv, LivesKept, CellsKept, Nil
<1>3. NoWrapper \in WrapperRecords /\ wrapper \in [Wrappers -> WrapperRecords]
  BY DEF NoWrapper, WrapperRecords, AbiInv, CellsKept
<1>4. CASE ~made
  <2> DEFINE r == [NoWrapper EXCEPT !.life = "closed"]
  <2>1. /\ wrapper' = [wrapper EXCEPT ![w] = r] /\ UNCHANGED <<heap, members, peer, alive>>
    BY <1>4 DEF Construct
  <2>2. /\ r \in WrapperRecords /\ r.life = "closed" /\ ~r.closing /\ r.pair = Nil
        /\ r.errorTake = Nil /\ r.hostCall = Nil
    BY <1>3 DEF NoWrapper, WrapperRecords
  <2> HIDE DEF r
  <2>3. /\ wrapper' \in [Wrappers -> WrapperRecords] /\ wrapper'[w] = r
        /\ \A v \in Wrappers : v # w => wrapper'[v] = wrapper[v]
    BY <1>3, <2>1, <2>2
  <2>4. \A f \in Fields : wrapper'[w][f] = Nil
    BY <2>2, <2>3 DEF Fields
  <2>5. \A v \in Wrappers, f \in Fields : wrapper'[v][f] = wrapper[v][f]
    BY <1>2, <2>3, <2>4
  <2>6. \A v \in Wrappers : Open(v)' <=> Open(v)
    BY <1>1, <2>2, <2>3 DEF Open
  <2>7. CellsKept'
    BY <2>1, <2>3, <2>5, <2>6 DEF AbiInv, CellsKept
  <2>8. PeersKept'
    BY <1>1, <2>1, <2>6 DEF AbiInv, PeersKept
  <2>9. LivesKept'
    <3>1. \A v \in Wrappers :
              /\ members[v] # {} => Open(v)'
              /\ Open(v)' /\ wrapper'[v].closing => members[v] # {} /\ wrapper'[v].pair = Nil
              /\ wrapper'[v].as # "serde" => wrapper'[v].pair = Nil
      BY <1>2, <2>2, <2>3, <2>6 DEF AbiInv, LivesKept
    <3>2. \A p \in Handles : peer[p].of # Nil => wrapper'[peer[p].of] = wrapper[peer[p].of]
      BY <1>2, <2>3 DEF AbiInv, PeersKept
    <3>3. \A p \in Handles : peer[p].of # Nil => (wrapper'[peer[p].of].life = "open" <=> Open(peer[p].of))
      BY <3>2 DEF Open
    <3>4. ASSUME NEW p \in Handles, peer[p].of # Nil
          PROVE  /\ wrapper'[peer[p].of].life # "none"
                 /\ peer[p].owns => wrapper'[peer[p].of].as # "serde"
                 /\ peer[p].owns /\ peer[p].closed /\ wrapper'[peer[p].of].life = "open" => wrapper'[peer[p].of].closing
      BY <3>2, <3>3, <3>4 DEF AbiInv, LivesKept
    <3> QED BY <2>1, <3>1, <3>4 DEF LivesKept, Open
  <2>10. DrivesKept' /\ CallKept'
    BY <1>1, <2>1, DrivesStay, CallIdle DEF AbiInv, CallKept
  <2> QED BY <2>7, <2>8, <2>9, <2>10 DEF AbiInv
<1>5. CASE made
  <2> DEFINE E == Scratch(roomy, {})
             H == Scratch(roomy, E)
             S == Scratch(as = "serde", E \cup H)
  <2>1. CellsKept
    BY DEF AbiInv
  <2>2. PICK e \in Blocks \cup {Nil} :
            (e # Nil => heap[e] = "free") /\ E = {e} \ {Nil} /\ Pointer(E) = e
    BY <2>1, ScratchIs
  <2>3. PICK h \in Blocks \cup {Nil} :
            (h # Nil => heap[h] = "free" /\ h \notin E) /\ H = {h} \ {Nil} /\ Pointer(H) = h
    <3> HIDE DEF E
    <3> QED BY <2>1, ScratchIs
  <2>4. PICK s \in Blocks \cup {Nil} :
            /\ s # Nil => heap[s] = "free" /\ s \notin E \cup H
            /\ S = {s} \ {Nil} /\ Pointer(S) = s
    <3> HIDE DEF E, H
    <3>1. (as = "serde") \in BOOLEAN
      OBVIOUS
    <3> QED BY <2>1, <3>1, ScratchIs
  <2>5. as # "serde" => s = Nil
    BY <2>4, AbiAssumption DEF Scratch, Pointer
  <2> DEFINE r == [NoWrapper EXCEPT !.life = "open", !.as = as, !.errorTake = e,
                                    !.hostCall = h, !.pair = s]
  <2>6. /\ wrapper' = [wrapper EXCEPT ![w] = r]
        /\ heap' = [b \in Blocks |-> IF b \in E \cup H \cup S THEN "scratch" ELSE heap[b]]
    BY <1>5, <2>2, <2>3, <2>4 DEF Construct
  <2>7. /\ r \in WrapperRecords /\ r.life = "open" /\ r.as = as /\ ~r.closing
        /\ r.errorTake = e /\ r.hostCall = h /\ r.pair = s
    BY <1>3 DEF NoWrapper, WrapperRecords
  <2> HIDE DEF E, H, S, r
  <2>8. /\ wrapper' \in [Wrappers -> WrapperRecords] /\ wrapper'[w] = r
        /\ \A v \in Wrappers : v # w => wrapper'[v] = wrapper[v]
    BY <1>3, <2>6, <2>7
  <2>9. Nil \notin Blocks
    BY AbiAssumption DEF Nil
  <2>10. \A b \in Blocks : b \in E \cup H \cup S <=> \E f \in Fields : wrapper'[w][f] = b
    BY <2>2, <2>3, <2>4, <2>7, <2>8, <2>9 DEF Fields
  <2>11. heap' = [b \in Blocks |-> IF \E f \in Fields : wrapper'[w][f] = b
                                   THEN "scratch" ELSE heap[b]]
    BY <2>6, <2>10
  <2>12. \A f \in Fields : wrapper'[w][f] # Nil =>
             wrapper'[w].life = "open" /\ wrapper'[w][f] \in Blocks /\ heap[wrapper'[w][f]] = "free"
    BY <2>2, <2>3, <2>4, <2>7, <2>8 DEF Fields
  <2>13. \A f, g \in Fields : wrapper'[w][f] # Nil /\ wrapper'[w][f] = wrapper'[w][g] => f = g
    BY <2>2, <2>3, <2>4, <2>7, <2>8 DEF Fields
  <2>14. /\ CellsKept'
         /\ \A b \in Blocks : heap[b] \in {"call", "module"} <=> heap'[b] \in {"call", "module"}
    BY <1>1, <2>1, <2>8, <2>11, <2>12, <2>13, CellsGained
  <2>15. CallKept'
    BY <1>1, <2>14, CallIdle DEF AbiInv, CallKept
  <2>16. PeersKept' /\ LivesKept' /\ DrivesKept'
    <3>1. CASE as = "factory"
      <4> DEFINE n == NewHandle
      <4>1. n \in Handles /\ peer[n].of = Nil
        BY <1>5, <3>1, NextHandle DEF Construct
      <4>2. /\ members' = [members EXCEPT ![w] = {n}]
            /\ peer' = [peer EXCEPT ![n] = [of |-> w, owns |-> TRUE, closed |-> FALSE]]
            /\ alive' = alive \cup {n}
        BY <1>5, <3>1 DEF Construct
      <4> HIDE DEF n
      <4>3. members' = [members EXCEPT ![w] = members[w] \cup {n}]
        BY <1>2, <4>2
      <4>4. /\ wrapper'[w].life = "open" /\ ~wrapper'[w].closing /\ wrapper'[w].as # "serde"
            /\ wrapper'[w].pair = Nil
        BY <2>5, <2>7, <2>8, <3>1
      <4>5. PeersKept' /\ LivesKept'
        BY <1>1, <1>2, <2>8, <4>1, <4>2, <4>3, <4>4, PeerMade DEF AbiInv
      <4>6. \A p \in Handles : peer[p].of # Nil => peer'[p].of # Nil
        BY <4>1, <4>2
      <4> QED BY <1>1, <4>5, <4>6, DrivesWait DEF AbiInv
    <3>2. CASE as # "factory"
      <4>1. UNCHANGED <<members, peer, alive>>
        BY <3>2 DEF Construct
      <4>2. /\ wrapper'[w].life = "open" /\ ~wrapper'[w].closing
            /\ wrapper'[w].as # "serde" => wrapper'[w].pair = Nil
        BY <2>5, <2>7, <2>8
      <4>3. PeersKept'
        BY <1>1, <4>1 DEF AbiInv, PeersKept
      <4>4. \A v \in Wrappers :
                /\ members[v] # {} => Open(v)'
                /\ Open(v)' /\ wrapper'[v].closing => members[v] # {} /\ wrapper'[v].pair = Nil
                /\ wrapper'[v].as # "serde" => wrapper'[v].pair = Nil
        BY <1>2, <2>8, <4>2 DEF AbiInv, LivesKept, Open
      <4>5. \A p \in Handles : peer[p].of # Nil => wrapper'[peer[p].of] = wrapper[peer[p].of]
        BY <1>2, <2>8 DEF AbiInv, PeersKept
      <4>6. \A p \in Handles : peer[p].of # Nil => (wrapper'[peer[p].of].life = "open" <=> Open(peer[p].of))
        BY <4>5 DEF Open
      <4>7. ASSUME NEW p \in Handles, peer[p].of # Nil
            PROVE  /\ wrapper'[peer[p].of].life # "none"
                   /\ peer[p].owns => wrapper'[peer[p].of].as # "serde"
                   /\ peer[p].owns /\ peer[p].closed /\ wrapper'[peer[p].of].life = "open" =>
                          wrapper'[peer[p].of].closing
        BY <4>5, <4>6, <4>7 DEF AbiInv, LivesKept
      <4>8. LivesKept'
        BY <4>1, <4>4, <4>7 DEF LivesKept, Open
      <4> QED BY <1>1, <4>1, <4>3, <4>8, DrivesStay DEF AbiInv
    <3> QED BY <3>1, <3>2
  <2> QED BY <2>14, <2>15, <2>16 DEF AbiInv
<1> QED BY <1>4, <1>5

(***************************************************************************)
(* The steps that close peers and wrappers.                                *)
(***************************************************************************)
\* What CloseWith and CloseWhenUnused are given: the wrappers, but for the serde's pair
\* and for the request to close, as they are, and the blocks that stood in the pair.
Given(ws, w, blocks) ==
    /\ ws \in [Wrappers -> WrapperRecords]
    /\ \A v \in Wrappers : v # w => ws[v] = wrapper[v]
    /\ ws[w].life = wrapper[w].life /\ ws[w].as = wrapper[w].as
    /\ ws[w].errorTake = wrapper[w].errorTake /\ ws[w].hostCall = wrapper[w].hostCall
    /\ ws[w].pair = Nil /\ blocks = {wrapper[w].pair} \ {Nil}

\* The wrapper is closed and has none of its blocks.
LEMMA CellsClosed ==
    ASSUME CellsKept, NEW w \in Wrappers, NEW ws, NEW blocks, Given(ws, w, blocks),
           flaws = {}, CloseWith(ws, w, blocks)
    PROVE  /\ CellsKept' /\ flaws' = {}
           /\ \A b \in Blocks : heap[b] \in {"call", "module"} <=> heap'[b] \in {"call", "module"}
           /\ \A v \in Wrappers : v # w => wrapper'[v] = wrapper[v]
           /\ wrapper'[w].life = "closed" /\ wrapper'[w].as = wrapper[w].as
           /\ wrapper'[w].pair = Nil /\ wrapper'[w].closing = ws[w].closing
<1> DEFINE r == [ws[w] EXCEPT !.life = "closed", !.errorTake = Nil, !.hostCall = Nil]
<1>1. ws \in [Wrappers -> WrapperRecords] /\ ws[w] \in WrapperRecords
  BY DEF Given
<1>2. wrapper' = [ws EXCEPT ![w] = r]
  BY <1>1 DEF CloseWith, Closed
<1>3. /\ r \in WrapperRecords /\ r.life = "closed" /\ r.errorTake = Nil /\ r.hostCall = Nil
      /\ r.pair = ws[w].pair /\ r.as = ws[w].as /\ r.closing = ws[w].closing
  BY <1>1 DEF WrapperRecords
<1> HIDE DEF r
<1>4. /\ wrapper' \in [Wrappers -> WrapperRecords] /\ wrapper'[w] = r
      /\ \A v \in Wrappers : v # w => wrapper'[v] = wrapper[v]
  BY <1>1, <1>2, <1>3 DEF Given
<1>5. \A f \in Fields : wrapper'[w][f] = Nil
  BY <1>3, <1>4 DEF Fields, Given
<1>6. {wrapper[w][f] : f \in Fields} \ {Nil} = ScratchOf(w) \cup blocks
  BY DEF Fields, ScratchOf, Given
<1>7. heap' = Freed(heap, {wrapper[w][f] : f \in Fields} \ {Nil})
  BY <1>6 DEF CloseWith
<1>8. \A f \in Fields : wrapper'[w][f] = IF f \in Fields THEN Nil ELSE wrapper[w][f]
  BY <1>5
<1>9. /\ CellsKept' /\ BadFrees(heap, {wrapper[w][f] : f \in Fields} \ {Nil}) = {}
      /\ \A b \in Blocks : heap[b] \in {"call", "module"} => heap'[b] = heap[b]
      /\ \A b \in Blocks : heap'[b] \in {"call", "module"} => heap'[b] = heap[b]
  <2>1. ~ \E f \in Fields : wrapper'[w][f] # Nil
    BY <1>5
  <2> QED BY <1>4, <1>7, <1>8, <2>1, CellsDropped
<1>10. flaws' = {}
  BY <1>6, <1>9 DEF CloseWith
<1> QED BY <1>3, <1>4, <1>9, <1>10 DEF Given

\* CloseWhenUnused for a wrapper that has peers.
Waits(ws, w, blocks) ==
    /\ wrapper' = [ws EXCEPT ![w].closing = @ \/ Open(w)]
    /\ heap' = Freed(heap, blocks) /\ flaws' = flaws \cup BadFrees(heap, blocks)

\* The wrapper stays and is asked to close; a serde's pair is freed at once.
LEMMA CellsWaiting ==
    ASSUME CellsKept, NEW w \in Wrappers, NEW ws, NEW blocks, Given(ws, w, blocks), Open(w),
           flaws = {}, Waits(ws, w, blocks)
    PROVE  /\ CellsKept' /\ flaws' = {}
           /\ \A b \in Blocks : heap[b] \in {"call", "module"} <=> heap'[b] \in {"call", "module"}
           /\ \A v \in Wrappers : v # w => wrapper'[v] = wrapper[v]
           /\ wrapper'[w].life = "open" /\ wrapper'[w].as = wrapper[w].as
           /\ wrapper'[w].pair = Nil /\ wrapper'[w].closing
<1> DEFINE r == [ws[w] EXCEPT !.closing = TRUE]
<1>1. ws \in [Wrappers -> WrapperRecords] /\ ws[w] \in WrapperRecords
  BY DEF Given
<1>2. wrapper' = [ws EXCEPT ![w] = r]
  <2>1. (ws[w].closing \/ Open(w)) = TRUE
    OBVIOUS
  <2> QED BY <1>1, <2>1 DEF Waits
<1>3. /\ r \in WrapperRecords /\ r.life = ws[w].life /\ r.closing /\ r.errorTake = ws[w].errorTake
      /\ r.hostCall = ws[w].hostCall /\ r.pair = ws[w].pair /\ r.as = ws[w].as
  BY <1>1 DEF WrapperRecords
<1> HIDE DEF r
<1>4. /\ wrapper' \in [Wrappers -> WrapperRecords] /\ wrapper'[w] = r
      /\ \A v \in Wrappers : v # w => wrapper'[v] = wrapper[v]
  BY <1>1, <1>2, <1>3 DEF Given
<1>5. PICK F \in SUBSET Fields :
          /\ {wrapper[w][f] : f \in F} \ {Nil} = blocks
          /\ \A f \in Fields : wrapper'[w][f] = IF f \in F THEN Nil ELSE wrapper[w][f]
  <2> DEFINE F == {"pair"}
  <2>1. F \in SUBSET Fields /\ {wrapper[w][f] : f \in F} \ {Nil} = blocks
    BY DEF Fields, Given
  <2>2. \A f \in Fields : wrapper'[w][f] = IF f \in F THEN Nil ELSE wrapper[w][f]
    BY <1>3, <1>4 DEF Fields, Given
  <2> QED BY <2>1, <2>2
<1>6. heap' = Freed(heap, {wrapper[w][f] : f \in F} \ {Nil})
  BY <1>5 DEF Waits
<1>7. wrapper'[w].life = "open"
  BY <1>3, <1>4 DEF Given, Open
<1>8. /\ CellsKept' /\ BadFrees(heap, {wrapper[w][f] : f \in F} \ {Nil}) = {}
      /\ \A b \in Blocks : heap[b] \in {"call", "module"} => heap'[b] = heap[b]
      /\ \A b \in Blocks : heap'[b] \in {"call", "module"} => heap'[b] = heap[b]
  <2>1. (\E f \in Fields : wrapper'[w][f] # Nil) => wrapper'[w].life = "open"
    BY <1>7
  <2>2. \A f \in Fields : wrapper'[w][f] = IF f \in F THEN Nil ELSE wrapper[w][f]
    BY <1>5
  <2> QED BY <1>4, <1>6, <2>1, <2>2, CellsDropped
<1>9. flaws' = {}
  BY <1>5, <1>8 DEF Waits
<1> QED BY <1>3, <1>4, <1>7, <1>8, <1>9 DEF Given

\* The peers after one of this wrapper has left it, or none has.
PeersFollow(w) ==
    /\ members' \in [Wrappers -> SUBSET Handles] /\ alive' \subseteq Handles
    /\ peer' \in [Handles -> [of : Wrappers \cup {Nil}, owns : BOOLEAN, closed : BOOLEAN]]
    /\ \A p \in Handles : peer'[p].of = peer[p].of /\ peer'[p].owns = peer[p].owns
    /\ \A p \in Handles : peer[p].closed => peer'[p].closed
    /\ \A p \in Handles : p \in alive' <=> ~peer'[p].closed
    /\ \A v \in Wrappers, p \in Handles : p \in members'[v] <=> p \in alive' /\ peer'[p].of = v
    /\ \A v \in Wrappers : v # w => members'[v] = members[v]
    /\ \A p \in Handles : peer[p].owns /\ peer'[p].closed /\ ~peer[p].closed =>
           wrapper'[w].life = "closed" \/ wrapper'[w].closing

\* A wrapper closes behind its last peer, or stays for those it has, which one of them
\* may have left.
LEMMA LivesChanged ==
    ASSUME PeersKept, LivesKept, NEW w \in Wrappers, Open(w),
           \A v \in Wrappers : v # w => wrapper'[v] = wrapper[v],
           wrapper'[w].as = wrapper[w].as, wrapper'[w].life \in {"open", "closed"},
           wrapper[w].as # "serde" => wrapper'[w].pair = Nil,
           wrapper'[w].closing => wrapper'[w].pair = Nil,
           wrapper'[w].life = "open" /\ wrapper'[w].closing => members'[w] # {},
           wrapper'[w].life = "closed" => members'[w] = {},
           wrapper[w].closing => wrapper'[w].life = "closed" \/ wrapper'[w].closing,
           \/ UNCHANGED <<peer, alive, members>>
           \/ \E p \in members[w] :
                  /\ peer' = [peer EXCEPT ![p].closed = TRUE] /\ alive' = alive \ {p}
                  /\ members' = [members EXCEPT ![w] = @ \ {p}]
                  /\ peer[p].owns => wrapper'[w].life = "closed" \/ wrapper'[w].closing,
           \/ UNCHANGED moduleUp
           \/ moduleUp' \in BOOLEAN /\ \A v \in Wrappers : wrapper'[v].life # "open"
    PROVE  PeersKept' /\ LivesKept'
<1>1. /\ members \in [Wrappers -> SUBSET Handles] /\ alive \subseteq Handles
      /\ peer \in [Handles -> [of : Wrappers \cup {Nil}, owns : BOOLEAN, closed : BOOLEAN]]
      /\ moduleUp \in BOOLEAN
  BY DEF PeersKept
<1>2. PeersFollow(w)
  <2>1. CASE UNCHANGED <<peer, alive, members>>
    BY <1>1, <2>1 DEF PeersKept, PeersFollow
  <2>2. ASSUME NEW p \in members[w],
               peer' = [peer EXCEPT ![p].closed = TRUE], alive' = alive \ {p},
               members' = [members EXCEPT ![w] = @ \ {p}],
               peer[p].owns => wrapper'[w].life = "closed" \/ wrapper'[w].closing
        PROVE  PeersFollow(w)
    <3> DEFINE r == [peer[p] EXCEPT !.closed = TRUE]
    <3>1. p \in Handles /\ p \in alive /\ peer[p].of = w /\ ~peer[p].closed
      BY <1>1, <2>2 DEF PeersKept
    <3>2. /\ r \in [of : Wrappers \cup {Nil}, owns : BOOLEAN, closed : BOOLEAN]
          /\ r.of = peer[p].of /\ r.owns = peer[p].owns /\ r.closed
      <4>1. peer[p] \in [of : Wrappers \cup {Nil}, owns : BOOLEAN, closed : BOOLEAN]
        BY <1>1, <3>1
      <4> QED BY <4>1
    <3>3. peer' = [peer EXCEPT ![p] = r]
      BY <2>2
    <3> HIDE DEF r
    <3>4. /\ peer' \in [Handles -> [of : Wrappers \cup {Nil}, owns : BOOLEAN, closed : BOOLEAN]]
          /\ peer'[p] = r /\ \A q \in Handles : q # p => peer'[q] = peer[q]
      BY <1>1, <3>1, <3>2, <3>3
    <3>5. /\ members' \in [Wrappers -> SUBSET Handles] /\ members'[w] = members[w] \ {p}
          /\ \A v \in Wrappers : v # w => members'[v] = members[v]
      BY <1>1, <2>2
    <3>6. \A q \in Handles : peer'[q].of = peer[q].of /\ peer'[q].owns = peer[q].owns
      BY <3>2, <3>4
    <3>7. \A q \in Handles : q \in alive' <=> ~peer'[q].closed
      BY <2>2, <3>2, <3>4 DEF PeersKept
    <3>8. \A v \in Wrappers, q \in Handles : q \in members'[v] <=> q \in alive' /\ peer'[q].of = v
      BY <2>2, <3>1, <3>5, <3>6 DEF PeersKept
    <3>9. \A q \in Handles : peer[q].closed => peer'[q].closed
      BY <3>2, <3>4
    <3>10. \A q \in Handles : peer[q].owns /\ peer'[q].closed /\ ~peer[q].closed => q = p
      BY <3>4
    <3> QED BY <1>1, <2>2, <3>4, <3>5, <3>6, <3>7, <3>8, <3>9, <3>10 DEF PeersFollow
  <2> QED BY <2>1, <2>2
<1>3. \A v \in Wrappers : wrapper'[v].life = "open" => Open(v)
  BY DEF Open
<1>4. PeersKept'
  BY <1>1, <1>2, <1>3 DEF PeersKept, PeersFollow, Open
<1>5. \A v \in Wrappers :
          /\ members'[v] # {} => wrapper'[v].life = "open"
          /\ wrapper'[v].life = "open" /\ wrapper'[v].closing =>
                 members'[v] # {} /\ wrapper'[v].pair = Nil
          /\ wrapper'[v].as # "serde" => wrapper'[v].pair = Nil
  BY <1>2 DEF LivesKept, PeersFollow, Open
<1>6. ASSUME NEW p \in Handles, peer'[p].of # Nil
      PROVE  /\ wrapper'[peer'[p].of].life # "none"
             /\ peer'[p].owns => wrapper'[peer'[p].of].as # "serde"
             /\ peer'[p].owns /\ peer'[p].closed /\ wrapper'[peer'[p].of].life = "open" =>
                    wrapper'[peer'[p].of].closing
  <2>1. peer'[p].of = peer[p].of /\ peer[p].of \in Wrappers /\ peer'[p].owns = peer[p].owns
    BY <1>1, <1>2, <1>6 DEF PeersFollow
  <2>2. CASE peer[p].of # w
    <3>1. wrapper'[peer[p].of] = wrapper[peer[p].of]
      BY <2>1, <2>2
    <3>2. peer[p].closed \/ ~peer'[p].closed
      BY <1>1, <1>2, <2>1, <2>2 DEF PeersKept, PeersFollow
    <3> QED BY <1>6, <2>1, <3>1, <3>2 DEF LivesKept, Open
  <2>3. CASE peer[p].of = w
    <3>1. peer[p].owns => wrapper'[w].as # "serde"
      BY <1>6, <2>1, <2>3 DEF LivesKept
    <3>2. peer[p].owns /\ peer[p].closed => wrapper[w].closing
      BY <1>6, <2>1, <2>3 DEF LivesKept
    <3> QED BY <1>2, <2>1, <2>3, <3>1, <3>2 DEF PeersFollow
  <2> QED BY <2>2, <2>3
<1> QED BY <1>4, <1>5, <1>6 DEF LivesKept, Open

LEMMA ClosePeerKeeps == ASSUME AbiInv, NEW p \in Handles, ClosePeer(p) PROVE AbiInv'
<1> DEFINE w == peer[p].of
<1>1. /\ w \in Wrappers /\ p \in members[w] /\ p \in alive /\ Open(w)
  BY DEF ClosePeer, AbiInv, PeersKept, LivesKept
<1>2. /\ call = NoCall /\ flaws = {}
      /\ peer' = [peer EXCEPT ![p].closed = TRUE] /\ alive' = alive \ {p}
      /\ members' = [members EXCEPT ![w] = @ \ {p}]
      /\ UNCHANGED <<moduleUp, drives, call, lost>>
      /\ IF peer[p].owns \/ wrapper[w].closing
         THEN CloseWhenUnused(wrapper, w, {})
         ELSE UNCHANGED <<wrapper, heap, flaws>>
  BY DEF ClosePeer, MayAct, AbiInv, CallKept
<1>3. peer[p].owns => wrapper[w].as # "serde"
  BY <1>1, AbiAssumption DEF AbiInv, LivesKept, Nil
<1>4. wrapper[w].as # "serde" \/ wrapper[w].closing => wrapper[w].pair = Nil
  BY <1>1 DEF AbiInv, LivesKept
<1>5. \A q \in Handles : peer'[q].of = peer[q].of
  <2>1. peer \in [Handles -> [of : Wrappers \cup {Nil}, owns : BOOLEAN, closed : BOOLEAN]]
    BY DEF AbiInv, PeersKept
  <2> QED BY <1>2, <2>1
<1>6. CellsKept /\ PeersKept /\ LivesKept /\ DrivesKept /\ CallKept
  BY DEF AbiInv
<1> HIDE DEF w
<1>7. DrivesKept'
  BY <1>2, <1>5, <1>6, DrivesWait
<1>8. CASE peer[p].owns \/ wrapper[w].closing
  <2>1. Given(wrapper, w, {})
    BY <1>3, <1>4, <1>6, <1>8 DEF Given, CellsKept
  <2>2. CASE members'[w] = {}
    <3>1. CloseWith([wrapper EXCEPT ![w].closing = TRUE], w, {})
      BY <1>1, <1>2, <1>8, <2>2 DEF CloseWhenUnused
    <3> DEFINE ws == [wrapper EXCEPT ![w].closing = TRUE]
               r == [wrapper[w] EXCEPT !.closing = TRUE]
    <3>2. wrapper[w] \in WrapperRecords /\ wrapper \in [Wrappers -> WrapperRecords]
      BY <1>1, <1>6 DEF CellsKept
    <3>3. /\ r \in WrapperRecords /\ r.closing /\ r.life = wrapper[w].life /\ r.as = wrapper[w].as
          /\ r.errorTake = wrapper[w].errorTake /\ r.hostCall = wrapper[w].hostCall
          /\ r.pair = wrapper[w].pair
      BY <3>2 DEF WrapperRecords
    <3>4. ws = [wrapper EXCEPT ![w] = r]
      OBVIOUS
    <3> HIDE DEF r
    <3>5. /\ ws \in [Wrappers -> WrapperRecords] /\ ws[w] = r
          /\ \A v \in Wrappers : v # w => ws[v] = wrapper[v]
      BY <1>1, <3>2, <3>3, <3>4
    <3> HIDE DEF ws
    <3>6. Given(ws, w, {})
      BY <2>1, <3>3, <3>5 DEF Given
    <3>7. CloseWith(ws, w, {})
      BY <3>1 DEF ws
    <3>8. /\ CellsKept' /\ flaws' = {}
          /\ \A b \in Blocks : heap[b] \in {"call", "module"} <=> heap'[b] \in {"call", "module"}
          /\ \A v \in Wrappers : v # w => wrapper'[v] = wrapper[v]
          /\ wrapper'[w].life = "closed" /\ wrapper'[w].as = wrapper[w].as
          /\ wrapper'[w].pair = Nil
      BY <1>1, <1>2, <1>6, <3>6, <3>7, CellsClosed
    <3>9. PeersKept' /\ LivesKept'
      BY <1>1, <1>2, <1>6, <2>2, <3>8, LivesChanged
    <3>10. CallKept'
      BY <1>2, <1>6, <3>8, CallIdle
    <3> QED BY <1>7, <3>8, <3>9, <3>10 DEF AbiInv
  <2>3. CASE members'[w] # {}
    <3>1. Waits(wrapper, w, {})
      BY <1>1, <1>2, <1>8, <2>3 DEF CloseWhenUnused, Waits
    <3>2. /\ CellsKept' /\ flaws' = {}
          /\ \A b \in Blocks : heap[b] \in {"call", "module"} <=> heap'[b] \in {"call", "module"}
          /\ \A v \in Wrappers : v # w => wrapper'[v] = wrapper[v]
          /\ wrapper'[w].life = "open" /\ wrapper'[w].as = wrapper[w].as
          /\ wrapper'[w].pair = Nil /\ wrapper'[w].closing
      BY <1>1, <1>2, <1>6, <2>1, <3>1, CellsWaiting
    <3>3. PeersKept' /\ LivesKept'
      BY <1>1, <1>2, <1>6, <2>3, <3>2, LivesChanged
    <3>4. CallKept'
      BY <1>2, <1>6, <3>1, <3>2, CallIdle DEF CallKept
    <3> QED BY <1>7, <3>2, <3>3, <3>4 DEF AbiInv
  <2> QED BY <2>2, <2>3
<1>9. CASE ~(peer[p].owns \/ wrapper[w].closing)
  <2>1. UNCHANGED <<wrapper, heap, flaws>>
    BY <1>2, <1>9
  <2>2. wrapper'[w].life = "open" /\ ~wrapper'[w].closing
    BY <1>1, <1>9, <2>1 DEF Open
  <2>3. PeersKept' /\ LivesKept'
    BY <1>1, <1>2, <1>4, <1>6, <1>9, <2>1, <2>2, LivesChanged
  <2>4. CellsKept'
    BY <1>6, <2>1, CellsStay DEF CellsKept
  <2>5. CallKept'
    BY <1>2, <1>6, <2>1, CallIdle DEF CallKept
  <2> QED BY <1>7, <2>3, <2>4, <2>5 DEF AbiInv
<1> QED BY <1>8, <1>9

LEMMA SerdeCloseKeeps == ASSUME AbiInv, NEW w \in Wrappers, SerdeClose(w) PROVE AbiInv'
<1> DEFINE blocks == {wrapper[w].pair} \ {Nil}
           r == [wrapper[w] EXCEPT !.pair = Nil]
           ws == [wrapper EXCEPT ![w].pair = Nil]
<1>1. /\ call = NoCall /\ flaws = {} /\ Open(w) /\ wrapper[w].pair # Nil
      /\ UNCHANGED <<members, peer, alive, moduleUp, drives, call, lost>>
      /\ CloseWhenUnused(ws, w, blocks)
  <2>1. wrapper[w].pair # Nil /\ CloseWhenUnused(ws, w, {wrapper[w].pair})
    BY DEF SerdeClose
  <2>2. {wrapper[w].pair} = blocks
    BY <2>1
  <2> QED BY <2>1, <2>2 DEF SerdeClose, MayAct, AbiInv, CallKept
<1>2. CellsKept /\ PeersKept /\ LivesKept /\ DrivesKept /\ CallKept
  BY DEF AbiInv
<1>3. wrapper[w].as = "serde" /\ ~wrapper[w].closing
  BY <1>1, <1>2 DEF LivesKept
<1>4. wrapper[w] \in WrapperRecords /\ wrapper \in [Wrappers -> WrapperRecords]
  BY <1>2 DEF CellsKept
<1>5. /\ r \in WrapperRecords /\ r.closing = wrapper[w].closing
      /\ r.life = wrapper[w].life /\ r.as = wrapper[w].as /\ r.pair = Nil
      /\ r.errorTake = wrapper[w].errorTake /\ r.hostCall = wrapper[w].hostCall
  BY <1>4, AbiAssumption DEF WrapperRecords
<1>6. ws = [wrapper EXCEPT ![w] = r]
  OBVIOUS
<1> HIDE DEF r
<1>7. /\ ws \in [Wrappers -> WrapperRecords] /\ ws[w] = r
      /\ \A v \in Wrappers : v # w => ws[v] = wrapper[v]
  BY <1>4, <1>5, <1>6
<1> HIDE DEF ws
<1>8. Given(ws, w, blocks)
  BY <1>5, <1>7 DEF Given
<1> HIDE DEF blocks
<1>9. DrivesKept'
  BY <1>1, <1>2, DrivesStay
<1>10. CASE members'[w] = {}
  <2> DEFINE wc == [ws EXCEPT ![w].closing = TRUE]
             rc == [ws[w] EXCEPT !.closing = TRUE]
  <2>1. CloseWith(wc, w, blocks)
    BY <1>1, <1>10 DEF CloseWhenUnused
  <2>2. ws[w] \in WrapperRecords
    BY <1>7
  <2>3. /\ rc \in WrapperRecords /\ rc.life = ws[w].life /\ rc.as = ws[w].as /\ rc.pair = ws[w].pair
        /\ rc.errorTake = ws[w].errorTake /\ rc.hostCall = ws[w].hostCall
    BY <2>2 DEF WrapperRecords
  <2>4. wc = [ws EXCEPT ![w] = rc]
    OBVIOUS
  <2> HIDE DEF rc
  <2>5. /\ wc \in [Wrappers -> WrapperRecords] /\ wc[w] = rc
        /\ \A v \in Wrappers : v # w => wc[v] = wrapper[v]
    BY <1>7, <2>3, <2>4
  <2> HIDE DEF wc
  <2>6. Given(wc, w, blocks)
    BY <1>8, <2>3, <2>5 DEF Given
  <2>7. /\ CellsKept' /\ flaws' = {}
        /\ \A b \in Blocks : heap[b] \in {"call", "module"} <=> heap'[b] \in {"call", "module"}
        /\ \A v \in Wrappers : v # w => wrapper'[v] = wrapper[v]
        /\ wrapper'[w].life = "closed" /\ wrapper'[w].as = wrapper[w].as
        /\ wrapper'[w].pair = Nil
    BY <1>1, <1>2, <2>1, <2>6, CellsClosed
  <2>8. PeersKept' /\ LivesKept'
    BY <1>1, <1>2, <1>10, <2>7, LivesChanged
  <2>9. CallKept'
    BY <1>1, <1>2, <2>7, CallIdle
  <2> QED BY <1>9, <2>7, <2>8, <2>9 DEF AbiInv
<1>11. CASE members'[w] # {}
  <2>1. Waits(ws, w, blocks)
    BY <1>1, <1>11 DEF CloseWhenUnused, Waits
  <2>2. /\ CellsKept' /\ flaws' = {}
        /\ \A b \in Blocks : heap[b] \in {"call", "module"} <=> heap'[b] \in {"call", "module"}
        /\ \A v \in Wrappers : v # w => wrapper'[v] = wrapper[v]
        /\ wrapper'[w].life = "open" /\ wrapper'[w].as = wrapper[w].as
        /\ wrapper'[w].pair = Nil /\ wrapper'[w].closing
    BY <1>1, <1>2, <1>8, <2>1, CellsWaiting
  <2>3. PeersKept' /\ LivesKept'
    BY <1>1, <1>2, <1>11, <2>2, LivesChanged
  <2>4. CallKept'
    BY <1>1, <1>2, <2>1, <2>2, CallIdle DEF CallKept
  <2> QED BY <1>9, <2>2, <2>3, <2>4 DEF AbiInv
<1> QED BY <1>10, <1>11

\* close() and shutdown(), which refuse while the wrapper has peers.
LEMMA OwnerlessCloses ==
    ASSUME AbiInv, NEW w \in Wrappers, call = NoCall, Open(w), wrapper[w].as # "serde",
           members[w] = {}, CloseWith(wrapper, w, {}),
           UNCHANGED <<members, peer, alive, drives, call, lost>>,
           UNCHANGED moduleUp \/ (moduleUp' \in BOOLEAN /\ Opened = {w})
    PROVE  AbiInv'
<1>1. CellsKept /\ PeersKept /\ LivesKept /\ DrivesKept /\ CallKept
  BY DEF AbiInv
<1>2. Given(wrapper, w, {}) /\ flaws = {}
  BY <1>1 DEF Given, CellsKept, LivesKept, CallKept
<1>3. /\ CellsKept' /\ flaws' = {}
      /\ \A b \in Blocks : heap[b] \in {"call", "module"} <=> heap'[b] \in {"call", "module"}
      /\ \A v \in Wrappers : v # w => wrapper'[v] = wrapper[v]
      /\ wrapper'[w].life = "closed" /\ wrapper'[w].as = wrapper[w].as
      /\ wrapper'[w].pair = Nil
  BY <1>1, <1>2, CellsClosed
<1>4. UNCHANGED moduleUp \/ (moduleUp' \in BOOLEAN /\ \A v \in Wrappers : wrapper'[v].life # "open")
  BY <1>3 DEF Opened, Open
<1>5. PeersKept' /\ LivesKept'
  BY <1>1, <1>3, <1>4, LivesChanged
<1>6. DrivesKept'
  BY <1>1, DrivesStay
<1>7. CallKept'
  BY <1>1, <1>3, CallIdle
<1> QED BY <1>3, <1>5, <1>6, <1>7 DEF AbiInv

LEMMA AbiCloseKeeps == ASSUME AbiInv, NEW w \in Wrappers, AbiClose(w) PROVE AbiInv'
  BY OwnerlessCloses DEF AbiClose, MayAct

LEMMA ShutdownKeeps == ASSUME AbiInv, NEW w \in Wrappers, Shutdown(w) PROVE AbiInv'
<1>1. /\ call = NoCall /\ Open(w) /\ wrapper[w].as # "serde" /\ members[w] = {}
      /\ CloseWith(wrapper, w, {}) /\ moduleUp' = FALSE /\ Cardinality(Opened) = 1
      /\ UNCHANGED <<members, peer, alive, drives, call, lost>>
  BY DEF Shutdown, MayAct
<1>2. Opened \subseteq Wrappers /\ IsFiniteSet(Opened)
  BY AbiAssumption, FS_Subset DEF Opened
<1>3. \E x : Opened = {x}
  BY <1>1, <1>2, FS_Singleton
<1>4. w \in Opened
  BY <1>1 DEF Opened
<1>5. Opened = {w}
  BY <1>3, <1>4
<1> QED BY <1>1, <1>5, OwnerlessCloses

(***************************************************************************)
(* The invariant.                                                          *)
(***************************************************************************)
LEMMA AbiStarts == ASSUME AbiInit PROVE AbiInv
<1>1. /\ wrapper = [w \in Wrappers |-> NoWrapper] /\ members = [w \in Wrappers |-> {}]
      /\ peer = [p \in Handles |-> NoPeer] /\ alive = {} /\ moduleUp = TRUE
      /\ heap = [b \in Blocks |-> "free"] /\ drives = <<>>
      /\ call = NoCall /\ lost = {} /\ flaws = {}
  BY DEF AbiInit
<1>2. NoWrapper \in WrapperRecords /\ \A f \in Fields : NoWrapper[f] = Nil
  BY DEF NoWrapper, WrapperRecords, Fields
<1>3. /\ NoWrapper.life = "none" /\ NoWrapper.pair = Nil /\ ~NoWrapper.closing
      /\ NoPeer \in [of : Wrappers \cup {Nil}, owns : BOOLEAN, closed : BOOLEAN]
      /\ NoPeer.of = Nil /\ NoPeer.closed
  BY DEF NoWrapper, NoPeer
<1>4. Nil \notin Wrappers /\ Nil \notin Blocks /\ MaxDepth \in Nat
  BY AbiAssumption DEF Nil
<1>5. CellsKept
  <2>1. \A w \in Wrappers, f \in Fields : wrapper[w][f] = Nil
    BY <1>1, <1>2
  <2>2. wrapper \in [Wrappers -> WrapperRecords]
    BY <1>1, <1>2
  <2>3. /\ heap \in [Blocks -> {"free", "scratch", "call", "module"}]
        /\ \A b \in Blocks : heap[b] = "free"
    BY <1>1
  <2> QED BY <2>1, <2>2, <2>3 DEF CellsKept
<1>6. PeersKept
  BY <1>1, <1>3, <1>4 DEF PeersKept
<1>7. LivesKept
  BY <1>1, <1>3 DEF LivesKept, Open
<1>8. DrivesKept
  BY <1>1, <1>4, EmptySeq DEF DrivesKept
<1>9. CallKept
  BY <1>1 DEF CallKept, CallBlocks, Used
<1> QED BY <1>5, <1>6, <1>7, <1>8, <1>9 DEF AbiInv

LEMMA AbiStays == ASSUME AbiInv, UNCHANGED abiVars PROVE AbiInv'
<1>1. UNCHANGED <<wrapper, members, peer, alive, moduleUp, heap, drives, call, lost, flaws>>
  BY DEF abiVars
<1>2. CellsKept' /\ PeersKept' /\ LivesKept' /\ DrivesKept'
  BY <1>1, LivesStay, CellsStay, DrivesStay DEF AbiInv, CellsKept, lifeVars
<1>3. CallKept'
  BY <1>1 DEF AbiInv, CallKept, CallBlocks, Used
<1> QED BY <1>2, <1>3 DEF AbiInv

LEMMA AbiKeeps == ASSUME AbiInv, [AbiNext]_abiVars PROVE AbiInv'
<1>1. ASSUME NEW w \in Wrappers, NEW as \in {"factory", "plain", "serde"},
             NEW roomy \in BOOLEAN, NEW made \in BOOLEAN, Construct(w, as, roomy, made)
      PROVE  AbiInv'
  BY <1>1, ConstructKeeps
<1>2. ASSUME NEW w \in Wrappers,
             CreatePeer(w) \/ SerdeClose(w) \/ AbiClose(w) \/ Shutdown(w) \/ SerdeCall(w)
      PROVE  AbiInv'
  BY <1>2, CreatePeerKeeps, SerdeCloseKeeps, AbiCloseKeeps, ShutdownKeeps, SerdeCallKeeps
<1>3. ASSUME NEW p \in Handles, ClosePeer(p) \/ PeerOperation(p) \/ DirectCall(p) PROVE AbiInv'
  BY <1>3, ClosePeerKeeps, PeerOperationKeeps, DirectCallKeeps
<1>4. CASE NextCall
  BY <1>4, NextCallKeeps
<1>5. CASE Listened
  BY <1>5, ListenedKeeps
<1>6. CASE CallRefused
  BY <1>6, RefusedKeeps DEF CallRefused
<1>7. CASE AbiAlloc
  BY <1>7, AllocKeeps
<1>8. CASE AbiAllocFails
  BY <1>8, RefusedKeeps DEF AbiAllocFails
<1>9. CASE Ask
  BY <1>9, AskKeeps
<1>10. CASE Take
  BY <1>10, TakeKeeps
<1>11. CASE Finally
  BY <1>11, FinallyKeeps
<1>12. CASE UNCHANGED abiVars
  BY <1>12, AbiStays
<1> QED BY <1>1, <1>2, <1>3, <1>4, <1>5, <1>6, <1>7, <1>8, <1>9, <1>10, <1>11, <1>12 DEF AbiNext

LEMMA AbiInvGives == ASSUME AbiInv PROVE AbiKept
<1>1. Nil \notin Blocks /\ Nil \notin Wrappers
  BY AbiAssumption DEF Nil
<1>2. AbiTypeOK
  <2>1. ASSUME NEW w \in Wrappers
        PROVE  /\ wrapper[w].life \in {"none", "open", "closed"}
               /\ {wrapper[w].errorTake, wrapper[w].hostCall, wrapper[w].pair} \subseteq Blocks \cup {Nil}
    <3>1. wrapper[w] \in WrapperRecords
      BY DEF AbiInv, CellsKept
    <3> QED BY <3>1 DEF WrapperRecords
  <2>2. call.at \in {"none", "alloc", "ask", "take", "free"}
    BY DEF AbiInv, CallKept, CallRecords, NoCall
  <2> QED BY <2>1, <2>2 DEF AbiTypeOK, AbiInv, CellsKept, PeersKept, DrivesKept, CallKept
<1>3. StorageAccounted
  <2> DEFINE pointers == {x \in Wrappers \X {"errorTake", "hostCall", "pair"} :
                              wrapper[x[1]][x[2]] # Nil}
  <2>1. \A x \in pointers : /\ x[1] \in Wrappers /\ x[2] \in Fields /\ x = <<x[1], x[2]>>
                            /\ wrapper[x[1]][x[2]] # Nil
    BY DEF Fields
  <2>2. \A w \in Wrappers, f \in Fields : wrapper[w][f] # Nil =>
            <<w, f>> \in pointers /\ <<w, f>>[1] = w /\ <<w, f>>[2] = f
    BY DEF Fields
  <2> HIDE DEF pointers
  <2>3. ASSUME NEW x \in pointers
        PROVE  /\ wrapper[x[1]][x[2]] \in Blocks /\ heap[wrapper[x[1]][x[2]]] = "scratch"
               /\ Open(x[1])
    BY <2>1, CellsTyped DEF AbiInv, CellsKept
  <2>4. ASSUME NEW b \in Blocks, heap[b] = "scratch"
        PROVE  \E x \in pointers : b = wrapper[x[1]][x[2]]
    <3>1. PICK w \in Wrappers, f \in Fields : wrapper[w][f] = b
      BY <2>4 DEF AbiInv, CellsKept
    <3>2. <<w, f>> \in pointers /\ wrapper[<<w, f>>[1]][<<w, f>>[2]] = b
      BY <1>1, <2>2, <3>1
    <3> QED BY <3>2
  <2>5. {b \in Blocks : heap[b] = "scratch"} = {wrapper[x[1]][x[2]] : x \in pointers}
    BY <2>3, <2>4
  <2>6. ASSUME NEW x \in pointers, NEW y \in pointers, x # y
        PROVE  wrapper[x[1]][x[2]] # wrapper[y[1]][y[2]]
    <3>1. x[1] # y[1] \/ x[2] # y[2]
      BY <2>1, <2>6
    <3> QED BY <2>1, <3>1 DEF AbiInv, CellsKept
  <2>7. call = NoCall => {b \in Blocks : heap[b] \in {"call", "module"}} = lost
    BY DEF AbiInv, CallKept, CallBlocks, Used
  <2> QED BY <2>3, <2>5, <2>6, <2>7 DEF StorageAccounted, pointers
<1>4. NothingMisused
  BY DEF NothingMisused, AbiInv, CallKept
<1>5. LifetimesNested
  <2>1. alive = UNION {members[w] : w \in Wrappers}
    <3>1. \A p \in alive : peer[p].of \in Wrappers /\ p \in members[peer[p].of]
      BY DEF AbiInv, PeersKept
    <3>2. \A w \in Wrappers : \A p \in members[w] : p \in alive
      BY DEF AbiInv, PeersKept
    <3> QED BY <3>1, <3>2
  <2>2. ~moduleUp => Opened = {} /\ alive = {}
    <3>1. ~moduleUp => \A w \in Wrappers : ~Open(w) /\ members[w] = {}
      BY DEF AbiInv, PeersKept, LivesKept
    <3> QED BY <2>1, <3>1 DEF Opened
  <2> QED BY <2>1, <2>2 DEF LifetimesNested, AbiInv, PeersKept, LivesKept
<1> QED BY <1>2, <1>3, <1>4, <1>5 DEF AbiKept

\* However operations nest in listeners, and however calls fail, every block of the
\* module's heap is the scratch of an open wrapper, the call's under way, or one whose
\* pointer a failure dropped; nothing is freed twice, and no handle is used behind the
\* close() of the peer that owns its wrapper.
THEOREM AbiKeptHolds == AbiSpec => []AbiKept
<1>1. AbiInit => AbiInv
  BY AbiStarts
<1>2. AbiInv /\ [AbiNext]_abiVars => AbiInv'
  BY AbiKeeps
<1>3. AbiInv => AbiKept
  BY AbiInvGives
<1> QED BY <1>1, <1>2, <1>3, PTL DEF AbiSpec

(***************************************************************************)
(* The invariant of the output directory.                                  *)
(***************************************************************************)
FileRecords ==
    [by : ToolRuns \cup {"nobody", "user"}, entries : SUBSET GeneratedModules]
RunRecords ==
    [at : {"idle", "merging", "staging", "renaming", "cleaning", "ended", "killed"},
     preserved : SUBSET GeneratedModules, left : SUBSET GeneratedModules, staging : BOOLEAN,
     staged : Nat, renamed : Nat, outcome : {"none", "failed", "done"},
     missed : SUBSET GeneratedModules]

OutputTyped ==
    /\ outDir \in [GeneratedModules \cup {Barrel} -> FileRecords]
    /\ toolRun \in [ToolRuns -> RunRecords]
    /\ deletes \in 0 .. MaxDeletes /\ deleted \subseteq GeneratedModules
    /\ listed \subseteq GeneratedModules /\ overlapped \in BOOLEAN

\* How far a run has come.
Progress(r, t) ==
    /\ t.staged <= Len(Makes[r]) /\ t.renamed <= t.staged
    /\ (t.preserved \cup t.left) \cap Own(r) = {}
    /\ t.at \in {"idle", "merging"} => t.staged = 0 /\ ~t.staging /\ t.outcome = "none"
    /\ t.at = "staging" => t.renamed = 0
    /\ t.at \in {"staging", "renaming"} => t.left = {} /\ t.outcome = "none"
    /\ t.at = "cleaning" => t.outcome = "failed"
    /\ t.at = "ended" => ~t.staging
    /\ t.outcome = "done" => t.renamed = Len(Makes[r])
    /\ t.renamed > 0 => t.staged = Len(Makes[r])

\* What a run under way counts on is there, or the user has removed it since it began.
Counted(r) ==
    LET t == toolRun[r] IN
    UnderWay(r) => \A m \in GeneratedModules :
        m \in t.preserved \/ (\E i \in 1 .. t.renamed : Makes[r][i] = m) =>
            Exists(m) \/ m \in t.missed

\* A run that is going to write the barrel has, or will look at, what the barrel lists.
Merges(r) == UnderWay(r) /\ toolRun[r].renamed < Len(Makes[r]) /\ r \notin WholeTree
             /\ Barrel \in Range(Makes[r])

BarrelInv ==
    /\ listed \subseteq outDir[Barrel].entries
    /\ \A r, o \in ToolRuns : UnderWay(r) /\ UnderWay(o) => r = o
    /\ \A r \in ToolRuns : Merges(r) =>
           /\ listed \ deleted \subseteq Own(r) \cup toolRun[r].preserved \cup toolRun[r].left
           /\ \A m \in toolRun[r].left : Exists(m) \/ m \in deleted

OutputInv ==
    /\ OutputTyped
    /\ \A r \in ToolRuns : Progress(r, toolRun[r]) /\ Counted(r)
    /\ \A r \in ToolRuns, p \in GeneratedModules \cup {Barrel} :
           outDir[p].by = r => toolRun[r].staged = Len(Makes[r])
    /\ BarrelResolves
    /\ ~overlapped => BarrelInv

\* The files of a run, of which the barrel is the last.
LEMMA MadeFiles ==
    ASSUME NEW r \in ToolRuns
    PROVE  /\ Len(Makes[r]) \in Nat \ {0} /\ DOMAIN Makes[r] = 1 .. Len(Makes[r])
           /\ \A i \in 1 .. Len(Makes[r]) : /\ Makes[r][i] \in GeneratedModules \cup {Barrel}
                                            /\ Makes[r][i] = Barrel => i = Len(Makes[r])
                                            /\ Makes[r][i] # Barrel => Makes[r][i] \in Own(r)
           /\ Own(r) \subseteq GeneratedModules
           /\ \A m \in Own(r) : \E i \in 1 .. Len(Makes[r]) : Makes[r][i] = m
           /\ Barrel \in Range(Makes[r]) <=> \E i \in 1 .. Len(Makes[r]) : Makes[r][i] = Barrel
           /\ Barrel \notin GeneratedModules /\ r # "nobody" /\ r # "user"
<1>1. /\ Makes[r] \in Seq(GeneratedModules \cup {Barrel}) /\ Makes[r] # <<>>
      /\ \A i \in DOMAIN Makes[r] : Makes[r][i] = Barrel => i = Len(Makes[r])
      /\ r # "nobody" /\ r # "user"
  BY OutputAssumption
<1>2. Len(Makes[r]) \in Nat \ {0} /\ DOMAIN Makes[r] = 1 .. Len(Makes[r])
  BY <1>1, EmptySeq, LenProperties
<1>3. Own(r) \subseteq GeneratedModules
  BY DEF Own, GeneratedModules
<1>4. \A m : m \in Range(Makes[r]) <=> \E i \in 1 .. Len(Makes[r]) : Makes[r][i] = m
  BY <1>2 DEF Range
<1>5. \A m \in Own(r) : \E i \in 1 .. Len(Makes[r]) : Makes[r][i] = m
  BY <1>4 DEF Own
<1>6. \A i \in 1 .. Len(Makes[r]) : Makes[r][i] \in GeneratedModules \cup {Barrel}
  BY <1>1, <1>2
<1>7. Barrel \notin GeneratedModules
  BY DEF GeneratedModules
<1>8. \A i \in 1 .. Len(Makes[r]) : Makes[r][i] # Barrel => Makes[r][i] \in Own(r)
  BY <1>4 DEF Own
<1> QED BY <1>1, <1>2, <1>3, <1>4, <1>5, <1>6, <1>7, <1>8

\* A step of one run that leaves the directory alone.
LEMMA RunMoves ==
    ASSUME OutputInv, NEW r \in ToolRuns, NEW s \in RunRecords, Moves(r, s), s.at # "idle",
           UNCHANGED <<outDir, deletes, deleted, listed>>, overlapped' \in BOOLEAN,
           overlapped => overlapped',
           ~overlapped' /\ ~UnderWay(r) => \A o \in ToolRuns : ~UnderWay(o),
           Progress(r, s), s.staged >= toolRun[r].staged,
           s.at \notin {"ended", "killed"} =>
               \A m \in GeneratedModules :
                   m \in s.preserved \/ (\E i \in 1 .. s.renamed : Makes[r][i] = m) =>
                       Exists(m) \/ m \in s.missed,
           ~overlapped' /\ s.at \notin {"ended", "killed"} /\ s.renamed < Len(Makes[r])
               /\ r \notin WholeTree /\ Barrel \in Range(Makes[r]) =>
               /\ listed \ deleted \subseteq Own(r) \cup s.preserved \cup s.left
               /\ \A m \in s.left : Exists(m) \/ m \in deleted
    PROVE  OutputInv'
<1>1. /\ outDir \in [GeneratedModules \cup {Barrel} -> FileRecords]
      /\ toolRun \in [ToolRuns -> RunRecords]
  BY DEF OutputInv, OutputTyped
<1>2. /\ toolRun' \in [ToolRuns -> RunRecords] /\ toolRun'[r] = s
      /\ \A o \in ToolRuns : o # r => toolRun'[o] = toolRun[o]
  BY <1>1 DEF Moves
<1>3. OutputTyped'
  BY <1>2 DEF OutputInv, OutputTyped
<1>4. \A o \in ToolRuns : o # r => (UnderWay(o)' <=> UnderWay(o))
  BY <1>2 DEF UnderWay
<1>5. UnderWay(r)' <=> s.at \notin {"ended", "killed"}
  BY <1>2 DEF UnderWay
<1>6. \A m : Exists(m)' <=> Exists(m)
  BY DEF Exists
<1>7. \A o \in ToolRuns : Progress(o, toolRun'[o]) /\ Counted(o)'
  <2> TAKE o \in ToolRuns
  <2>1. CASE o = r
    BY <1>2, <1>5, <1>6, <2>1 DEF Counted
  <2>2. CASE o # r
    <3>1. toolRun'[o] = toolRun[o] /\ (UnderWay(o)' <=> UnderWay(o))
      BY <1>2, <1>4, <2>2
    <3> QED BY <1>6, <3>1 DEF OutputInv, Counted
  <2> QED BY <2>1, <2>2
<1>8. \A o \in ToolRuns, p \in GeneratedModules \cup {Barrel} :
          outDir[p].by = o => toolRun'[o].staged = Len(Makes[o])
  <2> TAKE o \in ToolRuns, p \in GeneratedModules \cup {Barrel}
  <2> SUFFICES ASSUME outDir[p].by = o PROVE toolRun'[o].staged = Len(Makes[o])
    OBVIOUS
  <2>1. toolRun[o].staged = Len(Makes[o])
    BY DEF OutputInv
  <2>2. CASE o = r
    <3>1. s.staged <= Len(Makes[r]) /\ s.staged >= Len(Makes[r]) /\ s.staged \in Nat
          /\ Len(Makes[r]) \in Nat
      BY <2>1, <2>2, MadeFiles DEF Progress, RunRecords
    <3>2. s.staged = Len(Makes[r])
      BY <3>1
    <3> QED BY <1>2, <2>2, <3>2
  <2>3. CASE o # r
    BY <1>2, <2>1, <2>3
  <2> QED BY <2>2, <2>3
<1>9. BarrelResolves'
  BY <1>6 DEF OutputInv, BarrelResolves
<1>10. ASSUME ~overlapped' PROVE BarrelInv'
  <2>1. BarrelInv
    BY <1>10 DEF OutputInv
  <2>2. \A o, u \in ToolRuns : UnderWay(o)' /\ UnderWay(u)' => o = u
    <3>1. CASE UnderWay(r)
      BY <1>4, <2>1, <3>1 DEF BarrelInv
    <3>2. CASE ~UnderWay(r)
      BY <1>4, <1>10, <3>2
    <3> QED BY <3>1, <3>2
  <2>3. ASSUME NEW o \in ToolRuns, Merges(o)'
        PROVE  /\ listed \ deleted \subseteq Own(o) \cup toolRun'[o].preserved \cup toolRun'[o].left
               /\ \A m \in toolRun'[o].left : Exists(m) \/ m \in deleted
    <3>1. CASE o = r
      BY <1>2, <1>5, <1>10, <2>3, <3>1 DEF Merges
    <3>2. CASE o # r
      <4>1. toolRun'[o] = toolRun[o] /\ Merges(o)
        BY <1>2, <1>4, <2>3, <3>2 DEF Merges
      <4> QED BY <2>1, <4>1 DEF BarrelInv
    <3> QED BY <3>1, <3>2
  <2> QED BY <1>6, <2>1, <2>2, <2>3 DEF BarrelInv
<1> QED BY <1>3, <1>7, <1>8, <1>9, <1>10 DEF OutputInv

\* What is known of a run at any time.
LEMMA RunKnown ==
    ASSUME OutputInv, NEW r \in ToolRuns
    PROVE  /\ toolRun[r] \in RunRecords /\ Progress(r, toolRun[r]) /\ Len(Makes[r]) \in Nat \ {0}
           /\ UnderWay(r) => \A m \in GeneratedModules :
                  m \in toolRun[r].preserved \/ (\E i \in 1 .. toolRun[r].renamed : Makes[r][i] = m) =>
                      Exists(m) \/ m \in toolRun[r].missed
           /\ overlapped \in BOOLEAN
           /\ ~overlapped /\ Merges(r) =>
                  /\ listed \ deleted \subseteq Own(r) \cup toolRun[r].preserved \cup toolRun[r].left
                  /\ \A m \in toolRun[r].left : Exists(m) \/ m \in deleted
           /\ ~overlapped /\ UnderWay(r) => \A o \in ToolRuns : UnderWay(o) => r = o
  BY MadeFiles DEF OutputInv, OutputTyped, Counted, BarrelInv

\* The same for steps of a run under way that stays so, or ends.
LEMMA RunGoesOn ==
    ASSUME OutputInv, NEW r \in ToolRuns, UnderWay(r), NEW s \in RunRecords, Moves(r, s),
           s.at # "idle", UNCHANGED <<outDir, deletes, deleted, listed, overlapped>>,
           Progress(r, s), s.staged >= toolRun[r].staged, s.renamed = toolRun[r].renamed,
           s.missed = toolRun[r].missed,
           \A m \in s.preserved \ toolRun[r].preserved : Exists(m),
           \A m \in toolRun[r].preserved \cup toolRun[r].left :
               m \in s.preserved \cup s.left \/ (~Exists(m) /\ m \in toolRun[r].left),
           s.left \subseteq toolRun[r].left
    PROVE  OutputInv'
<1> DEFINE t == toolRun[r]
<1>1. /\ t \in RunRecords /\ overlapped \in BOOLEAN
      /\ \A m \in GeneratedModules :
             m \in t.preserved \/ (\E i \in 1 .. t.renamed : Makes[r][i] = m) =>
                 Exists(m) \/ m \in t.missed
  BY RunKnown
<1>2. s.at \notin {"ended", "killed"} =>
          \A m \in GeneratedModules :
              m \in s.preserved \/ (\E i \in 1 .. s.renamed : Makes[r][i] = m) =>
                  Exists(m) \/ m \in s.missed
  BY <1>1
<1>3. ASSUME ~overlapped, s.renamed < Len(Makes[r]), r \notin WholeTree, Barrel \in Range(Makes[r])
      PROVE  /\ listed \ deleted \subseteq Own(r) \cup s.preserved \cup s.left
             /\ \A m \in s.left : Exists(m) \/ m \in deleted
  <2>1. Merges(r)
    BY <1>3 DEF Merges
  <2>2. /\ listed \ deleted \subseteq Own(r) \cup t.preserved \cup t.left
        /\ \A m \in t.left : Exists(m) \/ m \in deleted
    BY <1>3, <2>1, RunKnown
  <2> QED BY <2>2
<1>4. ~overlapped' /\ ~UnderWay(r) => \A o \in ToolRuns : ~UnderWay(o)
  OBVIOUS
<1> QED BY <1>1, <1>2, <1>3, <1>4, RunMoves

(***************************************************************************)
(* The steps of the tool.                                                  *)
(***************************************************************************)
LEMMA ReadsBarrelKeeps == ASSUME OutputInv, NEW r \in ToolRuns, ReadsBarrel(r) PROVE OutputInv'
<1> DEFINE s == [IdleRun EXCEPT !.at = "merging", !.left = OldEntries(r)]
           t == toolRun[r]
<1>1. /\ t.at = "idle" /\ Moves(r, s) /\ ~UnderWay(r)
      /\ overlapped' = (overlapped \/ \E o \in ToolRuns : UnderWay(o))
      /\ UNCHANGED <<outDir, deletes, deleted, listed>>
  BY DEF ReadsBarrel, UnderWay
<1>2. OldEntries(r) \subseteq GeneratedModules \ Own(r)
  <2>1. outDir[Barrel] \in FileRecords
    BY DEF OutputInv, OutputTyped
  <2> QED BY <2>1 DEF OldEntries, FileRecords
<1>3. /\ s \in RunRecords /\ s.at = "merging" /\ s.preserved = {} /\ s.left = OldEntries(r)
      /\ ~s.staging /\ s.staged = 0 /\ s.renamed = 0 /\ s.outcome = "none"
  BY <1>2 DEF IdleRun, RunRecords
<1> HIDE DEF s
<1>4. t \in RunRecords /\ Progress(r, t) /\ Len(Makes[r]) \in Nat \ {0} /\ overlapped \in BOOLEAN
  BY RunKnown
<1>5. Progress(r, s) /\ t.staged = 0
  BY <1>1, <1>2, <1>3, <1>4 DEF Progress
<1>6. ~ \E m : m \in s.preserved \/ (\E i \in 1 .. s.renamed : Makes[r][i] = m)
  BY <1>3
<1>7. overlapped' \in BOOLEAN /\ (overlapped => overlapped')
      /\ (~overlapped' => ~overlapped /\ \A o \in ToolRuns : ~UnderWay(o))
  BY <1>1, <1>4
<1>8. ASSUME ~overlapped', r \notin WholeTree, Barrel \in Range(Makes[r])
      PROVE  /\ listed \ deleted \subseteq Own(r) \cup s.preserved \cup s.left
             /\ \A m \in s.left : Exists(m) \/ m \in deleted
  <2>1. listed \subseteq outDir[Barrel].entries
    BY <1>7, <1>8 DEF OutputInv, BarrelInv
  <2>2. s.left = outDir[Barrel].entries \ Own(r)
    BY <1>3, <1>8 DEF OldEntries
  <2>3. BarrelResolves
    BY DEF OutputInv
  <2> QED BY <2>1, <2>2, <2>3 DEF BarrelResolves
<1> QED BY <1>1, <1>3, <1>5, <1>6, <1>7, <1>8, RunMoves

LEMMA ChecksEntryKeeps ==
    ASSUME OutputInv, NEW r \in ToolRuns, NEW m \in GeneratedModules, ChecksEntry(r, m)
    PROVE  OutputInv'
<1> DEFINE t == toolRun[r]
           s == [t EXCEPT !.left = @ \ {m}, !.preserved = IF Exists(m) THEN @ \cup {m} ELSE @]
<1>1. /\ t.at = "merging" /\ m \in t.left /\ Moves(r, s) /\ UnderWay(r)
      /\ UNCHANGED <<outDir, deletes, deleted, listed, overlapped>>
  BY DEF ChecksEntry, UnderWay
<1>2. t \in RunRecords /\ Progress(r, t) /\ t.staged \in Nat
  BY RunKnown DEF RunRecords
<1>3. /\ s \in RunRecords /\ s.at = t.at /\ s.left = t.left \ {m}
      /\ s.preserved = IF Exists(m) THEN t.preserved \cup {m} ELSE t.preserved
      /\ s.staging = t.staging /\ s.staged = t.staged /\ s.renamed = t.renamed
      /\ s.outcome = t.outcome /\ s.missed = t.missed
  BY <1>2 DEF RunRecords
<1> HIDE DEF s
<1>4. Progress(r, s)
  <2>1. (s.preserved \cup s.left) \cap Own(r) = {}
    BY <1>1, <1>2, <1>3 DEF Progress
  <2> QED BY <1>1, <1>2, <1>3, <2>1 DEF Progress
<1> QED BY <1>1, <1>2, <1>3, <1>4, RunGoesOn

LEMMA OpensStagingKeeps == ASSUME OutputInv, NEW r \in ToolRuns, OpensStaging(r) PROVE OutputInv'
<1> DEFINE t == toolRun[r]
           s == [t EXCEPT !.at = "staging", !.staging = TRUE]
<1>1. /\ t.at = "merging" /\ t.left = {} /\ Moves(r, s) /\ UnderWay(r)
      /\ UNCHANGED <<outDir, deletes, deleted, listed, overlapped>>
  BY DEF OpensStaging, UnderWay
<1>2. /\ t \in RunRecords /\ Progress(r, t) /\ t.staged \in Nat /\ t.renamed \in Nat
      /\ Len(Makes[r]) \in Nat \ {0}
  BY RunKnown DEF RunRecords
<1>3. /\ s \in RunRecords /\ s.at = "staging" /\ s.left = t.left /\ s.preserved = t.preserved
      /\ s.staging /\ s.staged = t.staged /\ s.renamed = t.renamed
      /\ s.outcome = t.outcome /\ s.missed = t.missed
  BY <1>2 DEF RunRecords
<1> HIDE DEF s
<1>4. Progress(r, s)
  BY <1>1, <1>2, <1>3 DEF Progress
<1> QED BY <1>1, <1>2, <1>3, <1>4, RunGoesOn

LEMMA StagesFileKeeps == ASSUME OutputInv, NEW r \in ToolRuns, StagesFile(r) PROVE OutputInv'
<1> DEFINE t == toolRun[r]
           s == [t EXCEPT !.staged = @ + 1]
<1>1. /\ t.at = "staging" /\ t.staged < Len(Makes[r]) /\ Moves(r, s) /\ UnderWay(r)
      /\ UNCHANGED <<outDir, deletes, deleted, listed, overlapped>>
  BY DEF StagesFile, UnderWay
<1>2. /\ t \in RunRecords /\ Progress(r, t) /\ t.staged \in Nat /\ t.renamed \in Nat
      /\ Len(Makes[r]) \in Nat \ {0}
  BY RunKnown DEF RunRecords
<1>3. /\ s \in RunRecords /\ s.at = t.at /\ s.left = t.left /\ s.preserved = t.preserved
      /\ s.staging = t.staging /\ s.staged = t.staged + 1 /\ s.renamed = t.renamed
      /\ s.outcome = t.outcome /\ s.missed = t.missed
  BY <1>2 DEF RunRecords
<1> HIDE DEF s
<1>4. Progress(r, s)
  BY <1>1, <1>2, <1>3 DEF Progress
<1>5. s.staged >= t.staged
  BY <1>2, <1>3
<1> QED BY <1>1, <1>2, <1>3, <1>4, <1>5, RunGoesOn

LEMMA PublishFailsKeeps == ASSUME OutputInv, NEW r \in ToolRuns, PublishFails(r) PROVE OutputInv'
<1> DEFINE t == toolRun[r]
           s == [t EXCEPT !.at = IF @ = "merging" THEN "ended" ELSE "cleaning",
                          !.outcome = IF @ = "none" THEN "failed" ELSE @]
<1>1. /\ t.at \in {"merging", "staging", "renaming"} /\ t.left = {} /\ Moves(r, s) /\ UnderWay(r)
      /\ t.renamed < Len(Makes[r])
      /\ UNCHANGED <<outDir, deletes, deleted, listed, overlapped>>
  BY DEF PublishFails, UnderWay
<1>2. /\ t \in RunRecords /\ Progress(r, t) /\ t.staged \in Nat /\ t.renamed \in Nat
      /\ Len(Makes[r]) \in Nat \ {0}
  BY RunKnown DEF RunRecords
<1>3. /\ s \in RunRecords /\ s.at = IF t.at = "merging" THEN "ended" ELSE "cleaning"
      /\ s.left = t.left /\ s.preserved = t.preserved
      /\ s.staging = t.staging /\ s.staged = t.staged /\ s.renamed = t.renamed
      /\ s.outcome = (IF t.outcome = "none" THEN "failed" ELSE t.outcome) /\ s.missed = t.missed
  BY <1>1, <1>2 DEF RunRecords
<1> HIDE DEF s
<1>4. t.outcome # "done"
  BY <1>1, <1>2 DEF Progress
<1>5. s.outcome = "failed"
  BY <1>2, <1>3, <1>4 DEF RunRecords
<1>6. Progress(r, s)
  BY <1>1, <1>2, <1>3, <1>5 DEF Progress
<1> QED BY <1>1, <1>2, <1>3, <1>6, RunGoesOn

LEMMA RemovesStagingKeeps == ASSUME OutputInv, NEW r \in ToolRuns, RemovesStaging(r) PROVE OutputInv'
<1> DEFINE t == toolRun[r]
           s == [t EXCEPT !.at = "ended", !.staging = FALSE,
                          !.outcome = IF @ = "none" THEN "done" ELSE @]
<1>1. /\ t.at = "cleaning" \/ (t.at = "renaming" /\ t.renamed = Len(Makes[r]))
      /\ Moves(r, s) /\ UnderWay(r)
      /\ UNCHANGED <<outDir, deletes, deleted, listed, overlapped>>
  BY DEF RemovesStaging, UnderWay
<1>2. /\ t \in RunRecords /\ Progress(r, t) /\ t.staged \in Nat /\ t.renamed \in Nat
      /\ Len(Makes[r]) \in Nat \ {0}
  BY RunKnown DEF RunRecords
<1>3. /\ s \in RunRecords /\ s.at = "ended" /\ s.left = t.left /\ s.preserved = t.preserved
      /\ ~s.staging /\ s.staged = t.staged /\ s.renamed = t.renamed
      /\ s.outcome = (IF t.outcome = "none" THEN "done" ELSE t.outcome) /\ s.missed = t.missed
  BY <1>1, <1>2 DEF RunRecords
<1> HIDE DEF s
<1>4. s.outcome = "done" => s.renamed = Len(Makes[r])
  BY <1>1, <1>2, <1>3 DEF Progress
<1>5. Progress(r, s)
  BY <1>2, <1>3, <1>4 DEF Progress
<1> QED BY <1>1, <1>2, <1>3, <1>5, RunGoesOn

LEMMA ToolKilledKeeps == ASSUME OutputInv, NEW r \in ToolRuns, ToolKilled(r) PROVE OutputInv'
<1> DEFINE t == toolRun[r]
           s == [t EXCEPT !.at = "killed"]
<1>1. /\ UnderWay(r) /\ Moves(r, s) /\ overlapped' = TRUE
      /\ UNCHANGED <<outDir, deletes, deleted, listed>>
  BY DEF ToolKilled
<1>2. t \in RunRecords /\ Progress(r, t) /\ t.staged \in Nat
  BY RunKnown DEF RunRecords
<1>3. /\ s \in RunRecords /\ s.at = "killed" /\ s.left = t.left /\ s.preserved = t.preserved
      /\ s.staging = t.staging /\ s.staged = t.staged /\ s.renamed = t.renamed
      /\ s.outcome = t.outcome /\ s.missed = t.missed
  BY <1>2 DEF RunRecords
<1> HIDE DEF s
<1>4. Progress(r, s)
  BY <1>2, <1>3 DEF Progress
<1> QED BY <1>1, <1>2, <1>3, <1>4, RunMoves

\* What a run after the rename of a file differs in from the run before.
LEMMA RenamedRuns ==
    ASSUME OutputInv, NEW r \in ToolRuns, RenamesFile(r), NEW path, path = Makes[r][Position(r)]
    PROVE  /\ toolRun' \in [ToolRuns -> RunRecords]
           /\ toolRun'[r].renamed = toolRun[r].renamed + 1 /\ toolRun'[r].at = "renaming"
           /\ \A o \in ToolRuns :
                  /\ toolRun'[o].missed = toolRun[o].missed \ {path}
                  /\ toolRun'[o].preserved = toolRun[o].preserved /\ toolRun'[o].left = toolRun[o].left
                  /\ toolRun'[o].staged = toolRun[o].staged /\ toolRun'[o].staging = toolRun[o].staging
                  /\ toolRun'[o].outcome = toolRun[o].outcome
                  /\ o # r => toolRun'[o].renamed = toolRun[o].renamed
                                  /\ toolRun'[o].at = toolRun[o].at
                  /\ UnderWay(o)' <=> UnderWay(o)
<1> DEFINE Less(o) == [toolRun[o] EXCEPT !.missed = @ \ {path}]
           More(o) == [Less(o) EXCEPT !.at = "renaming", !.renamed = @ + 1]
<1>1. toolRun' = [o \in ToolRuns |-> IF o = r THEN More(o) ELSE Less(o)]
  BY DEF RenamesFile
<1>2. ASSUME NEW o \in ToolRuns
      PROVE  /\ Less(o) \in RunRecords /\ Less(o).missed = toolRun[o].missed \ {path}
             /\ Less(o).preserved = toolRun[o].preserved /\ Less(o).left = toolRun[o].left
             /\ Less(o).staged = toolRun[o].staged /\ Less(o).staging = toolRun[o].staging
             /\ Less(o).outcome = toolRun[o].outcome /\ Less(o).at = toolRun[o].at
             /\ Less(o).renamed = toolRun[o].renamed
  <2>1. toolRun[o] \in RunRecords
    BY RunKnown
  <2> QED BY <2>1 DEF RunRecords
<1> HIDE DEF Less
<1>3. ASSUME NEW o \in ToolRuns
      PROVE  /\ More(o) \in RunRecords /\ More(o).missed = Less(o).missed
             /\ More(o).preserved = Less(o).preserved /\ More(o).left = Less(o).left
             /\ More(o).staged = Less(o).staged /\ More(o).staging = Less(o).staging
             /\ More(o).outcome = Less(o).outcome /\ More(o).at = "renaming"
             /\ More(o).renamed = Less(o).renamed + 1
  <2>1. PICK u \in RunRecords : u = Less(o)
    BY <1>2
  <2> DEFINE v == [u EXCEPT !.at = "renaming", !.renamed = @ + 1]
  <2>2. /\ v \in RunRecords /\ v.missed = u.missed /\ v.preserved = u.preserved /\ v.left = u.left
        /\ v.staged = u.staged /\ v.staging = u.staging /\ v.outcome = u.outcome
        /\ v.at = "renaming" /\ v.renamed = u.renamed + 1
    <3>1. u.renamed + 1 \in Nat
      BY DEF RunRecords
    <3>2. v \in RunRecords
      BY <3>1 DEF RunRecords
    <3>3. v.at = "renaming" /\ v.renamed = u.renamed + 1
      BY DEF RunRecords
    <3>4. /\ v.missed = u.missed /\ v.preserved = u.preserved /\ v.left = u.left
          /\ v.staged = u.staged /\ v.staging = u.staging /\ v.outcome = u.outcome
      BY DEF RunRecords
    <3> QED BY <3>2, <3>3, <3>4
  <2>3. More(o) = v
    BY <2>1
  <2> QED BY <2>1, <2>2, <2>3
<1> HIDE DEF More
<1>4. toolRun' \in [ToolRuns -> RunRecords]
  BY <1>1, <1>2, <1>3
<1>5. \A o \in ToolRuns : toolRun'[o] = IF o = r THEN More(o) ELSE Less(o)
  BY <1>1
<1>6. toolRun[r].at \in {"staging", "renaming"}
  BY DEF RenamesFile
<1>7. toolRun'[r].renamed = toolRun[r].renamed + 1 /\ toolRun'[r].at = "renaming"
  BY <1>2, <1>3, <1>5
<1>8. ASSUME NEW o \in ToolRuns, o # r
      PROVE  toolRun'[o].renamed = toolRun[o].renamed /\ toolRun'[o].at = toolRun[o].at
  BY <1>2, <1>5, <1>8
<1>9. \A o \in ToolRuns : UnderWay(o)' <=> UnderWay(o)
  BY <1>6, <1>7, <1>8 DEF UnderWay
<1> QED BY <1>2, <1>3, <1>4, <1>5, <1>7, <1>8, <1>9

\* A file takes its place; behind the barrel's, the run has nothing left to merge.
LEMMA RenamesFileKeeps == ASSUME OutputInv, NEW r \in ToolRuns, RenamesFile(r) PROVE OutputInv'
<1> DEFINE t == toolRun[r]
           path == Makes[r][Position(r)]
           n == Len(Makes[r])
           modules == GeneratedModules \cup {Barrel}
<1>1. /\ t \in RunRecords /\ Progress(r, t) /\ n \in Nat \ {0} /\ t.renamed \in Nat /\ t.staged \in Nat
      /\ t.missed \subseteq GeneratedModules /\ t.preserved \subseteq GeneratedModules
      /\ overlapped \in BOOLEAN
  BY RunKnown DEF RunRecords
<1>2. /\ t.at \in {"staging", "renaming"} /\ t.staged = n /\ t.renamed < n /\ UnderWay(r)
      /\ outDir' = [outDir EXCEPT ![path] = ContentsOf(r, path)]
      /\ deleted' = IF path = Barrel THEN t.missed ELSE deleted \ {path}
      /\ listed' = IF path # Barrel THEN listed
                   ELSE IF r \in WholeTree THEN Own(r) ELSE (listed \ deleted) \cup Own(r)
      /\ UNCHANGED <<deletes, overlapped>>
  BY DEF RenamesFile, UnderWay
<1>3. t.left = {} /\ t.outcome = "none"
  BY <1>1, <1>2 DEF Progress
<1>4. Position(r) = t.renamed + 1 /\ t.renamed + 1 \in 1 .. n
  BY <1>1, <1>2 DEF Position
<1>5. /\ path \in modules /\ (path = Barrel => t.renamed + 1 = n)
      /\ path # Barrel => path \in Own(r) /\ path \in GeneratedModules
      /\ Own(r) \subseteq GeneratedModules /\ Barrel \notin GeneratedModules
      /\ path = Barrel => Barrel \in Range(Makes[r])
  BY <1>4, MadeFiles
<1>6. path = Makes[r][t.renamed + 1]
  BY <1>4
<1>7. ContentsOf(r, path) = [by |-> r, entries |-> IF path = Barrel THEN Own(r) \cup t.preserved ELSE {}]
  BY DEF ContentsOf, Written
<1>8. r # "nobody" /\ r # "user"
  BY MadeFiles
<1> DEFINE c == ContentsOf(r, path)
<1>9. /\ c \in FileRecords /\ c.by = r /\ c # NoFile
      /\ c.entries = IF path = Barrel THEN Own(r) \cup t.preserved ELSE {}
  BY <1>1, <1>5, <1>7, <1>8 DEF FileRecords, NoFile
<1>10. /\ toolRun' \in [ToolRuns -> RunRecords]
       /\ toolRun'[r].renamed = t.renamed + 1 /\ toolRun'[r].at = "renaming"
       /\ \A o \in ToolRuns :
              /\ toolRun'[o].missed = toolRun[o].missed \ {path}
              /\ toolRun'[o].preserved = toolRun[o].preserved /\ toolRun'[o].left = toolRun[o].left
              /\ toolRun'[o].staged = toolRun[o].staged /\ toolRun'[o].staging = toolRun[o].staging
              /\ toolRun'[o].outcome = toolRun[o].outcome
              /\ o # r => toolRun'[o].renamed = toolRun[o].renamed
                              /\ toolRun'[o].at = toolRun[o].at
              /\ UnderWay(o)' <=> UnderWay(o)
  BY RenamedRuns
<1> HIDE DEF c, path, n
<1>11. outDir \in [modules -> FileRecords] /\ outDir' = [outDir EXCEPT ![path] = c]
  BY <1>2 DEF OutputInv, OutputTyped, c
<1>12. /\ outDir' \in [modules -> FileRecords] /\ outDir'[path] = c
       /\ \A p \in modules : p # path => outDir'[p] = outDir[p]
  BY <1>5, <1>9, <1>11
<1> HIDE DEF modules
<1>13. \A m \in modules : Exists(m)' <=> m = path \/ Exists(m)
  BY <1>9, <1>12 DEF Exists
<1>14. OutputTyped'
  <2>1. deleted \subseteq GeneratedModules /\ listed \subseteq GeneratedModules
    BY DEF OutputInv, OutputTyped
  <2> QED BY <1>1, <1>2, <1>5, <1>10, <1>12, <2>1 DEF OutputInv, OutputTyped, modules
<1>15. ASSUME NEW o \in ToolRuns PROVE Progress(o, toolRun'[o])
  <2>1. Progress(o, toolRun[o])
    BY RunKnown
  <2>2. CASE o # r
    BY <1>10, <2>1, <2>2 DEF Progress
  <2>3. CASE o = r
    <3>1. /\ toolRun'[r].staged = t.staged /\ toolRun'[r].renamed = t.renamed + 1
          /\ toolRun'[r].at = "renaming" /\ toolRun'[r].left = {} /\ toolRun'[r].outcome = "none"
          /\ toolRun'[r].preserved = t.preserved /\ toolRun'[r].staging = t.staging
      BY <1>3, <1>10
    <3>2. t.renamed + 1 <= n /\ n = Len(Makes[r])
      BY <1>1, <1>2 DEF n
    <3> QED BY <1>1, <1>2, <1>3, <2>3, <3>1, <3>2 DEF Progress
  <2> QED BY <2>2, <2>3
<1>16. ASSUME NEW o \in ToolRuns PROVE Counted(o)'
  <2> SUFFICES ASSUME UnderWay(o), NEW m \in GeneratedModules,
                      m \in toolRun'[o].preserved
                          \/ (\E i \in 1 .. toolRun'[o].renamed : Makes[o][i] = m)
               PROVE  Exists(m)' \/ m \in toolRun'[o].missed
    BY <1>10 DEF Counted
  <2>1. m \in modules
    BY DEF modules
  <2>2. CASE m = path
    BY <1>13, <2>1, <2>2
  <2>3. CASE m # path
    <3>1. m \in toolRun[o].preserved \/ (\E i \in 1 .. toolRun[o].renamed : Makes[o][i] = m)
      <4>1. CASE o # r
        BY <1>10, <4>1
      <4>2. CASE o = r
        <5>1. CASE m \in toolRun'[o].preserved
          BY <1>10, <5>1
        <5>2. ASSUME NEW i \in 1 .. toolRun'[o].renamed, Makes[o][i] = m
              PROVE  \E j \in 1 .. toolRun[o].renamed : Makes[o][j] = m
          <6>1. i # t.renamed + 1
            BY <1>6, <2>3, <4>2, <5>2
          <6>2. i \in 1 .. t.renamed
            BY <1>1, <1>10, <4>2, <5>2, <6>1
          <6> QED BY <4>2, <5>2, <6>2
        <5> QED BY <5>1, <5>2
      <4> QED BY <4>1, <4>2
    <3>2. Exists(m) \/ m \in toolRun[o].missed
      BY <3>1, RunKnown
    <3> QED BY <1>10, <1>13, <2>1, <2>3, <3>2
  <2> QED BY <2>2, <2>3
<1>17. ASSUME NEW o \in ToolRuns, NEW p \in modules, outDir'[p].by = o
       PROVE  toolRun'[o].staged = Len(Makes[o])
  <2>1. CASE p = path
    BY <1>2, <1>9, <1>10, <1>12, <1>17, <2>1 DEF n
  <2>2. CASE p # path
    BY <1>10, <1>12, <1>17, <2>2 DEF OutputInv, modules
  <2> QED BY <2>1, <2>2
<1>18. ASSUME path = Barrel, NEW m \in Own(r) \cup t.preserved
       PROVE  m \in modules /\ m # path /\ (Exists(m) \/ m \in t.missed)
  <2>1. m \in GeneratedModules /\ m # path
    BY <1>1, <1>5, <1>18
  <2>2. CASE m \in t.preserved
    BY <1>2, <2>1, <2>2, RunKnown DEF modules
  <2>3. CASE m \in Own(r)
    <3>1. PICK i \in 1 .. n : Makes[r][i] = m
      BY <2>3, MadeFiles DEF n
    <3>2. i # t.renamed + 1
      BY <1>6, <2>1, <3>1
    <3>3. i \in 1 .. t.renamed
      BY <1>1, <1>5, <1>18, <3>2
    <3> QED BY <1>2, <2>1, <3>1, <3>3, RunKnown DEF modules
  <2> QED BY <1>18, <2>2, <2>3
<1>19. BarrelResolves'
  <2>1. CASE path = Barrel
    <3>1. outDir'[Barrel].entries = Own(r) \cup t.preserved /\ deleted' = t.missed
      BY <1>2, <1>9, <1>12, <2>1
    <3> QED BY <1>13, <1>18, <2>1, <3>1 DEF BarrelResolves
  <2>2. CASE path # Barrel
    <3>1. outDir'[Barrel].entries = outDir[Barrel].entries /\ deleted' = deleted \ {path}
      BY <1>2, <1>12, <2>2 DEF modules
    <3>2. outDir[Barrel].entries \subseteq modules
      BY <1>11 DEF modules, FileRecords
    <3> QED BY <1>13, <3>1, <3>2 DEF OutputInv, BarrelResolves
  <2> QED BY <2>1, <2>2
<1>20. ASSUME ~overlapped' PROVE BarrelInv'
  <2>1. ~overlapped /\ BarrelInv
    BY <1>2, <1>20 DEF OutputInv
  <2>2. \A o, u \in ToolRuns : UnderWay(o)' /\ UnderWay(u)' => o = u
    BY <1>10, <2>1 DEF BarrelInv
  <2>3. CASE path = Barrel
    <3>1. outDir'[Barrel].entries = Own(r) \cup t.preserved
      BY <1>9, <1>12, <2>3
    <3>2. Barrel \in Range(Makes[r])
      BY <1>5, <2>3
    <3>3. listed' \subseteq outDir'[Barrel].entries
      <4>1. CASE r \in WholeTree
        BY <1>2, <2>3, <3>1, <4>1
      <4>2. CASE r \notin WholeTree
        <5>1. Merges(r)
          BY <1>2, <3>2, <4>2 DEF Merges, n
        <5>2. listed \ deleted \subseteq Own(r) \cup t.preserved \cup t.left
          BY <2>1, <5>1 DEF BarrelInv
        <5> QED BY <1>2, <1>3, <2>3, <3>1, <4>2, <5>2
      <4> QED BY <4>1, <4>2
    <3>4. \A o \in ToolRuns : ~Merges(o)'
      <4> SUFFICES ASSUME NEW o \in ToolRuns, Merges(o)' PROVE FALSE
        OBVIOUS
      <4>1. UnderWay(o)' /\ toolRun'[o].renamed < Len(Makes[o])
        BY DEF Merges
      <4>2. o = r
        BY <1>2, <1>10, <2>2, <4>1
      <4>3. toolRun'[r].renamed = n
        BY <1>5, <1>10, <2>3
      <4> QED BY <1>1, <4>1, <4>2, <4>3 DEF n
    <3> QED BY <2>2, <3>3, <3>4 DEF BarrelInv
  <2>4. CASE path # Barrel
    <3>1. /\ outDir'[Barrel] = outDir[Barrel] /\ deleted' = deleted \ {path} /\ listed' = listed
          /\ path \in Own(r)
      BY <1>2, <1>5, <1>12, <2>4 DEF modules
    <3>2. ASSUME NEW o \in ToolRuns, Merges(o)'
          PROVE  /\ listed' \ deleted' \subseteq Own(o) \cup toolRun'[o].preserved \cup toolRun'[o].left
                 /\ toolRun'[o].left = {}
      <4>1. UnderWay(o)' /\ o \notin WholeTree /\ Barrel \in Range(Makes[o])
        BY <3>2 DEF Merges
      <4>2. o = r
        BY <1>2, <1>10, <2>2, <4>1
      <4>3. Merges(r)
        BY <1>2, <4>1, <4>2 DEF Merges, n
      <4>4. listed \ deleted \subseteq Own(r) \cup t.preserved \cup t.left
        BY <2>1, <4>3 DEF BarrelInv
      <4> QED BY <1>3, <1>10, <3>1, <4>2, <4>4
    <3> QED BY <2>1, <2>2, <3>1, <3>2 DEF BarrelInv
  <2> QED BY <2>3, <2>4
<1> QED BY <1>14, <1>15, <1>16, <1>17, <1>19, <1>20 DEF OutputInv, modules

LEMMA DeletesModuleKeeps ==
    ASSUME OutputInv, NEW d \in GeneratedModules, DeletesModule(d) PROVE OutputInv'
<1> DEFINE modules == GeneratedModules \cup {Barrel}
           More(o) == [toolRun[o] EXCEPT !.missed = @ \cup {d}]
<1>1. /\ deletes < MaxDeletes /\ deletes' = deletes + 1
      /\ outDir' = [outDir EXCEPT ![d] = NoFile] /\ deleted' = deleted \cup {d}
      /\ toolRun' = [o \in ToolRuns |-> IF UnderWay(o) THEN More(o) ELSE toolRun[o]]
      /\ UNCHANGED <<listed, overlapped>>
  BY DEF DeletesModule
<1>2. /\ outDir \in [modules -> FileRecords] /\ NoFile \in FileRecords /\ d \in modules /\ d # Barrel
      /\ NoFile.by = "nobody" /\ deletes \in 0 .. MaxDeletes /\ MaxDeletes \in Nat
      /\ deleted \subseteq GeneratedModules /\ listed \subseteq GeneratedModules
      /\ overlapped \in BOOLEAN
  BY OutputAssumption DEF OutputInv, OutputTyped, NoFile, FileRecords, GeneratedModules
<1>3. /\ outDir' \in [modules -> FileRecords] /\ outDir'[d] = NoFile
      /\ \A p \in modules : p # d => outDir'[p] = outDir[p]
  BY <1>1, <1>2
<1>4. \A m \in modules : m # d => (Exists(m)' <=> Exists(m))
  BY <1>3 DEF Exists
<1>5. ASSUME NEW o \in ToolRuns
      PROVE  /\ More(o) \in RunRecords /\ More(o).missed = toolRun[o].missed \cup {d}
             /\ More(o).preserved = toolRun[o].preserved /\ More(o).left = toolRun[o].left
             /\ More(o).staged = toolRun[o].staged /\ More(o).staging = toolRun[o].staging
             /\ More(o).outcome = toolRun[o].outcome /\ More(o).at = toolRun[o].at
             /\ More(o).renamed = toolRun[o].renamed
  <2>1. toolRun[o] \in RunRecords
    BY RunKnown
  <2> QED BY <2>1 DEF RunRecords
<1> HIDE DEF More
<1>6. toolRun' \in [ToolRuns -> RunRecords]
  <2>1. \A o \in ToolRuns : toolRun[o] \in RunRecords
    BY RunKnown
  <2> QED BY <1>1, <1>5, <2>1
<1>7. ASSUME NEW o \in ToolRuns
      PROVE  /\ toolRun'[o].preserved = toolRun[o].preserved /\ toolRun'[o].left = toolRun[o].left
             /\ toolRun'[o].staged = toolRun[o].staged /\ toolRun'[o].staging = toolRun[o].staging
             /\ toolRun'[o].outcome = toolRun[o].outcome /\ toolRun'[o].at = toolRun[o].at
             /\ toolRun'[o].renamed = toolRun[o].renamed
             /\ UnderWay(o) => toolRun'[o].missed = toolRun[o].missed \cup {d}
  <2>1. toolRun'[o] = IF UnderWay(o) THEN More(o) ELSE toolRun[o]
    BY <1>1
  <2> QED BY <1>5, <2>1
<1>8. \A o \in ToolRuns : UnderWay(o)' <=> UnderWay(o)
  BY <1>7 DEF UnderWay
<1>9. OutputTyped'
  BY <1>1, <1>2, <1>3, <1>6 DEF OutputTyped
<1> HIDE DEF modules
<1>10. ASSUME NEW o \in ToolRuns PROVE Progress(o, toolRun'[o])
  <2>1. Progress(o, toolRun[o])
    BY RunKnown
  <2> QED BY <1>7, <2>1 DEF Progress
<1>11. ASSUME NEW o \in ToolRuns PROVE Counted(o)'
  <2> SUFFICES ASSUME UnderWay(o), NEW m \in GeneratedModules,
                      m \in toolRun'[o].preserved
                          \/ (\E i \in 1 .. toolRun'[o].renamed : Makes[o][i] = m)
               PROVE  Exists(m)' \/ m \in toolRun'[o].missed
    BY <1>8 DEF Counted
  <2>1. Exists(m) \/ m \in toolRun[o].missed
    BY <1>7, RunKnown
  <2> QED BY <1>4, <1>7, <2>1 DEF modules
<1>12. ASSUME NEW o \in ToolRuns, NEW p \in modules, outDir'[p].by = o
       PROVE  toolRun'[o].staged = Len(Makes[o])
  <2>1. p # d
    BY <1>2, <1>3, <1>12, MadeFiles
  <2> QED BY <1>3, <1>7, <1>12, <2>1 DEF OutputInv, modules
<1>13. outDir'[Barrel] = outDir[Barrel] /\ outDir[Barrel].entries \subseteq modules
  BY <1>2, <1>3 DEF modules, FileRecords
<1>14. BarrelResolves'
  BY <1>1, <1>4, <1>13 DEF OutputInv, BarrelResolves
<1>15. ASSUME ~overlapped' PROVE BarrelInv'
  <2>1. BarrelInv
    BY <1>1, <1>15 DEF OutputInv
  <2>2. \A o \in ToolRuns : Merges(o)' <=> Merges(o)
    BY <1>7, <1>8 DEF Merges
  <2>3. \A o \in ToolRuns : toolRun[o].left \subseteq modules
    BY RunKnown DEF RunRecords, modules
  <2>4. ASSUME NEW o \in ToolRuns, Merges(o)
        PROVE  /\ listed \ deleted' \subseteq Own(o) \cup toolRun'[o].preserved \cup toolRun'[o].left
               /\ \A m \in toolRun'[o].left : Exists(m)' \/ m \in deleted'
    BY <1>1, <1>4, <1>7, <2>1, <2>3, <2>4 DEF BarrelInv
  <2> QED BY <1>1, <1>8, <1>13, <2>1, <2>2, <2>4 DEF BarrelInv
<1> QED BY <1>9, <1>10, <1>11, <1>12, <1>14, <1>15 DEF OutputInv, modules

(***************************************************************************)
(* The theorem.                                                            *)
(***************************************************************************)
LEMMA OutputStarts == ASSUME OutputInit PROVE OutputInv
<1>1. PICK b \in {NoFile, HandWritten} :
          outDir = [p \in GeneratedModules \cup {Barrel} |-> IF p = Barrel THEN b ELSE NoFile]
  BY DEF OutputInit
<1>2. /\ toolRun = [r \in ToolRuns |-> IdleRun] /\ deletes = 0 /\ deleted = {} /\ listed = {}
      /\ overlapped = FALSE
  BY DEF OutputInit
<1>3. /\ NoFile \in FileRecords /\ HandWritten \in FileRecords
      /\ NoFile.by = "nobody" /\ HandWritten.by = "user" /\ b.entries = {}
  BY DEF NoFile, HandWritten, FileRecords
<1>4. /\ IdleRun \in RunRecords /\ IdleRun.at = "idle" /\ IdleRun.preserved = {}
      /\ IdleRun.left = {} /\ ~IdleRun.staging /\ IdleRun.staged = 0 /\ IdleRun.renamed = 0
      /\ IdleRun.outcome = "none"
  BY DEF IdleRun, RunRecords
<1>5. OutputTyped
  <2>1. outDir \in [GeneratedModules \cup {Barrel} -> FileRecords]
    BY <1>1, <1>3
  <2>2. toolRun \in [ToolRuns -> RunRecords]
    BY <1>2, <1>4
  <2>3. deletes \in 0 .. MaxDeletes
    BY <1>2, OutputAssumption
  <2> QED BY <1>2, <2>1, <2>2, <2>3 DEF OutputTyped
<1>6. \A r \in ToolRuns : toolRun[r] = IdleRun /\ ~UnderWay(r)
  BY <1>2, <1>4 DEF UnderWay
<1>7. \A r \in ToolRuns : Progress(r, toolRun[r]) /\ Counted(r)
  <2> TAKE r \in ToolRuns
  <2>1. Len(Makes[r]) \in Nat \ {0}
    BY MadeFiles
  <2> QED BY <1>4, <1>6, <2>1 DEF Progress, Counted
<1>8. \A r \in ToolRuns, p \in GeneratedModules \cup {Barrel} : outDir[p].by # r
  BY <1>1, <1>3, MadeFiles
<1>9. outDir[Barrel].entries = {}
  BY <1>1, <1>3
<1>10. BarrelResolves /\ BarrelInv
  BY <1>2, <1>6, <1>9 DEF BarrelResolves, BarrelInv, Merges
<1> QED BY <1>5, <1>7, <1>8, <1>10 DEF OutputInv

LEMMA OutputKeeps == ASSUME OutputInv, [OutputNext]_outputVars PROVE OutputInv'
<1>1. ASSUME NEW r \in ToolRuns,
             \/ ReadsBarrel(r) \/ OpensStaging(r) \/ StagesFile(r) \/ RenamesFile(r)
             \/ PublishFails(r) \/ RemovesStaging(r) \/ ToolKilled(r)
      PROVE  OutputInv'
  BY <1>1, ReadsBarrelKeeps, OpensStagingKeeps, StagesFileKeeps, RenamesFileKeeps,
     PublishFailsKeeps, RemovesStagingKeeps, ToolKilledKeeps
<1>2. ASSUME NEW r \in ToolRuns, NEW m \in GeneratedModules, ChecksEntry(r, m) PROVE OutputInv'
  BY <1>2, ChecksEntryKeeps
<1>3. ASSUME NEW m \in GeneratedModules, DeletesModule(m) PROVE OutputInv'
  BY <1>3, DeletesModuleKeeps
<1>4. CASE UNCHANGED outputVars
  BY <1>4 DEF outputVars, OutputInv, OutputTyped, Counted, UnderWay, Exists, BarrelResolves,
              BarrelInv, Merges
<1> QED BY <1>1, <1>2, <1>3, <1>4 DEF OutputNext

LEMMA OutputInvGives == ASSUME OutputInv PROVE OutputKept
<1>1. DOMAIN outDir = GeneratedModules \cup {Barrel}
  BY DEF OutputInv, OutputTyped
<1>2. ASSUME NEW r \in ToolRuns
      PROVE  /\ toolRun[r].at \in {"idle", "merging", "staging", "renaming", "cleaning",
                                   "ended", "killed"}
             /\ toolRun[r].staged \in 0 .. Len(Makes[r])
             /\ toolRun[r].renamed <= toolRun[r].staged
             /\ toolRun[r].preserved \cup toolRun[r].left \subseteq GeneratedModules \ Own(r)
             /\ toolRun[r].outcome = "done" => toolRun[r].renamed = Len(Makes[r])
             /\ toolRun[r].staging => UnderWay(r) \/ toolRun[r].at = "killed"
  <2>1. toolRun[r] \in RunRecords /\ Progress(r, toolRun[r]) /\ Len(Makes[r]) \in Nat
    BY RunKnown
  <2> QED BY <2>1 DEF RunRecords, Progress, UnderWay
<1>3. OutputTypeOK
  BY <1>1, <1>2 DEF OutputInv, OutputTyped, OutputTypeOK
<1>4. AllOrStaged
  BY <1>1, <1>2 DEF OutputInv, AllOrStaged
<1>5. BarrelComplete
  BY DEF OutputInv, BarrelInv, BarrelComplete
<1> QED BY <1>3, <1>4, <1>5 DEF OutputInv, OutputKept

\* However runs of the tool overlap, fail or are killed, each module that the barrel
\* exports is there unless the user removed it; runs one after another lose no entry of
\* the barrel; and a run that fails before its first rename has changed nothing.
THEOREM OutputKeptHolds == OutputSpec => []OutputKept
<1>1. OutputInit => OutputInv
  BY OutputStarts
<1>2. OutputInv /\ [OutputNext]_outputVars => OutputInv'
  BY OutputKeeps
<1>3. OutputInv => OutputKept
  BY OutputInvGives
<1> QED BY <1>1, <1>2, <1>3, PTL DEF OutputSpec

(***************************************************************************)
(* The invariant of the compiler.                                          *)
(***************************************************************************)
Targets == Paths \cup ({"include"} \X DOMAIN Bundled)
QueueItems == [path : Paths, schema : BOOLEAN, required : BOOLEAN]

\* What each field of a snapshot may be.
FileMaps == UNION {[P -> SchemaContents] : P \in SUBSET Paths}
Queues == Seq(QueueItems)
IncludeQueues == Seq({"include"} \X DOMAIN Bundled)
Marks == SUBSET (BOOLEAN \X Targets)
Items == [path : Paths \cup {NoPath}, schema : BOOLEAN, required : BOOLEAN]
DepLists == Seq(Dependencies)
Heads == Targets \cup {NoPath}
OpenPaths == Paths \cup {NoPath}
Founds == SchemaContents \cup {Missing}

SnapshotRecords ==
    [files : FileMaps, bytes : Nat, queue : Queues, includeQueue : IncludeQueues,
     scheduled : Marks, scanned : SUBSET Targets, item : Items, at : Heads,
     deps : DepLists, root : Nat \ {0}, opened : OpenPaths, found : Founds]

\* One job at a time has a timer, and is aborted when the compiler is disposed of.
JobsKept ==
    /\ job \in [Jobs -> [at : {"idle", "snapshot", "worker", "done", "failed", "refused"},
                         aborted : BOOLEAN, timer : BOOLEAN]]
    /\ \A j \in Jobs : /\ job[j].timer <=> job[j].at \in {"snapshot", "worker"}
                       /\ disposed /\ job[j].timer => job[j].aborted
    /\ \A i, j \in Jobs : job[i].timer /\ job[j].timer => i = j

DiskKept ==
    /\ schemaDisk \in [Paths -> SchemaContents \cup {Missing}]
    /\ edits \in 0 .. MaxEdits /\ unedited \in BOOLEAN /\ disposed \in BOOLEAN

\* A file that is being read is not loaded; its bytes are charged, and so is its entry.
Opening(s) == IF s.opened = NoPath THEN 0 ELSE s.found.size
BudgetKept(s) ==
    /\ s.opened # NoPath => s.opened \notin DOMAIN s.files /\ s.found \in SchemaContents
    /\ s.bytes = Cardinality(BytesOf(Bundled)) + Cardinality(BytesOf(s.files)) + Opening(s)
Fits(s) ==
    /\ s.bytes <= MaxBytes
    /\ Cardinality(Entries(s.files, s.opened)) <= MaxEntries

CompilerInv ==
    /\ JobsKept /\ DiskKept
    /\ snapshot \in SnapshotRecords /\ BudgetKept(snapshot)
    /\ (\E j \in Jobs : job[j].timer) => Fits(snapshot)

(***************************************************************************)
(* Files, their bytes and their number.                                    *)
(***************************************************************************)
LEMMA ImageFinite == ASSUME NEW f, IsFiniteSet(DOMAIN f), f = [x \in DOMAIN f |-> f[x]]
                     PROVE  IsFiniteSet({f[x] : x \in DOMAIN f})
<1> DEFINE R == {f[x] : x \in DOMAIN f}
<1>1. f \in Surjection(DOMAIN f, R)
  BY DEF Surjection
<1> QED BY <1>1, FS_Surjection

LEMMA PathsFinite == IsFiniteSet(Paths)
<1>1. Len(ImportRoots) \in Nat /\ ImportRoots \in [1 .. Len(ImportRoots) -> Mounts]
  <2>1. ImportRoots \in Seq(Mounts)
    BY CompilerAssumption
  <2> QED BY <2>1, LenProperties
<1>2. IsFiniteSet(1 .. Len(ImportRoots))
  BY <1>1, FS_Interval
<1>3. IsFiniteSet(Range(ImportRoots))
  BY <1>1, <1>2, ImageFinite DEF Range
<1>4. IsFiniteSet(Mounts)
  BY <1>3, FS_AddElement DEF Mounts
<1> QED BY <1>4, CompilerAssumption, FS_Product DEF Paths

LEMMA BytesFinite == ASSUME NEW files, IsFiniteSet(DOMAIN files),
                            \A p \in DOMAIN files : files[p].size \in Nat
                     PROVE  /\ IsFiniteSet(BytesOf(files))
                            /\ Cardinality(BytesOf(files)) \in Nat
<1> DEFINE f == [p \in DOMAIN files |-> {p} \X (1 .. files[p].size)]
           T == {f[p] : p \in DOMAIN f}
<1>1. f = [p \in DOMAIN f |-> f[p]] /\ DOMAIN f = DOMAIN files
  OBVIOUS
<1>2. IsFiniteSet(T)
  <2> HIDE DEF f
  <2> QED BY <1>1, ImageFinite
<1>3. \A t \in T : IsFiniteSet(t)
  <2> TAKE t \in T
  <2>1. PICK p \in DOMAIN files : t = {p} \X (1 .. files[p].size)
    OBVIOUS
  <2>2. IsFiniteSet({p}) /\ IsFiniteSet(1 .. files[p].size)
    <3>1. files[p].size \in Int /\ 1 \in Int
      OBVIOUS
    <3> QED BY <3>1, FS_Singleton, FS_Interval
  <2> QED BY <2>1, <2>2, FS_Product
<1>4. BytesOf(files) = UNION T
  BY DEF BytesOf
<1> HIDE DEF T
<1> QED BY <1>2, <1>3, <1>4, FS_UNION, FS_CardinalityType

LEMMA BudgetLimits == MaxBytes \in Nat /\ MaxEntries \in Nat /\ MaxEdits \in Nat
BY CompilerAssumption

LEMMA BundledFinite == /\ IsFiniteSet(DOMAIN Bundled) /\ Cardinality(DOMAIN Bundled) \in Nat
                       /\ Cardinality(BytesOf(Bundled)) \in Nat
<1>1. IsFiniteSet(DOMAIN Bundled)
  BY CompilerAssumption, FS_Subset
<1>2. ASSUME NEW n \in DOMAIN Bundled PROVE Bundled[n].size \in Nat
  <2>1. Bundled[n] \in SchemaContents
    BY CompilerAssumption DEF SchemaContents, Range
  <2> QED BY <2>1, CompilerAssumption
<1> QED BY <1>1, <1>2, BytesFinite, FS_CardinalityType

\* The nodes of finitely many files can be counted.
LEMMA NodesFinite == ASSUME NEW P, IsFiniteSet(P) PROVE Cardinality(TreeNodes(P)) \in Nat
<1> DEFINE f == [p \in P |-> <<p[1], "">>]
           D == {f[p] : p \in DOMAIN f}
<1>1. DOMAIN f = P /\ f = [p \in DOMAIN f |-> f[p]]
  OBVIOUS
<1>2. IsFiniteSet(D)
  <2> HIDE DEF f
  <2> QED BY <1>1, ImageFinite
<1>3. TreeNodes(P) = P \cup D
  BY DEF TreeNodes
<1> HIDE DEF D
<1> QED BY <1>2, <1>3, FS_Union, FS_CardinalityType

LEMMA FilesFinite == ASSUME NEW s \in SnapshotRecords
                     PROVE  /\ s.files = [p \in DOMAIN s.files |-> s.files[p]]
                            /\ DOMAIN s.files \subseteq Paths
                            /\ \A p \in DOMAIN s.files : s.files[p] \in SchemaContents
                            /\ IsFiniteSet(DOMAIN s.files)
                            /\ Cardinality(DOMAIN s.files) \in Nat
                            /\ IsFiniteSet(BytesOf(s.files))
                            /\ Cardinality(BytesOf(s.files)) \in Nat
<1>1. PICK P \in SUBSET Paths : s.files \in [P -> SchemaContents]
  BY DEF SnapshotRecords, FileMaps
<1>2. IsFiniteSet(DOMAIN s.files)
  BY <1>1, PathsFinite, FS_Subset
<1>3. \A p \in DOMAIN s.files : s.files[p].size \in Nat
  BY <1>1, CompilerAssumption
<1> QED BY <1>1, <1>2, <1>3, BytesFinite, FS_CardinalityType

LEMMA EntriesCounted ==
    ASSUME NEW s \in SnapshotRecords, NEW p PROVE Cardinality(Entries(s.files, p)) \in Nat
<1>1. IsFiniteSet(IncludePaths)
  BY BundledFinite, FS_Singleton, FS_Product DEF IncludePaths
<1>2. IsFiniteSet(DOMAIN s.files)
  BY FilesFinite
<1>3. IsFiniteSet({p} \ {NoPath})
  BY FS_Singleton, FS_Subset
<1>4. IsFiniteSet(IncludePaths \cup DOMAIN s.files \cup ({p} \ {NoPath}))
  BY <1>1, <1>2, <1>3, FS_Union
<1> QED BY <1>4, NodesFinite DEF Entries

\* A file that has been read adds its bytes, and itself to the files.
LEMMA FileAdded ==
    ASSUME NEW s \in SnapshotRecords, NEW p \in Paths, p \notin DOMAIN s.files,
           NEW c \in SchemaContents
    PROVE  LET more == WithFile(s.files, p, c)
           IN /\ more \in FileMaps
              /\ Cardinality(BytesOf(more)) = Cardinality(BytesOf(s.files)) + c.size
<1> DEFINE F == s.files
           D == DOMAIN F \cup {p}
           more == WithFile(s.files, p, c)
<1>0. c.size \in Nat
  BY CompilerAssumption
<1>1. more = [x \in D |-> IF x = p THEN c ELSE F[x]]
  BY DEF WithFile
<1>2. more \in [D -> SchemaContents] /\ D \in SUBSET Paths
  BY <1>1, FilesFinite
<1>3. BytesOf(more) = BytesOf(F) \cup ({p} \X (1 .. c.size))
  <2>1. \A x \in DOMAIN F : more[x] = F[x]
    BY <1>1
  <2>2. more[p] = c /\ DOMAIN more = D
    BY <1>1
  <2> HIDE DEF more, F
  <2> QED BY <2>1, <2>2 DEF BytesOf
<1>4. BytesOf(F) \cap ({p} \X (1 .. c.size)) = {}
  BY DEF BytesOf
<1>5. IsFiniteSet({p} \X (1 .. c.size)) /\ Cardinality({p} \X (1 .. c.size)) = c.size
  <2>1. IsFiniteSet({p}) /\ Cardinality({p}) = 1
    BY FS_Singleton
  <2>2. IsFiniteSet(1 .. c.size) /\ Cardinality(1 .. c.size) = c.size
    BY <1>0, FS_Interval
  <2>3. /\ IsFiniteSet({p} \X (1 .. c.size))
        /\ Cardinality({p} \X (1 .. c.size)) = Cardinality({p}) * Cardinality(1 .. c.size)
    BY <2>1, <2>2, FS_Product
  <2> QED BY <1>0, <2>1, <2>2, <2>3
<1>6. Cardinality(BytesOf(more)) = Cardinality(BytesOf(F)) + c.size
  <2>1. IsFiniteSet(BytesOf(F)) /\ Cardinality(BytesOf(F)) \in Nat
    BY FilesFinite
  <2>2. Cardinality({}) = 0
    BY FS_EmptySet
  <2> DEFINE U == BytesOf(F)
             V == {p} \X (1 .. c.size)
  <2>3. Cardinality(U \cup V) = Cardinality(U) + Cardinality(V) - Cardinality(U \cap V)
    <3>1. IsFiniteSet(U) /\ IsFiniteSet(V)
      BY <1>5, <2>1
    <3> HIDE DEF U, V
    <3> QED BY <3>1, FS_Union
  <2>4. Cardinality(U \cap V) = 0 /\ Cardinality(V) = c.size
    BY <1>4, <1>5, <2>2
  <2>5. BytesOf(more) = U \cup V
    BY <1>3
  <2> HIDE DEF U, V
  <2>6. Cardinality(BytesOf(more)) = Cardinality(U) + c.size
    BY <1>0, <2>1, <2>3, <2>4, <2>5
  <2> QED BY <2>6 DEF U
<1> QED BY <1>2, <1>6 DEF FileMaps

(***************************************************************************)
(* The steps of a snapshot.                                                *)
(***************************************************************************)
\* Two snapshots with the same files, charges and file that is read.
Alike(s, t) ==
    s.files = t.files /\ s.bytes = t.bytes /\ s.opened = t.opened /\ s.found = t.found

LEMMA NamesApart == NoPath \notin Targets /\ \A t \in Targets :
                        t[1] = "include" <=> t \in {"include"} \X DOMAIN Bundled
<1>1. "include" \notin Mounts /\ "" \notin Mounts
  BY CompilerAssumption
<1> QED BY <1>1 DEF Targets, Paths, NoPath

LEMMA ScansQuiet ==
    ASSUME NEW s \in SnapshotRecords, NEW path \in Targets, NEW schema \in BOOLEAN,
           NEW content \in SchemaContents
    PROVE  LET t == Scans(s, path, schema, content)
           IN t \in SnapshotRecords /\ Alike(t, s)
<1> DEFINE deps == SchemaDependencies(content.text)
           seen == s.scanned \cup {path}
           left == [s EXCEPT !.item.path = NoPath]
           went == [s EXCEPT !.item.path = NoPath, !.scanned = @ \cup {path}, !.at = path,
                             !.deps = SchemaDependencies(content.text), !.root = 1]
           item == [s.item EXCEPT !.path = NoPath]
<1>1. deps \in DepLists /\ path \in Heads /\ 1 \in Nat \ {0}
  <2>1. deps \in Seq(Dependencies)
    BY CompilerAssumption
  <2> HIDE DEF deps
  <2> QED BY <2>1 DEF DepLists, Heads
<1>2. item \in Items /\ seen \in SUBSET Targets
  BY DEF SnapshotRecords, Items
<1>3. /\ left = [s EXCEPT !.item = item]
      /\ went = [s EXCEPT !.item = item, !.scanned = seen, !.at = path, !.deps = deps,
                          !.root = 1]
  BY DEF SnapshotRecords
<1> HIDE DEF deps, seen, item
<1>4. left \in SnapshotRecords /\ went \in SnapshotRecords
  <2> HIDE DEF left, went
  <2> QED BY <1>1, <1>2, <1>3 DEF SnapshotRecords
<1>5. Alike(left, s) /\ Alike(went, s)
  <2> HIDE DEF left, went
  <2> QED BY <1>3 DEF SnapshotRecords, Alike
<1>6. Scans(s, path, schema, content) \in {left, went}
  BY DEF Scans
<1> HIDE DEF left, went
<1> QED BY <1>4, <1>5, <1>6

LEMMA NextQuiet ==
    ASSUME NEW s \in SnapshotRecords, s.deps # <<>>
    PROVE  Next1(s) \in SnapshotRecords /\ Alike(Next1(s), s)
<1> DEFINE rest == Tail(s.deps)
<1>1. s.deps \in Seq(Dependencies)
  BY DEF SnapshotRecords, DepLists
<1>2. rest \in DepLists
  BY <1>1, HeadTailProperties DEF DepLists
<1>3. Next1(s) = [s EXCEPT !.deps = rest, !.root = 1]
  BY DEF Next1
<1> HIDE DEF rest
<1>4. Next1(s) \in SnapshotRecords
  <2>1. 1 \in Nat \ {0}
    OBVIOUS
  <2> QED BY <1>2, <1>3, <2>1 DEF SnapshotRecords
<1>5. Alike(Next1(s), s)
  BY <1>3 DEF Alike, SnapshotRecords
<1> QED BY <1>4, <1>5

LEMMA SchedulesQuiet ==
    ASSUME snapshot \in SnapshotRecords, snapshot.deps # <<>>,
           NEW dep \in Dependencies, NEW target \in Targets
    PROVE  LET t == Schedules(dep, target)
           IN t \in SnapshotRecords /\ Alike(t, snapshot)
<1> DEFINE q == Append(snapshot.queue, Item(target, dep.schema, FALSE))
           i == Append(snapshot.includeQueue, target)
           s1 == [snapshot EXCEPT !.scheduled = @ \cup {<<TRUE, target>>}, !.includeQueue = i]
           s2 == [snapshot EXCEPT !.scheduled = @ \cup {<<dep.schema, target>>}, !.queue = q]
<1>1. CASE target[1] = "include"
  <2>1. i \in IncludeQueues
    BY <1>1, NamesApart, AppendProperties DEF SnapshotRecords, IncludeQueues
  <2>2. s1 \in SnapshotRecords /\ Alike(s1, snapshot) /\ s1.deps # <<>>
    <3> DEFINE marks == snapshot.scheduled \cup {<<TRUE, target>>}
    <3>1. marks \in Marks
      <4>1. snapshot.scheduled \in Marks /\ <<TRUE, target>> \in BOOLEAN \X Targets
        BY DEF SnapshotRecords
      <4> QED BY <4>1 DEF Marks
    <3>2. s1 = [snapshot EXCEPT !.scheduled = marks, !.includeQueue = i]
      OBVIOUS
    <3> HIDE DEF i, marks, s1
    <3> QED BY <2>1, <3>1, <3>2 DEF SnapshotRecords, Alike
  <2>3. Next1(s1) \in SnapshotRecords /\ Alike(Next1(s1), s1)
    <3> HIDE DEF s1
    <3> QED BY <2>2, NextQuiet
  <2>4. Next1(snapshot) \in SnapshotRecords /\ Alike(Next1(snapshot), snapshot)
    BY NextQuiet
  <2>5. Schedules(dep, target) \in {Next1(s1), Next1(snapshot)}
    BY <1>1 DEF Schedules
  <2> HIDE DEF s1
  <2> QED BY <2>2, <2>3, <2>4, <2>5 DEF Alike
<1>2. CASE target[1] # "include"
  <2>1. q \in Queues
    <3>1. Item(target, dep.schema, FALSE) \in QueueItems
      BY <1>2, NamesApart DEF Item, QueueItems, Targets, Dependencies
    <3> QED BY <3>1, AppendProperties DEF SnapshotRecords, Queues
  <2>2. s2 \in SnapshotRecords /\ Alike(s2, snapshot) /\ s2.deps # <<>>
    <3> DEFINE marks == snapshot.scheduled \cup {<<dep.schema, target>>}
    <3>1. marks \in Marks
      BY DEF SnapshotRecords, Marks, Dependencies
    <3>2. s2 = [snapshot EXCEPT !.scheduled = marks, !.queue = q]
      OBVIOUS
    <3> HIDE DEF q, marks, s2
    <3> QED BY <2>1, <3>1, <3>2 DEF SnapshotRecords, Alike
  <2>3. Next1(s2) \in SnapshotRecords /\ Alike(Next1(s2), s2)
    <3> HIDE DEF s2
    <3> QED BY <2>2, NextQuiet
  <2>4. Next1(snapshot) \in SnapshotRecords /\ Alike(Next1(snapshot), snapshot)
    BY NextQuiet
  <2>5. Schedules(dep, target) \in {Next1(s2), Next1(snapshot)}
    BY <1>2 DEF Schedules
  <2> HIDE DEF s2
  <2> QED BY <2>2, <2>3, <2>4, <2>5 DEF Alike
<1> QED BY <1>1, <1>2

LEMMA FreshTyped == FreshSnapshot \in SnapshotRecords /\ BudgetKept(FreshSnapshot)
<1> DEFINE q == [i \in DOMAIN Entrypoints |-> Item(Entrypoints[i], TRUE, TRUE)]
<1>1. q \in Seq(QueueItems)
  <2>1. Entrypoints \in Seq(Paths)
    BY CompilerAssumption
  <2>2. \A p \in Paths : Item(p, TRUE, TRUE) \in QueueItems
    BY DEF Item, QueueItems
  <2>3. Len(Entrypoints) \in Nat /\ DOMAIN Entrypoints = 1 .. Len(Entrypoints)
        /\ \A i \in DOMAIN Entrypoints : Entrypoints[i] \in Paths
    BY <2>1, LenProperties
  <2>4. \A i \in 1 .. Len(Entrypoints) : q[i] \in QueueItems
    BY <2>2, <2>3
  <2>5. q = [i \in 1 .. Len(Entrypoints) |-> q[i]]
    BY <2>3
  <2> HIDE DEF q
  <2> QED BY <2>3, <2>4, <2>5, IsASeq
<1>2. {<<TRUE, p>> : p \in Range(Entrypoints)} \subseteq BOOLEAN \X Targets
  <2>1. Entrypoints \in Seq(Paths)
    BY CompilerAssumption
  <2>2. Range(Entrypoints) \subseteq Paths
    <3>1. DOMAIN Entrypoints = 1 .. Len(Entrypoints)
          /\ \A i \in 1 .. Len(Entrypoints) : Entrypoints[i] \in Paths
      BY <2>1, LenProperties
    <3> QED BY <3>1 DEF Range
  <2>3. ASSUME NEW p \in Paths PROVE <<TRUE, p>> \in BOOLEAN \X Targets
    BY DEF Targets
  <2> QED BY <2>2, <2>3
<1>3. <<>> \in [{} -> SchemaContents] /\ DOMAIN <<>> = {} /\ {} \in SUBSET Paths
  OBVIOUS
<1>4. BytesOf(<<>>) = {} /\ Cardinality({}) = 0
  BY <1>3, FS_EmptySet DEF BytesOf
<1>5. <<>> \in Seq({"include"} \X DOMAIN Bundled) /\ <<>> \in Seq(Dependencies)
  BY EmptySeq
<1>6. Cardinality(BytesOf(Bundled)) \in Nat
  BY BundledFinite
<1>7. Item(NoPath, FALSE, FALSE) \in Items
  BY DEF Item, Items
<1> HIDE DEF q
<1>8. FreshSnapshot = [files |-> <<>>, bytes |-> Cardinality(BytesOf(Bundled)), queue |-> q,
          includeQueue |-> <<>>, scheduled |-> {<<TRUE, p>> : p \in Range(Entrypoints)},
          scanned |-> {}, item |-> Item(NoPath, FALSE, FALSE), at |-> NoPath, deps |-> <<>>,
          root |-> 1, opened |-> NoPath, found |-> Missing]
  BY DEF FreshSnapshot, q
<1>9. FreshSnapshot \in SnapshotRecords
  <2>1. <<>> \in FileMaps /\ q \in Queues /\ <<>> \in IncludeQueues /\ <<>> \in DepLists
    BY <1>1, <1>3, <1>5 DEF FileMaps, Queues, IncludeQueues, DepLists
  <2>2. /\ {<<TRUE, p>> : p \in Range(Entrypoints)} \in Marks /\ NoPath \in Heads
        /\ NoPath \in OpenPaths /\ Missing \in Founds
    BY <1>2 DEF Marks, Heads, OpenPaths, Founds
  <2> DEFINE marks == {<<TRUE, p>> : p \in Range(Entrypoints)}
             none == Item(NoPath, FALSE, FALSE)
             size == Cardinality(BytesOf(Bundled))
  <2>3. {} \in SUBSET Targets /\ 1 \in Nat \ {0}
    OBVIOUS
  <2>4. none \in Items /\ marks \in Marks /\ size \in Nat
    BY <1>6, <1>7, <2>2
  <2>5. FreshSnapshot = [files |-> <<>>, bytes |-> size, queue |-> q,
          includeQueue |-> <<>>, scheduled |-> marks,
          scanned |-> {}, item |-> none, at |-> NoPath, deps |-> <<>>,
          root |-> 1, opened |-> NoPath, found |-> Missing]
    BY <1>8
  <2> HIDE DEF marks, none, size
  <2> QED BY <2>1, <2>2, <2>3, <2>4, <2>5 DEF SnapshotRecords
<1>10. BudgetKept(FreshSnapshot)
  <2>1. /\ FreshSnapshot.opened = NoPath /\ FreshSnapshot.files = <<>>
        /\ FreshSnapshot.bytes = Cardinality(BytesOf(Bundled))
    BY <1>8
  <2>2. Cardinality(BytesOf(FreshSnapshot.files)) = 0
    BY <1>4, <2>1
  <2> QED BY <1>6, <2>1, <2>2 DEF BudgetKept, Opening
<1> QED BY <1>9, <1>10

\* What a step of a snapshot does: the job ends, follows the queue and dependencies, charges
\* a file, adds one that has been read, or passes the snapshot on.
JobFails(j) == JobEnds(j, "failed")
Walks == \E s \in SnapshotRecords : Alike(s, snapshot) /\ Continues(s)
Charges ==
    \E p \in Paths \ DOMAIN snapshot.files, c \in SchemaContents :
        snapshot.opened = NoPath /\ ~OverBudget(p, c) /\ Continues(Charged(snapshot, p, c))
Adds ==
    /\ snapshot.opened # NoPath
    /\ \E s \in SnapshotRecords, c \in SchemaContents :
           /\ c.size = snapshot.found.size /\ Continues(s)
           /\ s.files = WithFile(snapshot.files, snapshot.opened, c)
           /\ s.bytes = snapshot.bytes /\ s.opened = NoPath
PassesOn(j) ==
    /\ job' = [job EXCEPT ![j].at = "worker"]
    /\ UNCHANGED <<schemaDisk, edits, unedited, disposed, snapshot>>

SnapshotKind(j) == JobFails(j) \/ Walks \/ Charges \/ Adds \/ PassesOn(j)

LEMMA OpensKind ==
    ASSUME CompilerInv, NEW j \in Jobs, NEW p \in Paths, ~Loaded(p), snapshot.opened = NoPath,
           schemaDisk[p] # Missing, OpensFile(j, p)
    PROVE  SnapshotKind(j)
<1>1. schemaDisk[p] \in SchemaContents
  BY DEF CompilerInv, DiskKept
<1> QED BY <1>1 DEF OpensFile, SnapshotKind, JobFails, Charges, Loaded

LEMMA TakesKind == ASSUME CompilerInv, NEW j \in Jobs, TakesItem(j) PROVE SnapshotKind(j)
<1>0. snapshot \in SnapshotRecords
  BY DEF CompilerInv
<1>1. CASE job[j].aborted
  BY <1>1 DEF TakesItem, SnapshotKind, JobFails
<1>2. CASE ~job[j].aborted /\ snapshot.queue # <<>>
  <2> DEFINE h == Head(snapshot.queue)
             t == Tail(snapshot.queue)
             s == [snapshot EXCEPT !.item = h, !.queue = t]
  <2>1. h \in Items /\ t \in Queues
    <3>1. snapshot.queue \in Seq(QueueItems)
      BY <1>0 DEF SnapshotRecords, Queues
    <3>2. h \in QueueItems /\ t \in Seq(QueueItems)
      BY <1>2, <3>1, HeadTailProperties
    <3> HIDE DEF h, t
    <3> QED BY <3>2 DEF Items, QueueItems, Queues
  <2>2. Continues(s)
    BY <1>2 DEF TakesItem
  <2>3. s \in SnapshotRecords /\ Alike(s, snapshot)
    <3> HIDE DEF h, t
    <3> QED BY <1>0, <2>1 DEF SnapshotRecords, Alike
  <2> QED BY <2>2, <2>3 DEF SnapshotKind, Walks
<1>3. CASE ~job[j].aborted /\ snapshot.queue = <<>>
  <2> DEFINE p == Head(snapshot.includeQueue)
             t == Tail(snapshot.includeQueue)
             s == [snapshot EXCEPT !.includeQueue = t]
             r == Scans(s, p, TRUE, Bundled[p[2]])
  <2>1. p \in {"include"} \X DOMAIN Bundled /\ t \in IncludeQueues
    <3>1. snapshot.includeQueue \in Seq({"include"} \X DOMAIN Bundled)
          /\ snapshot.includeQueue # <<>>
      BY <1>0, <1>3 DEF SnapshotRecords, IncludeQueues, TakesItem
    <3> QED BY <3>1, HeadTailProperties DEF IncludeQueues
  <2>2. Continues(r)
    BY <1>3 DEF TakesItem
  <2>3. s \in SnapshotRecords /\ Alike(s, snapshot)
    <3> HIDE DEF p, t
    <3> QED BY <1>0, <2>1 DEF SnapshotRecords, Alike
  <2>4. p \in Targets /\ Bundled[p[2]] \in SchemaContents
    <3>1. p[2] \in DOMAIN Bundled
      BY <2>1
    <3>2. Bundled[p[2]] \in Range(Bundled)
      BY <3>1 DEF Range
    <3> QED BY <2>1, <3>2, CompilerAssumption DEF Targets, SchemaContents
  <2>5. r \in SnapshotRecords /\ Alike(r, s)
    <3> HIDE DEF s, p
    <3> QED BY <2>3, <2>4, ScansQuiet
  <2>6. Alike(r, snapshot)
    <3> HIDE DEF s, r
    <3> QED BY <2>3, <2>5 DEF Alike
  <2> HIDE DEF r
  <2> QED BY <2>2, <2>5, <2>6 DEF SnapshotKind, Walks
<1> QED BY <1>1, <1>2, <1>3

LEMMA ItemGone == ASSUME NEW s \in SnapshotRecords
                  PROVE  LET t == [s EXCEPT !.item.path = NoPath]
                         IN t \in SnapshotRecords /\ Alike(t, s)
<1> DEFINE item == [s.item EXCEPT !.path = NoPath]
           t == [s EXCEPT !.item.path = NoPath]
<1>1. item \in Items
  BY DEF SnapshotRecords, Items
<1>2. t = [s EXCEPT !.item = item]
  BY DEF SnapshotRecords
<1> HIDE DEF item, t
<1>3. t \in SnapshotRecords
  BY <1>1, <1>2 DEF SnapshotRecords
<1>4. Alike(t, s)
  BY <1>2 DEF SnapshotRecords, Alike
<1> QED BY <1>3, <1>4 DEF t

LEMMA LoadsKind == ASSUME CompilerInv, NEW j \in Jobs, LoadsItem(j) PROVE SnapshotKind(j)
<1> DEFINE i == snapshot.item
<1>0. /\ snapshot \in SnapshotRecords /\ i \in Items /\ i.path \in Paths
      /\ i.schema \in BOOLEAN /\ snapshot.opened = NoPath
  <2>1. snapshot \in SnapshotRecords /\ i \in Items
    BY DEF CompilerInv, SnapshotRecords
  <2> QED BY <2>1 DEF LoadsItem, Items, AtHead
<1>1. CASE Loaded(i.path)
  <2> DEFINE r == Scans(snapshot, i.path, i.schema, snapshot.files[i.path])
  <2>1. snapshot.files[i.path] \in SchemaContents /\ i.path \in Targets
    BY <1>0, <1>1, FilesFinite DEF Loaded, Targets
  <2>2. r \in SnapshotRecords /\ Alike(r, snapshot)
    BY <1>0, <2>1, ScansQuiet
  <2>3. Continues(r)
    BY <1>1 DEF LoadsItem
  <2> HIDE DEF r
  <2> QED BY <2>2, <2>3 DEF SnapshotKind, Walks
<1>2. CASE ~Loaded(i.path) /\ schemaDisk[i.path] # Missing
  BY <1>0, <1>2, OpensKind DEF LoadsItem
<1>3. CASE ~Loaded(i.path) /\ schemaDisk[i.path] = Missing
  <2>1. CASE i.required
    BY <1>3, <2>1 DEF LoadsItem, SnapshotKind, JobFails
  <2>2. CASE ~i.required
    <3> DEFINE t == [snapshot EXCEPT !.item.path = NoPath]
    <3>1. Continues(t)
      BY <1>3, <2>2 DEF LoadsItem
    <3>2. t \in SnapshotRecords /\ Alike(t, snapshot)
      BY <1>0, ItemGone
    <3> HIDE DEF t
    <3> QED BY <3>1, <3>2 DEF SnapshotKind, Walks
  <2> QED BY <2>1, <2>2
<1> QED BY <1>1, <1>2, <1>3

LEMMA ReadsKind == ASSUME CompilerInv, NEW j \in Jobs, ReadsFile(j) PROVE SnapshotKind(j)
<1> DEFINE p == snapshot.opened
<1>1. PICK c \in {snapshot.found, schemaDisk[p]} \ {Missing} :
          IF job[j].aborted \/ c.size # snapshot.found.size THEN JobEnds(j, "failed")
          ELSE LET s == [snapshot EXCEPT !.files = WithFile(@, p, c), !.opened = NoPath,
                                         !.found = Missing]
               IN Continues(IF snapshot.at = NoPath
                            THEN Scans(s, p, snapshot.item.schema, c) ELSE s)
  BY DEF ReadsFile
<1>2. /\ snapshot \in SnapshotRecords /\ p \in Paths /\ p \notin DOMAIN snapshot.files
      /\ snapshot.found \in SchemaContents /\ p # NoPath
  BY DEF CompilerInv, BudgetKept, ReadsFile, SnapshotRecords, OpenPaths
<1>3. c \in SchemaContents
  BY <1>1, <1>2 DEF CompilerInv, DiskKept
<1>4. CASE job[j].aborted \/ c.size # snapshot.found.size
  BY <1>1, <1>4 DEF SnapshotKind, JobFails
<1>5. CASE ~(job[j].aborted \/ c.size # snapshot.found.size)
  <2> DEFINE more == WithFile(snapshot.files, p, c)
             s == [snapshot EXCEPT !.files = WithFile(@, p, c), !.opened = NoPath,
                                   !.found = Missing]
             r == Scans(s, p, snapshot.item.schema, c)
  <2>1. more \in FileMaps
    BY <1>2, <1>3, FileAdded
  <2>2. s = [snapshot EXCEPT !.files = more, !.opened = NoPath, !.found = Missing]
    BY <1>2 DEF SnapshotRecords
  <2>3. s \in SnapshotRecords
    <3>1. NoPath \in OpenPaths /\ Missing \in Founds
      BY DEF OpenPaths, Founds
    <3> HIDE DEF more, s
    <3> QED BY <1>2, <2>1, <2>2, <3>1 DEF SnapshotRecords
  <2>4. s.files = more /\ s.bytes = snapshot.bytes /\ s.opened = NoPath
    <3> HIDE DEF more, s
    <3> QED BY <1>2, <2>2 DEF SnapshotRecords
  <2>5. r \in SnapshotRecords /\ Alike(r, s)
    <3>1. p \in Targets /\ snapshot.item.schema \in BOOLEAN
      BY <1>2 DEF Targets, SnapshotRecords, Items
    <3> HIDE DEF s
    <3> QED BY <1>3, <2>3, <3>1, ScansQuiet
  <2>6. PICK t \in {s, r} : Continues(t)
    BY <1>1, <1>5
  <2>7. t \in SnapshotRecords /\ Alike(t, s)
    <3> HIDE DEF s, r
    <3> QED BY <2>3, <2>5, <2>6 DEF Alike
  <2> HIDE DEF s, r
  <2> QED BY <1>2, <1>3, <1>5, <2>4, <2>6, <2>7 DEF SnapshotKind, Adds, Alike
<1> QED BY <1>4, <1>5

LEMMA FollowsKind == ASSUME CompilerInv, NEW j \in Jobs, FollowsDep(j) PROVE SnapshotKind(j)
<1> DEFINE dep == Head(snapshot.deps)
           mount == snapshot.at[1]
           here == <<mount, dep.name>>
           candidate == <<ImportRoots[snapshot.root], dep.name>>
<1>0. /\ snapshot \in SnapshotRecords /\ snapshot.opened = NoPath /\ snapshot.at \in Targets
  BY DEF CompilerInv, FollowsDep, SnapshotRecords, Heads
<1>1. CASE snapshot.deps = <<>>
  <2> DEFINE t == [snapshot EXCEPT !.at = NoPath]
  <2>1. Continues(t)
    BY <1>1 DEF FollowsDep
  <2>2. NoPath \in Heads
    BY DEF Heads
  <2>3. t \in SnapshotRecords /\ Alike(t, snapshot)
    BY <1>0, <2>2 DEF SnapshotRecords, Alike
  <2> QED BY <2>1, <2>3 DEF SnapshotKind, Walks
<1>2. CASE snapshot.deps # <<>>
  <2>1. dep \in Dependencies
    <3>1. snapshot.deps \in Seq(Dependencies)
      BY <1>0 DEF SnapshotRecords, DepLists
    <3> QED BY <1>2, <3>1, HeadTailProperties
  <2>2. dep.name \in SchemaNames
    BY <2>1 DEF Dependencies
  <2> HIDE DEF dep
  <2>3. ASSUME NEW t \in Targets, Continues(Schedules(dep, t)) PROVE SnapshotKind(j)
    <3>1. Schedules(dep, t) \in SnapshotRecords /\ Alike(Schedules(dep, t), snapshot)
      BY <1>0, <1>2, <2>1, SchedulesQuiet
    <3> QED BY <2>3, <3>1 DEF SnapshotKind, Walks
  <2>4. ASSUME NEW t \in Targets, Follows(j, dep, t) PROVE SnapshotKind(j)
    BY <2>3, <2>4 DEF Follows, SnapshotKind, JobFails
  <2>5. CASE ~dep.absolute /\ mount # "include"
    <3>1. here \in Targets
      BY <1>0, <2>2, <2>5 DEF Targets, Paths
    <3>2. Follows(j, dep, here)
      BY <1>2, <2>5 DEF FollowsDep, dep
    <3> HIDE DEF here
    <3> QED BY <2>4, <3>1, <3>2
  <2>6. CASE ~(~dep.absolute /\ mount # "include")
             /\ (~dep.absolute \/ snapshot.root > Len(ImportRoots))
    <3> DEFINE inc == <<"include", dep.name>>
    <3>1. Continues(IF dep.name \in DOMAIN Bundled
                    THEN Schedules(dep, inc) ELSE Next1(snapshot))
      BY <1>2, <2>6 DEF FollowsDep, dep
    <3>2. CASE dep.name \in DOMAIN Bundled
      <4>1. inc \in Targets
        BY <3>2 DEF Targets
      <4> HIDE DEF inc
      <4> QED BY <2>3, <3>1, <3>2, <4>1
    <3>3. CASE dep.name \notin DOMAIN Bundled
      <4>1. Next1(snapshot) \in SnapshotRecords /\ Alike(Next1(snapshot), snapshot)
        BY <1>0, <1>2, NextQuiet
      <4> QED BY <3>1, <3>3, <4>1 DEF SnapshotKind, Walks
    <3> QED BY <3>2, <3>3
  <2>7. CASE dep.absolute /\ ~(snapshot.root > Len(ImportRoots))
    <3>1. candidate \in Paths
      <4>1. ImportRoots \in Seq(Mounts) /\ snapshot.root \in Nat \ {0}
        BY <1>0, CompilerAssumption DEF SnapshotRecords
      <4>2. ImportRoots[snapshot.root] \in Mounts
        BY <2>7, <4>1, ElementOfSeq, LenProperties
      <4> QED BY <2>2, <4>2 DEF Paths
    <3>2. IF Loaded(candidate) THEN Follows(j, dep, candidate)
          ELSE IF schemaDisk[candidate] = Missing
          THEN Continues([snapshot EXCEPT !.root = @ + 1])
          ELSE OpensFile(j, candidate)
      BY <1>2, <2>7 DEF FollowsDep, dep
    <3> HIDE DEF candidate
    <3>3. CASE Loaded(candidate)
      BY <2>4, <3>1, <3>2, <3>3 DEF Targets
    <3>4. CASE ~Loaded(candidate) /\ schemaDisk[candidate] = Missing
      <4> DEFINE t == [snapshot EXCEPT !.root = @ + 1]
      <4>1. t \in SnapshotRecords /\ Alike(t, snapshot)
        BY <1>0 DEF SnapshotRecords, Alike
      <4>2. Continues(t)
        BY <3>2, <3>4
      <4> HIDE DEF t
      <4> QED BY <4>1, <4>2 DEF SnapshotKind, Walks
    <3>5. CASE ~Loaded(candidate) /\ schemaDisk[candidate] # Missing
      BY <1>0, <3>1, <3>2, <3>5, OpensKind
    <3> QED BY <3>3, <3>4, <3>5
  <2> QED BY <2>5, <2>6, <2>7
<1> QED BY <1>1, <1>2

LEMMA StepKind == ASSUME CompilerInv, NEW j \in Jobs, SnapshotStep(j) PROVE SnapshotKind(j)
<1>1. ASSUME EntersWorker(j) PROVE SnapshotKind(j)
  BY <1>1 DEF EntersWorker, SnapshotKind, JobFails, PassesOn
<1> QED BY <1>1, TakesKind, LoadsKind, ReadsKind, FollowsKind DEF SnapshotStep

(***************************************************************************)
(* Each step keeps the invariant.                                          *)
(***************************************************************************)
LEMMA FreshFits == ASSUME IncludesFit PROVE Fits(FreshSnapshot)
<1>1. /\ FreshSnapshot.opened = NoPath /\ FreshSnapshot.files = <<>>
      /\ FreshSnapshot.bytes = Cardinality(BytesOf(Bundled))
  BY DEF FreshSnapshot
<1>2. Entries(FreshSnapshot.files, FreshSnapshot.opened) = TreeNodes(IncludePaths)
  <2>1. DOMAIN FreshSnapshot.files = {} /\ {FreshSnapshot.opened} \ {NoPath} = {}
    BY <1>1
  <2>2. IncludePaths \cup {} \cup {} = IncludePaths
    OBVIOUS
  <2> QED BY <2>1, <2>2 DEF Entries
<1> QED BY <1>1, <1>2 DEF Fits, IncludesFit

\* A step that moves jobs, none of which gets a timer.
LEMMA JobsMove ==
    ASSUME CompilerInv, JobsKept', DiskKept', UNCHANGED snapshot,
           \A j \in Jobs : job'[j].timer => job[j].timer
    PROVE  CompilerInv'
BY DEF CompilerInv

LEMMA EndsKeeps ==
    ASSUME CompilerInv, NEW j \in Jobs, job[j].at \in {"snapshot", "worker"},
           NEW how \in {"done", "failed"}, JobEnds(j, how)
    PROVE  CompilerInv'
<1>1. /\ JobsKept /\ DiskKept
      /\ job' = [job EXCEPT ![j].at = how, ![j].timer = FALSE]
      /\ UNCHANGED <<schemaDisk, edits, unedited, disposed, snapshot>>
  BY DEF CompilerInv, JobEnds
<1>2. DiskKept'
  BY <1>1 DEF DiskKept
<1>3. JobsKept'
  BY <1>1 DEF JobsKept
<1>4. \A i \in Jobs : job'[i].timer => job[i].timer
  BY <1>1 DEF JobsKept
<1> QED BY <1>1, <1>2, <1>3, <1>4, JobsMove

LEMMA PassesOnKeeps ==
    ASSUME CompilerInv, NEW j \in Jobs, Snapshots(j), PassesOn(j) PROVE CompilerInv'
<1>1. /\ JobsKept /\ DiskKept /\ job[j].at = "snapshot"
      /\ job' = [job EXCEPT ![j].at = "worker"]
      /\ UNCHANGED <<schemaDisk, edits, unedited, disposed, snapshot>>
  BY DEF CompilerInv, PassesOn, Snapshots
<1>2. DiskKept'
  BY <1>1 DEF DiskKept
<1>3. JobsKept'
  BY <1>1 DEF JobsKept
<1>4. \A i \in Jobs : job'[i].timer => job[i].timer
  BY <1>1 DEF JobsKept
<1> QED BY <1>1, <1>2, <1>3, <1>4, JobsMove

\* A step that changes the snapshot only.
LEMMA SnapshotMoves ==
    ASSUME CompilerInv, NEW s \in SnapshotRecords, Continues(s), BudgetKept(s),
           Fits(snapshot) => Fits(s)
    PROVE  CompilerInv'
<1>1. snapshot' = s /\ UNCHANGED <<schemaDisk, edits, unedited, disposed, job>>
  BY DEF Continues
<1>2. JobsKept' /\ DiskKept'
  BY <1>1 DEF CompilerInv, JobsKept, DiskKept
<1>3. BudgetKept(snapshot')
  BY <1>1
<1>4. (\E j \in Jobs : job'[j].timer) => Fits(snapshot')
  BY <1>1 DEF CompilerInv
<1> QED BY <1>1, <1>2, <1>3, <1>4 DEF CompilerInv, BudgetKept, Fits, Opening

LEMMA WalksKeeps == ASSUME CompilerInv, Walks PROVE CompilerInv'
<1>1. PICK s \in SnapshotRecords : Alike(s, snapshot) /\ Continues(s)
  BY DEF Walks
<1>2. BudgetKept(snapshot)
  BY DEF CompilerInv
<1>3. BudgetKept(s) /\ (Fits(snapshot) => Fits(s))
  BY <1>1, <1>2 DEF BudgetKept, Alike, Fits, Opening
<1> QED BY <1>1, <1>3, SnapshotMoves

LEMMA ChargesKeeps == ASSUME CompilerInv, Charges PROVE CompilerInv'
<1>1. PICK p \in Paths \ DOMAIN snapshot.files, c \in SchemaContents :
          snapshot.opened = NoPath /\ ~OverBudget(p, c) /\ Continues(Charged(snapshot, p, c))
  BY DEF Charges
<1> DEFINE s == Charged(snapshot, p, c)
           total == snapshot.bytes + c.size
<1>2. /\ snapshot \in SnapshotRecords /\ BudgetKept(snapshot) /\ c.size \in Nat
      /\ p # NoPath
  BY CompilerAssumption, NamesApart DEF CompilerInv, Targets
<1>3. /\ Cardinality(BytesOf(Bundled)) \in Nat /\ Cardinality(DOMAIN Bundled) \in Nat
      /\ Cardinality(BytesOf(snapshot.files)) \in Nat
      /\ Cardinality(DOMAIN snapshot.files) \in Nat /\ snapshot.bytes \in Nat
  BY <1>2, BundledFinite, FilesFinite DEF SnapshotRecords
<1>4. s = [snapshot EXCEPT !.opened = p, !.found = c, !.bytes = total]
  BY <1>2 DEF Charged, SnapshotRecords
<1>5. p \in OpenPaths /\ c \in Founds /\ total \in Nat
  BY <1>2, <1>3 DEF OpenPaths, Founds
<1> HIDE DEF total
<1>6. s \in SnapshotRecords
  <2> HIDE DEF s
  <2> QED BY <1>2, <1>4, <1>5 DEF SnapshotRecords
<1>7. s.opened = p /\ s.found = c /\ s.bytes = total /\ s.files = snapshot.files
  <2> HIDE DEF s
  <2> QED BY <1>2, <1>4 DEF SnapshotRecords
<1> HIDE DEF s
<1>8. BudgetKept(s)
  BY <1>1, <1>2, <1>3, <1>7 DEF BudgetKept, Opening, total
<1>9. Fits(s)
  <2>1. Cardinality(Entries(snapshot.files, p)) \in Nat
    BY <1>2, EntriesCounted
  <2>2. /\ ~(snapshot.bytes + c.size > MaxBytes)
        /\ ~(Cardinality(Entries(snapshot.files, p)) > MaxEntries)
    BY <1>1 DEF OverBudget
  <2> QED BY <1>2, <1>3, <1>7, <2>1, <2>2, BudgetLimits DEF Fits, total
<1>10. Continues(s)
  BY <1>1 DEF s
<1> QED BY <1>6, <1>8, <1>9, <1>10, SnapshotMoves

LEMMA AddsKeeps == ASSUME CompilerInv, Adds PROVE CompilerInv'
<1>1. PICK s \in SnapshotRecords, c \in SchemaContents :
           /\ c.size = snapshot.found.size /\ Continues(s)
           /\ s.files = WithFile(snapshot.files, snapshot.opened, c)
           /\ s.bytes = snapshot.bytes /\ s.opened = NoPath
  BY DEF Adds
<1>2. /\ snapshot \in SnapshotRecords /\ BudgetKept(snapshot) /\ snapshot.opened # NoPath
      /\ snapshot.opened \in Paths /\ snapshot.opened \notin DOMAIN snapshot.files
      /\ c.size \in Nat
  BY CompilerAssumption DEF CompilerInv, Adds, BudgetKept, SnapshotRecords, OpenPaths
<1>3. /\ Cardinality(BytesOf(Bundled)) \in Nat /\ Cardinality(DOMAIN Bundled) \in Nat
      /\ Cardinality(BytesOf(snapshot.files)) \in Nat
      /\ Cardinality(DOMAIN snapshot.files) \in Nat
  BY <1>2, BundledFinite, FilesFinite
<1>4. Cardinality(BytesOf(s.files)) = Cardinality(BytesOf(snapshot.files)) + c.size
  BY <1>1, <1>2, FileAdded
<1>5. BudgetKept(s)
  BY <1>1, <1>2, <1>3, <1>4 DEF BudgetKept, Opening
<1>6. Entries(s.files, s.opened) = Entries(snapshot.files, snapshot.opened)
  <2>1. DOMAIN s.files \cup ({s.opened} \ {NoPath})
            = DOMAIN snapshot.files \cup ({snapshot.opened} \ {NoPath})
    BY <1>1, <1>2 DEF WithFile
  <2>2. IncludePaths \cup DOMAIN s.files \cup ({s.opened} \ {NoPath})
            = IncludePaths \cup DOMAIN snapshot.files \cup ({snapshot.opened} \ {NoPath})
    BY <2>1
  <2> QED BY <2>2 DEF Entries
<1>7. Fits(snapshot) => Fits(s)
  BY <1>1, <1>6 DEF Fits
<1> QED BY <1>1, <1>5, <1>7, SnapshotMoves

LEMMA CompileKeeps == ASSUME CompilerInv, NEW j \in Jobs, Compile(j) PROVE CompilerInv'
<1>1. JobsKept /\ DiskKept /\ job[j].at = "idle"
      /\ UNCHANGED <<schemaDisk, edits, disposed>>
  BY DEF CompilerInv, Compile
<1>2. CASE disposed \/ Busy
  <2>1. job' = [job EXCEPT ![j].at = "refused"] /\ UNCHANGED <<snapshot, unedited>>
    BY <1>2 DEF Compile
  <2>2. JobsKept' /\ DiskKept' /\ \A i \in Jobs : job'[i].timer => job[i].timer
    BY <1>1, <2>1 DEF JobsKept, DiskKept
  <2> QED BY <2>1, <2>2, JobsMove
<1>3. CASE ~disposed /\ ~Busy
  <2>1. PICK aborted \in BOOLEAN :
            job' = [job EXCEPT ![j] = [at |-> IF IncludesFit THEN "snapshot" ELSE "failed",
                                       aborted |-> aborted, timer |-> IncludesFit]]
    BY <1>3 DEF Compile
  <2>2. snapshot' = FreshSnapshot /\ unedited' = TRUE
    BY <1>3 DEF Compile
  <2>3. \A i \in Jobs : ~job[i].timer
    BY <1>1, <1>3 DEF JobsKept, Busy
  <2>4. IncludesFit \in BOOLEAN
    BY DEF IncludesFit
  <2>5. JobsKept'
    BY <1>1, <1>3, <2>1, <2>3, <2>4 DEF JobsKept
  <2>6. DiskKept'
    BY <1>1, <2>2 DEF DiskKept
  <2>7. (\E i \in Jobs : job'[i].timer) => IncludesFit
    BY <1>1, <2>1, <2>3, <2>4 DEF JobsKept
  <2>8. snapshot' \in SnapshotRecords /\ BudgetKept(snapshot')
    BY <2>2, FreshTyped
  <2>9. (\E i \in Jobs : job'[i].timer) => Fits(snapshot')
    BY <2>2, <2>7, FreshFits
  <2> QED BY <2>5, <2>6, <2>8, <2>9 DEF CompilerInv, BudgetKept, Fits, Opening
<1> QED BY <1>2, <1>3

LEMMA CompilerStep == ASSUME CompilerInv, [CompilerNext]_compilerVars PROVE CompilerInv'
<1>0. JobsKept /\ DiskKept
  BY DEF CompilerInv
<1>1. ASSUME UNCHANGED compilerVars PROVE CompilerInv'
  <2>1. UNCHANGED <<schemaDisk, edits, unedited, disposed, job, snapshot>>
    BY <1>1 DEF compilerVars
  <2>2. JobsKept' /\ DiskKept'
    BY <1>0, <2>1 DEF JobsKept, DiskKept
  <2> QED BY <2>1, <2>2, JobsMove
<1>2. ASSUME DisposeCompiler PROVE CompilerInv'
  <2>1. /\ disposed' = TRUE
        /\ job' = [j \in Jobs |-> IF job[j].at \in {"snapshot", "worker"}
                                  THEN [job[j] EXCEPT !.aborted = TRUE] ELSE job[j]]
        /\ UNCHANGED <<schemaDisk, edits, unedited, snapshot>>
    BY <1>2 DEF DisposeCompiler
  <2>2. JobsKept'
    <3> DEFINE R == [at : {"idle", "snapshot", "worker", "done", "failed", "refused"},
                     aborted : BOOLEAN, timer : BOOLEAN]
    <3>0. ASSUME NEW j \in Jobs PROVE job[j] \in R /\ [job[j] EXCEPT !.aborted = TRUE] \in R
      BY <1>0 DEF JobsKept
    <3>1. job' \in [Jobs -> R]
      <4> HIDE DEF R
      <4> QED BY <2>1, <3>0
    <3>2. ASSUME NEW j \in Jobs
          PROVE  /\ job'[j].timer = job[j].timer /\ job'[j].at = job[j].at
                 /\ job'[j].timer => job'[j].aborted
      BY <1>0, <2>1 DEF JobsKept
    <3> QED BY <1>0, <3>1, <3>2 DEF JobsKept
  <2>3. DiskKept'
    BY <1>0, <2>1 DEF DiskKept
  <2>4. \A j \in Jobs : job'[j].timer => job[j].timer
    BY <1>0, <2>1 DEF JobsKept
  <2> QED BY <2>1, <2>2, <2>3, <2>4, JobsMove
<1>3. ASSUME NEW p \in Paths, NEW c \in Edited \cup {Missing}, EditSchema(p, c)
      PROVE  CompilerInv'
  <2>1. /\ schemaDisk' = [schemaDisk EXCEPT ![p] = c] /\ edits < MaxEdits
        /\ edits' = edits + 1 /\ unedited' = FALSE /\ UNCHANGED <<disposed, job, snapshot>>
    BY <1>3 DEF EditSchema
  <2>2. c \in SchemaContents \cup {Missing}
    BY DEF SchemaContents
  <2>3. DiskKept'
    <3>1. schemaDisk' \in [Paths -> SchemaContents \cup {Missing}]
      BY <1>0, <2>1, <2>2 DEF DiskKept
    <3>2. edits' \in 0 .. MaxEdits
      BY <1>0, <2>1, BudgetLimits DEF DiskKept
    <3> QED BY <1>0, <2>1, <3>1, <3>2 DEF DiskKept
  <2>4. JobsKept'
    BY <1>0, <2>1 DEF JobsKept
  <2> QED BY <2>1, <2>3, <2>4, JobsMove
<1>4. ASSUME NEW j \in Jobs, AbortJob(j) PROVE CompilerInv'
  <2>1. /\ job' = [job EXCEPT ![j].aborted = TRUE]
        /\ UNCHANGED <<schemaDisk, edits, unedited, disposed, snapshot>>
    BY <1>4 DEF AbortJob
  <2>2. JobsKept'
    <3>1. job' \in [Jobs -> [at : {"idle", "snapshot", "worker", "done", "failed", "refused"},
                              aborted : BOOLEAN, timer : BOOLEAN]]
      BY <1>0, <2>1 DEF JobsKept
    <3>2. ASSUME NEW i \in Jobs
          PROVE  /\ job'[i].timer = job[i].timer /\ job'[i].at = job[i].at
                 /\ job[i].aborted => job'[i].aborted
      BY <1>0, <2>1 DEF JobsKept
    <3> QED BY <1>0, <2>1, <3>1, <3>2 DEF JobsKept
  <2>3. DiskKept'
    BY <1>0, <2>1 DEF DiskKept
  <2>4. \A i \in Jobs : job'[i].timer => job[i].timer
    BY <1>0, <2>1 DEF JobsKept
  <2> QED BY <2>1, <2>2, <2>3, <2>4, JobsMove
<1>5. ASSUME NEW j \in Jobs, WorkerAnswers(j) PROVE CompilerInv'
  BY <1>5, EndsKeeps DEF WorkerAnswers
<1>6. ASSUME NEW j \in Jobs, SnapshotStep(j) PROVE CompilerInv'
  <2>1. Snapshots(j)
    BY <1>6 DEF SnapshotStep, TakesItem, LoadsItem, ReadsFile, FollowsDep, EntersWorker
  <2>2. SnapshotKind(j)
    BY <1>6, StepKind
  <2>3. ASSUME JobFails(j) PROVE CompilerInv'
    BY <2>1, <2>3, EndsKeeps DEF JobFails, Snapshots
  <2> QED BY <2>1, <2>2, <2>3, WalksKeeps, ChargesKeeps, AddsKeeps, PassesOnKeeps DEF SnapshotKind
<1> QED BY <1>1, <1>2, <1>3, <1>4, <1>5, <1>6, CompileKeeps DEF CompilerNext

LEMMA CompilerStarts == CompilerInit => CompilerInv
<1> SUFFICES ASSUME CompilerInit PROVE CompilerInv
  OBVIOUS
<1>1. JobsKept
  BY DEF CompilerInit, JobsKept
<1>2. DiskKept
  <2>1. PICK d \in Disks : schemaDisk = d
    BY DEF CompilerInit
  <2>2. d = [p \in Paths |-> d[p]]
    BY CompilerAssumption
  <2>3. ASSUME NEW p \in Paths PROVE d[p] \in SchemaContents \cup {Missing}
    <3>1. d[p] \in Range(d)
      BY <2>2 DEF Range
    <3> QED BY <3>1 DEF SchemaContents
  <2>4. d \in [Paths -> SchemaContents \cup {Missing}]
    BY <2>2, <2>3
  <2>5. edits \in 0 .. MaxEdits /\ unedited \in BOOLEAN /\ disposed \in BOOLEAN
    <3>1. edits = 0 /\ unedited = TRUE /\ disposed = FALSE
      BY DEF CompilerInit
    <3>2. edits \in 0 .. MaxEdits
      BY <3>1, BudgetLimits
    <3>3. unedited \in BOOLEAN /\ disposed \in BOOLEAN
      BY <3>1
    <3> QED BY <3>2, <3>3
  <2> QED BY <2>1, <2>4, <2>5 DEF DiskKept
<1>3. snapshot = FreshSnapshot /\ \A j \in Jobs : ~job[j].timer
  BY DEF CompilerInit
<1> QED BY <1>1, <1>2, <1>3, FreshTyped DEF CompilerInv

LEMMA OneBusy == ASSUME CompilerInv
                 PROVE  Cardinality({j \in Jobs : job[j].at \in {"snapshot", "worker"}}) <= 1
<1> DEFINE S == {j \in Jobs : job[j].at \in {"snapshot", "worker"}}
<1>1. \A i, j \in S : i = j
  BY DEF CompilerInv, JobsKept
<1>2. CASE S = {}
  BY <1>2, FS_EmptySet
<1>3. CASE S # {}
  <2>1. PICK j : S = {j}
    <3>1. PICK j \in S : TRUE
      BY <1>3
    <3>2. S = {j}
      BY <1>1, <3>1
    <3> QED BY <3>2
  <2>2. Cardinality({j}) = 1
    BY FS_Singleton
  <2>3. Cardinality(S) = 1
    BY <2>1, <2>2
  <2>4. Cardinality(S) <= 1
    <3> HIDE DEF S
    <3> QED BY <2>3
  <2> QED BY <2>4 DEF S
<1> QED BY <1>2, <1>3

\* An editor may write between any two steps of a job, and the job may be aborted or the
\* compiler disposed of: the bytes and entries charged are those of the files in the
\* snapshot, also while one is being read, no job exceeds its budget, and one job at a time
\* has the compiler, aborted as soon as that is disposed of.
THEOREM CompilerKept == CompilerSpec => [](CompilerTypeOK /\ BudgetExact /\ OneJobRuns)
<1>1. CompilerInv => CompilerTypeOK /\ BudgetExact /\ OneJobRuns
  <2> SUFFICES ASSUME CompilerInv PROVE CompilerTypeOK /\ BudgetExact /\ OneJobRuns
    OBVIOUS
  <2>1. snapshot \in SnapshotRecords /\ JobsKept /\ DiskKept /\ BudgetKept(snapshot)
    BY DEF CompilerInv
  <2>2. CompilerTypeOK
    <3>1. DOMAIN snapshot.files \subseteq Paths /\ snapshot.bytes \in Nat
      BY <2>1, FilesFinite DEF SnapshotRecords
    <3> QED BY <2>1, <3>1 DEF CompilerTypeOK, JobsKept, DiskKept
  <2>3. OneJobRuns
    BY <2>1, OneBusy DEF OneJobRuns, JobsKept
  <2>4. BudgetExact
    <3>1. Busy => Fits(snapshot)
      BY <2>1 DEF CompilerInv, Busy, JobsKept
    <3> QED BY <2>1, <3>1 DEF BudgetExact, BudgetKept, Fits, Opening
  <2> QED BY <2>2, <2>3, <2>4
<1> QED BY CompilerStarts, CompilerStep, <1>1, PTL DEF CompilerSpec
=============================================================================
