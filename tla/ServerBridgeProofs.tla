------------------------- MODULE ServerBridgeProofs -------------------------
(* Theorems about ServerBridge: type correctness, the exactness of the         *)
(* pipeline reference counts, what answer holds count and keep alive, and that *)
(* the bridge's books agree with what its caller holds.                        *)
EXTENDS ServerBridge, FiniteSetTheorems, TLAPS

(***************************************************************************)
(* Counting occurrences in a capTable.                                     *)
(***************************************************************************)
\* The occurrences of a capability among some slots are finite in number.
LEMMA OccurrencesNat ==
    ASSUME NEW table, NEW slots \in SUBSET Slots, NEW c
    PROVE  Occurrences(table, slots, c) \in Nat
<1>1. IsFiniteSet(Slots)
  BY SetsAssumption
<1>2. SlotsOf(table, slots, c) \in SUBSET Slots
  BY DEF SlotsOf
<1>3. IsFiniteSet(SlotsOf(table, slots, c))
  BY <1>1, <1>2, FS_Subset
<1>. QED
  BY <1>3, FS_CardinalityType DEF Occurrences

\* A bootstrap answer's capTable is one.
LEMMA RootTableType == RootSlot \in Slots /\ RootTable \in CapTables
<1>1. RootSlot \in Slots
  BY SetsAssumption DEF RootSlot
<1>. QED
  BY <1>1, CapsAssumption DEF RootTable, NoTable, CapTables

LEMMA MonusNat == \A a, b \in Nat : Monus(a, b) \in Nat
BY DEF Monus

(***************************************************************************)
(* Type correctness of the operators the actions share.                    *)
(***************************************************************************)
LEMMA DeliverType ==
    ASSUME TypeOK, NEW e \in Entries, question[e] \in Questions, NEW table,
           NEW slots \in SUBSET Slots, NEW nf \in BOOLEAN,
           Deliver(e, table, slots, nf)
    PROVE  /\ caller' \in [Questions -> CallerStates]
           /\ owner' \in [Questions -> Entries \cup {None}]
           /\ answeredBy' \in [Questions -> Entries \cup {None}]
           /\ granted' \in [Entries -> SUBSET Slots]
           /\ peerRefs' \in [Caps -> Int] /\ pregrant' \in [Caps -> Int]
<1>1. CASE caller[question[e]] \in {"free", "answered"}
  BY <1>1 DEF Deliver, TypeOK, peer
<1>2. CASE caller[question[e]] \notin {"free", "answered"}
  <2>. DEFINE kept == IF caller[question[e]] = "released" THEN {} ELSE slots
  <2>1. kept \in SUBSET Slots
    OBVIOUS
  <2>2. \A c \in Caps : Occurrences(table, kept, c) \in Int
    BY <2>1, OccurrencesNat
  <2>. HIDE DEF kept
  <2>3. /\ peerRefs' = [c \in Caps |-> peerRefs[c] + Occurrences(table, kept, c)]
        /\ granted' = [granted EXCEPT ![e] = kept]
    BY <1>2 DEF Deliver, kept
  <2>4. peerRefs' \in [Caps -> Int]
    BY <2>2, <2>3 DEF TypeOK
  <2>. QED
    BY <1>2, <2>1, <2>3, <2>4 DEF Deliver, TypeOK, CallerStates
<1>. QED
  BY <1>1, <1>2

LEMMA SendFinishType ==
    ASSUME TypeOK, NEW q \in Questions, NEW rel \in BOOLEAN, SendFinish(q, rel)
    PROVE  /\ caller' \in [Questions -> CallerStates]
           /\ owner' \in [Questions -> Entries \cup {None}]
           /\ answeredBy' \in [Questions -> Entries \cup {None}]
           /\ granted' \in [Entries -> SUBSET Slots]
           /\ peerRefs' \in [Caps -> Int] /\ pregrant' \in [Caps -> Int]
<1>1. \A c \in Caps : GivenBack(q, c) \in Int
  BY OccurrencesNat, NoneAssumption DEF GivenBack, TypeOK
<1>2. peerRefs' \in [Caps -> Int]
  BY <1>1 DEF SendFinish, TypeOK
<1>3. granted' \in [Entries -> SUBSET Slots]
  BY DEF SendFinish, TypeOK
<1>. QED
  BY <1>2, <1>3 DEF SendFinish, TypeOK, CallerStates

LEMMA TrackType ==
    ASSUME TypeOK, NEW e \in Entries, NEW table, Track(e, table)
    PROVE  /\ refCount' \in [Caps -> Nat] /\ hold' \in [Caps -> Nat]
           /\ held' \in [Entries -> SUBSET Slots]
<1>1. Tracked(table) \in SUBSET Slots
  BY DEF Tracked
<1>2. \A c \in Caps : Occurrences(table, Tracked(table), c) \in Nat
  BY <1>1, OccurrencesNat
<1>. QED
  BY <1>1, <1>2 DEF Track, TypeOK

LEMMA ReleaseHeldType ==
    ASSUME TypeOK, NEW e \in Entries, NEW rel \in BOOLEAN,
           ReleaseAnswerHeldCapabilities(e, rel)
    PROVE  /\ nextCap' \in Nat /\ registered' \subseteq Caps
           /\ refCount' \in [Caps -> Nat] /\ hold' \in [Caps -> Nat]
           /\ claimed' \subseteq registered'
           /\ held' \in [Entries -> SUBSET Slots]
<1>. DEFINE n(c) == Occurrences(capTable[e], held[e], c)
<1>1. \A c \in Caps : n(c) \in Nat
  BY OccurrencesNat DEF TypeOK
<1>2. \A c \in Caps : Monus(refCount[c], n(c)) \in Nat /\ Monus(hold[c], n(c)) \in Nat
  BY <1>1, MonusNat DEF TypeOK
<1>. HIDE DEF n
<1>3. /\ refCount' \in [Caps -> Nat] /\ hold' \in [Caps -> Nat]
  BY <1>2 DEF ReleaseAnswerHeldCapabilities, TypeOK, n
<1>. QED
  BY <1>3 DEF ReleaseAnswerHeldCapabilities, TypeOK

(***************************************************************************)
(* Type correctness.  One lemma per group of actions.                      *)
(***************************************************************************)
LEMMA RegisterType ==
    ASSUME TypeOK, NEW q \in Questions, NEW e \in Entries,
           NEW bytes \in 0 .. MaxFrameBytes, NEW p \in Phases,
           Register(q, e, bytes, p)
    PROVE  /\ answerTable' \in [Questions -> Entries \cup {None}]
           /\ phase' \in [Entries -> Phases]
           /\ question' \in [Entries -> Questions \cup {None}]
           /\ size' \in [Entries -> 0 .. MaxFrameBytes]
           /\ retained' \in Int
BY LimitAssumption DEF Register, TypeOK

LEMMA AskType ==
    ASSUME TypeOK, NEW q \in Questions, NEW e \in Entries, Ask(q, e)
    PROVE  /\ caller' \in [Questions -> CallerStates]
           /\ owner' \in [Questions -> Entries \cup {None}]
           /\ answeredBy' \in [Questions -> Entries \cup {None}]
           /\ granted' \in [Entries -> SUBSET Slots]
           /\ peerRefs' \in [Caps -> Int] /\ pregrant' \in [Caps -> Int]
BY DEF Ask, TypeOK, CallerStates

LEMMA DispatchPhasesType == \A c : DispatchPhases(c) \subseteq Phases
BY DEF DispatchPhases, Phases

LEMMA RejectCallType ==
    ASSUME TypeOK, NEW q \in Questions, NEW n \in Nat, RejectCall(q, n)
    PROVE  TypeOK'
BY DEF RejectCall, TypeOK, CallerStates, CapTables, Caps, registry, entries, eviction

LEMMA ReceiveCallType ==
    ASSUME TypeOK, NEW q \in Questions, NEW e \in Entries, NEW c \in Caps,
           NEW n \in 1 .. MaxFrameBytes, ReceiveCall(q, e, c, n)
    PROVE  TypeOK'
<1>1. PICK p \in Phases : Register(q, e, n, p)
  BY DispatchPhasesType DEF ReceiveCall
<1>2. n \in 0 .. MaxFrameBytes
  BY LimitAssumption
<1>3. Ask(q, e) /\ UNCHANGED <<closed, registry, parent, capTable, pipelineRefCount,
                   held, finished, eviction, finishing>>
  BY DEF ReceiveCall
<1>. QED
  BY <1>1, <1>2, <1>3, RegisterType, AskType DEF TypeOK, registry, eviction

LEMMA ReceivePipelinedCallType ==
    ASSUME TypeOK, NEW q \in Questions, NEW e \in Entries,
           NEW target \in Questions, NEW i \in Slots, NEW n \in 1 .. MaxFrameBytes,
           ReceivePipelinedCall(q, e, target, i, n)
    PROVE  TypeOK'
<1>. DEFINE t == IF target = q THEN e ELSE answerTable[target]
<1>1. n \in 0 .. MaxFrameBytes /\ "failing" \in Phases /\ "waiting" \in Phases
  BY LimitAssumption DEF Phases
<1>2. t \in Entries \cup {None}
  BY DEF TypeOK
<1>3. Ask(q, e) /\ UNCHANGED <<closed, registry, capTable, held, finished,
                               eviction, finishing>>
  BY DEF ReceivePipelinedCall
<1>4. /\ \E p \in Phases : Register(q, e, n, p)
      /\ \/ UNCHANGED <<parent, pipelineRefCount>>
         \/ /\ t # None
            /\ parent' = [parent EXCEPT ![e] = t]
            /\ pipelineRefCount' = [pipelineRefCount EXCEPT ![t] = @ + 1]
  <2>1. CASE t = None
    BY <1>1, <2>1 DEF ReceivePipelinedCall
  <2>2. CASE t # None
    <3>1. \/ \E p \in DispatchPhases(capTable[t][i]) : Register(q, e, n, p)
          \/ Register(q, e, n, "waiting")
      BY <2>2 DEF ReceivePipelinedCall
    <3>2. \E p \in Phases : Register(q, e, n, p)
      BY <3>1, <1>1, DispatchPhasesType
    <3>. QED
      BY <2>2, <3>2 DEF ReceivePipelinedCall
  <2>. QED
    BY <2>1, <2>2
<1>5. parent' \in [Entries -> Entries \cup {None}]
      /\ pipelineRefCount' \in [Entries -> Int]
  BY <1>2, <1>4 DEF TypeOK
<1>6. PICK p \in Phases : Register(q, e, n, p)
  BY <1>4
<1>. QED
  BY <1>1, <1>3, <1>5, <1>6, RegisterType, AskType DEF TypeOK, registry, eviction

LEMMA WakePipelinedCallType ==
    ASSUME TypeOK, NEW e \in Entries, NEW i \in Slots, WakePipelinedCall(e, i)
    PROVE  TypeOK'
<1>1. phase' \in [Entries -> Phases]
  <2>1. \E p \in Phases : phase' = [phase EXCEPT ![e] = p]
    BY DispatchPhasesType DEF WakePipelinedCall, Phases
  <2>. QED
    BY <2>1 DEF TypeOK
<1>. QED
  BY <1>1 DEF WakePipelinedCall, TypeOK, registry, eviction, peer

LEMMA ReturnAnswerType ==
    ASSUME TypeOK, NEW e \in Entries, NEW table \in CapTables,
           NEW nf \in BOOLEAN, NEW relayed \in BOOLEAN,
           question[e] \in Questions, ReturnAnswer(e, table, nf, relayed)
    PROVE  /\ refCount' \in [Caps -> Nat] /\ hold' \in [Caps -> Nat]
           /\ held' \in [Entries -> SUBSET Slots] /\ timer' \subseteq Entries
           /\ caller' \in [Questions -> CallerStates]
           /\ owner' \in [Questions -> Entries \cup {None}]
           /\ answeredBy' \in [Questions -> Entries \cup {None}]
           /\ granted' \in [Entries -> SUBSET Slots]
           /\ peerRefs' \in [Caps -> Int] /\ pregrant' \in [Caps -> Int]
<1>1. Track(e, table) /\ timer' \subseteq Entries
  BY DEF ReturnAnswer, ScheduleEviction, TypeOK
<1>2. \E slots \in SUBSET Slots, b \in BOOLEAN : Deliver(e, table, slots, b)
  BY DEF ReturnAnswer, Tracked
<1>. QED
  BY <1>1, <1>2, TrackType, DeliverType

\* What an entry's phase says of its other fields.
EntryShape ==
    \A e \in Entries :
        /\ phase[e] # "unused" => question[e] \in Questions
        /\ phase[e] = "waiting" => parent[e] \in Entries
        /\ phase[e] \in {"unused", "bootstrapping"} => parent[e] = None
        /\ phase[e] # "done" => held[e] = {}
        /\ phase[e] = "unused" => question[e] = None

LEMMA CallSettlesType ==
    ASSUME TypeOK, EntryShape, NEW e \in Entries, NEW table \in CapTables,
           NEW nf \in BOOLEAN, NEW relayed \in BOOLEAN,
           CallSettles(e, table, nf, relayed)
    PROVE  TypeOK'
<1>1. question[e] \in Questions
  BY DEF EntryShape, CallSettles
<1>2. /\ phase' \in [Entries -> Phases]
      /\ capTable' \in [Entries -> CapTables]
      /\ pipelineRefCount' \in [Entries -> Int]
      /\ retained' \in Int
  <2>1. size[e] \in Int
    BY LimitAssumption DEF TypeOK
  <2>. QED
    BY <2>1 DEF CallSettles, TypeOK, Phases
<1>3. /\ refCount' \in [Caps -> Nat] /\ hold' \in [Caps -> Nat]
      /\ held' \in [Entries -> SUBSET Slots] /\ timer' \subseteq Entries
      /\ caller' \in [Questions -> CallerStates]
      /\ owner' \in [Questions -> Entries \cup {None}]
      /\ answeredBy' \in [Questions -> Entries \cup {None}]
      /\ granted' \in [Entries -> SUBSET Slots]
      /\ peerRefs' \in [Caps -> Int] /\ pregrant' \in [Caps -> Int]
  <2>1. CASE ReturnAnswer(e, table, nf, relayed)
    BY <1>1, <2>1, ReturnAnswerType
  <2>2. CASE DiscardAnswer(e)
    <3>1. refCount' \in [Caps -> Nat] /\ hold' \in [Caps -> Nat]
          /\ held' \in [Entries -> SUBSET Slots] /\ timer' \subseteq Entries
      BY <2>2 DEF DiscardAnswer, TypeOK
    <3>2. CASE UNCHANGED peer
      BY <3>1, <3>2 DEF peer, TypeOK
    <3>3. CASE Deliver(e, NoTable, {}, TRUE)
      BY <3>1, <3>3, <1>1, DeliverType
    <3>. QED
      BY <2>2, <3>2, <3>3 DEF DiscardAnswer
  <2>. QED
    BY <2>1, <2>2 DEF CallSettles
<1>. QED
  BY <1>2, <1>3 DEF CallSettles, TypeOK

LEMMA TrackBootstrapType ==
    ASSUME TypeOK, NEW e \in Entries, TrackBootstrap(e)
    PROVE  /\ refCount' \in [Caps -> Nat] /\ hold' \in [Caps -> Nat]
           /\ held' \in [Entries -> SUBSET Slots] /\ claimed' \subseteq registered
BY RootTableType, CapsAssumption DEF TrackBootstrap, TypeOK

LEMMA DeliverBootstrapType ==
    ASSUME TypeOK, NEW q \in Questions, NEW e \in Entries, DeliverBootstrap(q, e)
    PROVE  /\ caller' \in [Questions -> CallerStates]
           /\ owner' \in [Questions -> Entries \cup {None}]
           /\ answeredBy' \in [Questions -> Entries \cup {None}]
           /\ granted' \in [Entries -> SUBSET Slots]
           /\ peerRefs' \in [Caps -> Int] /\ pregrant' \in [Caps -> Int]
<1>. DEFINE slots == IF Root \in registered /\ caller[q] # "released"
                     THEN {RootSlot} ELSE {}
<1>1. slots \in SUBSET Slots /\ Cardinality(slots) \in Int
  BY RootTableType, FS_EmptySet, FS_Singleton
<1>. HIDE DEF slots
<1>2. peerRefs' = [peerRefs EXCEPT ![Root] = @ + Cardinality(slots)]
      /\ granted' = [granted EXCEPT ![e] = slots]
  BY DEF DeliverBootstrap, slots
<1>3. peerRefs' \in [Caps -> Int] /\ granted' \in [Entries -> SUBSET Slots]
  BY <1>1, <1>2, CapsAssumption DEF TypeOK
<1>4. pregrant' \in [Caps -> Int]
  <2>1. pregrant' \in {pregrant, [pregrant EXCEPT ![Root] = @ - 1]}
    BY DEF DeliverBootstrap
  <2>. QED
    BY <2>1 DEF TypeOK
<1>5. /\ caller' \in [Questions -> CallerStates]
      /\ owner' \in [Questions -> Entries \cup {None}]
      /\ answeredBy' \in [Questions -> Entries \cup {None}]
  <2>1. /\ \E x \in CallerStates : caller' = [caller EXCEPT ![q] = x]
        /\ owner' = [owner EXCEPT ![q] = e]
        /\ answeredBy' = [answeredBy EXCEPT ![q] = e]
    BY DEF DeliverBootstrap, CallerStates
  <2>. QED
    BY <2>1 DEF TypeOK
<1>. QED
  BY <1>3, <1>4, <1>5

LEMMA ReceiveBootstrapType ==
    ASSUME TypeOK, NEW q \in Questions, NEW e \in Entries, ReceiveBootstrap(q, e)
    PROVE  TypeOK'
<1>1. 0 \in 0 .. MaxFrameBytes /\ "bootstrapping" \in Phases
  BY LimitAssumption DEF Phases
<1>2. Ask(q, e) /\ Register(q, e, 0, "bootstrapping")
  BY DEF ReceiveBootstrap
<1>. QED
  BY <1>1, <1>2, RegisterType, AskType
  DEF ReceiveBootstrap, TypeOK, registry, eviction

LEMMA BootstrapSettlesType ==
    ASSUME TypeOK, EntryShape, NEW e \in Entries, BootstrapSettles(e)
    PROVE  TypeOK'
<1>1. question[e] \in Questions
  BY DEF EntryShape, BootstrapSettles
<1>2. /\ refCount' \in [Caps -> Nat] /\ hold' \in [Caps -> Nat]
      /\ held' \in [Entries -> SUBSET Slots] /\ claimed' \subseteq registered
      /\ timer' \subseteq Entries
  <2>1. CASE TrackBootstrap(e) /\ ScheduleEviction(e)
    BY <2>1, TrackBootstrapType DEF ScheduleEviction, TypeOK
  <2>2. CASE UNCHANGED <<refCount, hold, claimed, held, timer>>
    BY <2>2 DEF TypeOK
  <2>. QED
    BY <2>1, <2>2 DEF BootstrapSettles
<1>3. /\ phase' \in [Entries -> Phases] /\ capTable' \in [Entries -> CapTables]
  BY RootTableType DEF BootstrapSettles, TypeOK, Phases
<1>4. DeliverBootstrap(question[e], e)
  BY DEF BootstrapSettles
<1>. QED
  BY <1>1, <1>2, <1>3, <1>4, DeliverBootstrapType DEF BootstrapSettles, TypeOK

LEMMA BootstrapFailsType ==
    ASSUME TypeOK, NEW e \in Entries, BootstrapFails(e)
    PROVE  TypeOK'
BY DEF BootstrapFails, TypeOK, Phases, registry, eviction, peer

LEMMA ObserveBootstrapResponseType ==
    ASSUME TypeOK, NEW q \in Questions, NEW e \in Entries,
           ObserveBootstrapResponse(q, e)
    PROVE  TypeOK'
<1>1. 0 \in 0 .. MaxFrameBytes /\ "done" \in Phases
  BY LimitAssumption DEF Phases
<1>2. /\ Register(q, e, 0, "done") /\ TrackBootstrap(e)
      /\ ScheduleEviction(e) /\ DeliverBootstrap(q, e)
      /\ capTable' = [capTable EXCEPT ![e] = RootTable]
  BY DEF ObserveBootstrapResponse
<1>3. timer' \subseteq Entries /\ capTable' \in [Entries -> CapTables]
  BY <1>2, RootTableType DEF ScheduleEviction, TypeOK
<1>. QED
  BY <1>1, <1>2, <1>3, RegisterType, TrackBootstrapType, DeliverBootstrapType
  DEF ObserveBootstrapResponse, TypeOK

LEMMA ExportCapabilityType ==
    ASSUME TypeOK, NEW c \in Caps, NEW n \in 0 .. 1, ExportCapability(c, n)
    PROVE  TypeOK'
<1>1. nextCap' \in Nat
  BY DEF ExportCapability, TypeOK
<1>2. /\ registered' \subseteq Caps /\ registered \subseteq registered'
      /\ refCount' \in [Caps -> Nat] /\ pregrant' \in [Caps -> Int]
  BY DEF ExportCapability, TypeOK
<1>. QED
  BY <1>1, <1>2 DEF ExportCapability, TypeOK, entries, eviction

LEMMA DropReferencesType ==
    ASSUME TypeOK, NEW c \in Caps, NEW n \in Nat, DropReferences(c, n)
    PROVE  /\ nextCap' \in Nat /\ registered' \subseteq Caps
           /\ refCount' \in [Caps -> Nat] /\ hold' \in [Caps -> Nat]
           /\ claimed' \subseteq registered'
<1>1. refCount[c] - n \in Nat
  BY DEF DropReferences, TypeOK
<1>. QED
  BY <1>1 DEF DropReferences, TypeOK

LEMMA CapabilityActionsType ==
    ASSUME TypeOK, NEW c \in Caps,
           \/ RetainCapability(c)
           \/ HandOver(c)
           \/ \E n \in 1 .. MaxReferenceCount : ReleaseFrame(c, n)
           \/ ReleaseOwn(c)
    PROVE  TypeOK'
<1>1. CASE RetainCapability(c)
  BY <1>1 DEF RetainCapability, TypeOK, entries, eviction
<1>2. CASE HandOver(c)
  BY <1>2 DEF HandOver, TypeOK, registry, entries, eviction
<1>3. ASSUME NEW n \in 1 .. MaxReferenceCount, ReleaseFrame(c, n)
      PROVE  TypeOK'
  <2>1. /\ nextCap' \in Nat /\ registered' \subseteq Caps
        /\ refCount' \in [Caps -> Nat] /\ hold' \in [Caps -> Nat]
        /\ claimed' \subseteq registered'
    <3>1. n \in Nat
      OBVIOUS
    <3>2. CASE DropReferences(c, n)
      BY <3>1, <3>2, DropReferencesType
    <3>3. CASE UNCHANGED registry
      BY <3>3 DEF registry, TypeOK
    <3>. QED
      BY <1>3, <3>2, <3>3 DEF ReleaseFrame
  <2>2. peerRefs' \in [Caps -> Int]
    BY <1>3 DEF ReleaseFrame, TypeOK
  <2>. QED
    BY <1>3, <2>1, <2>2 DEF ReleaseFrame, TypeOK, entries, eviction
<1>4. CASE ReleaseOwn(c)
  <2>1. /\ nextCap' \in Nat /\ registered' \subseteq Caps
        /\ refCount' \in [Caps -> Nat] /\ hold' \in [Caps -> Nat]
        /\ claimed' \subseteq registered'
    BY <1>4, DropReferencesType DEF ReleaseOwn
  <2>2. pregrant' \in [Caps -> Int]
    BY <1>4 DEF ReleaseOwn, TypeOK
  <2>. QED
    BY <1>4, <2>1, <2>2 DEF ReleaseOwn, TypeOK, entries, eviction
<1>. QED
  BY <1>1, <1>2, <1>3, <1>4

LEMMA BridgeFinishType ==
    ASSUME TypeOK, NEW q \in Questions, NEW rel \in BOOLEAN, BridgeFinish(q, rel)
    PROVE  /\ nextCap' \in Nat /\ registered' \subseteq Caps
           /\ refCount' \in [Caps -> Nat] /\ hold' \in [Caps -> Nat]
           /\ claimed' \subseteq registered'
           /\ held' \in [Entries -> SUBSET Slots]
           /\ answerTable' \in [Questions -> Entries \cup {None}]
           /\ finished' \subseteq Entries /\ timer' \subseteq Entries
<1>1. answerTable' \in [Questions -> Entries \cup {None}]
  BY DEF BridgeFinish, TypeOK
<1>2. CASE answerTable[q] = None
  BY <1>1, <1>2 DEF BridgeFinish, TypeOK, registry
<1>3. CASE answerTable[q] # None
  <2>1. answerTable[q] \in Entries
    BY <1>3 DEF TypeOK
  <2>2. /\ ReleaseAnswerHeldCapabilities(answerTable[q], rel)
        /\ finished' \subseteq Entries /\ timer' \subseteq Entries
    BY <1>3, <2>1 DEF BridgeFinish, TypeOK
  <2>. QED
    BY <1>1, <2>1, <2>2, ReleaseHeldType
<1>. QED
  BY <1>2, <1>3

LEMMA FinishActionsType ==
    ASSUME TypeOK,
           \/ \E q \in Questions, rel \in BOOLEAN :
                  FinishFrame(q, rel) \/ AnswerFinishedEvent(q, rel)
           \/ ForwardFinish
    PROVE  TypeOK'
<1>1. ASSUME NEW q \in Questions, NEW rel \in BOOLEAN, FinishFrame(q, rel)
      PROVE  TypeOK'
  <2>1. SendFinish(q, rel) /\ BridgeFinish(q, rel)
    BY <1>1 DEF FinishFrame
  <2>. QED
    BY <1>1, <2>1, SendFinishType, BridgeFinishType
    DEF FinishFrame, TypeOK, entries
<1>2. ASSUME NEW q \in Questions, NEW rel \in BOOLEAN, AnswerFinishedEvent(q, rel)
      PROVE  TypeOK'
  <2>1. answerTable[q] \in Entries
    BY <1>2 DEF AnswerFinishedEvent, ReportsFinish, Pending, TypeOK
  <2>. QED
    BY <1>2, <2>1 DEF AnswerFinishedEvent, TypeOK, CallerStates, registry,
                      entries, eviction
<1>3. CASE ForwardFinish
  <2>1. finishing \in Questions \X BOOLEAN
    BY <1>3 DEF ForwardFinish, TypeOK
  <2>2. finishing[1] \in Questions /\ finishing[2] \in BOOLEAN
        /\ BridgeFinish(finishing[1], finishing[2])
    BY <1>3, <2>1 DEF ForwardFinish
  <2>. QED
    BY <1>3, <2>2, BridgeFinishType DEF ForwardFinish, TypeOK, entries, peer
<1>. QED
  BY <1>1, <1>2, <1>3

LEMMA EvictionTimerType ==
    ASSUME TypeOK, NEW e \in Entries, EvictionTimer(e)
    PROVE  TypeOK'
<1>. DEFINE deferred == [attempts EXCEPT ![e] = @ + 1]
<1>1. /\ timer' \in {timer, timer \ {e}}
      /\ attempts' \in {attempts, deferred}
      /\ \/ UNCHANGED <<registry, answerTable, held>>
         \/ /\ answerTable' = [answerTable EXCEPT ![question[e]] = None]
            /\ ReleaseAnswerHeldCapabilities(e, FALSE)
      /\ UNCHANGED <<closed, entries, finished, retained, peer, finishing>>
  BY DEF EvictionTimer
<1>2. timer' \subseteq Entries /\ attempts' \in [Entries -> Nat]
  <2>1. deferred \in [Entries -> Nat]
    BY DEF TypeOK
  <2>. HIDE DEF deferred
  <2>. QED
    BY <1>1, <2>1 DEF TypeOK
<1>3. CASE UNCHANGED <<registry, answerTable, held>>
  BY <1>1, <1>2, <1>3 DEF TypeOK, registry, entries, peer
<1>4. CASE /\ answerTable' = [answerTable EXCEPT ![question[e]] = None]
           /\ ReleaseAnswerHeldCapabilities(e, FALSE)
  <2>1. answerTable' \in [Questions -> Entries \cup {None}]
    BY <1>4 DEF TypeOK
  <2>. QED
    BY <1>1, <1>2, <1>4, <2>1, ReleaseHeldType DEF TypeOK, entries, peer
<1>. QED
  BY <1>1, <1>3, <1>4

LEMMA CloseType ==
    ASSUME TypeOK, Close \/ \E q \in Questions : RejectBootstrapResponse(q)
    PROVE  TypeOK'
<1>1. CloseBridge /\ UNCHANGED peer
  BY DEF Close, RejectBootstrapResponse
<1>. QED
  BY <1>1 DEF CloseBridge, TypeOK, entries, peer

\* The next-state relation preserves type correctness.
LEMMA TypeStep ==
    ASSUME TypeOK, EntryShape, [Next]_vars
    PROVE  TypeOK'
<1>1. CASE UNCHANGED vars
  BY <1>1 DEF vars, registry, entries, eviction, peer, TypeOK
<1>2. ASSUME NEW q \in Questions, NEW n \in 1 .. MaxFrameBytes,
             \/ RejectCall(q, n)
             \/ \E e \in Entries :
                 \/ \E c \in Caps : ReceiveCall(q, e, c, n)
                 \/ \E target \in Questions, i \in Slots :
                        ReceivePipelinedCall(q, e, target, i, n)
      PROVE  TypeOK'
  BY <1>2, RejectCallType, ReceiveCallType, ReceivePipelinedCallType
<1>3. ASSUME NEW q \in Questions, NEW e \in Entries,
             ReceiveBootstrap(q, e) \/ ObserveBootstrapResponse(q, e)
      PROVE  TypeOK'
  BY <1>3, ReceiveBootstrapType, ObserveBootstrapResponseType
<1>4. ASSUME NEW e \in Entries,
             \/ \E i \in Slots : WakePipelinedCall(e, i)
             \/ \E table \in CapTables, nf \in BOOLEAN, relayed \in BOOLEAN :
                    CallSettles(e, table, nf, relayed)
             \/ BootstrapSettles(e)
             \/ BootstrapFails(e)
             \/ EvictionTimer(e)
      PROVE  TypeOK'
  BY <1>4, WakePipelinedCallType, CallSettlesType, BootstrapSettlesType,
     BootstrapFailsType, EvictionTimerType
<1>5. ASSUME NEW c \in Caps,
             \/ \E n \in 0 .. 1 : ExportCapability(c, n)
             \/ RetainCapability(c)
             \/ HandOver(c)
             \/ \E n \in 1 .. MaxReferenceCount : ReleaseFrame(c, n)
             \/ ReleaseOwn(c)
      PROVE  TypeOK'
  BY <1>5, ExportCapabilityType, CapabilityActionsType
<1>. QED
  BY <1>1, <1>2, <1>3, <1>4, <1>5, FinishActionsType, CloseType DEF Next

LEMMA EntryShapeRegister ==
    ASSUME TypeOK, EntryShape, NEW q \in Questions, NEW e \in Entries,
           NEW bytes, NEW p \in Phases \ {"unused"}, Register(q, e, bytes, p),
           UNCHANGED held,
           \/ p \notin {"waiting", "done"} /\ UNCHANGED parent
           \/ p # "bootstrapping" /\ \E t \in Entries : parent' = [parent EXCEPT ![e] = t]
    PROVE  EntryShape'
BY DEF TypeOK, EntryShape, Register

\* What a step does not register or settle keeps its shape.
LEMMA EntryShapeKept ==
    ASSUME TypeOK, EntryShape, UNCHANGED <<question, parent>>,
           \A e \in Entries :
               \/ phase'[e] = phase[e] /\ held'[e] \in {held[e], {}}
               \/ phase[e] # "unused" /\ phase'[e] = "done"
    PROVE  EntryShape'
BY DEF EntryShape

LEMMA EntryShapeReceive ==
    ASSUME TypeOK, EntryShape, NEW q \in Questions, NEW e \in Entries,
           \/ \E c, n : ReceiveCall(q, e, c, n)
           \/ \E target \in Questions : \E i, n : ReceivePipelinedCall(q, e, target, i, n)
           \/ ReceiveBootstrap(q, e)
    PROVE  EntryShape'
<1>1. ASSUME NEW c, NEW n, ReceiveCall(q, e, c, n)
      PROVE  EntryShape'
  <2>1. PICK p \in DispatchPhases(c) : Register(q, e, n, p)
    BY <1>1 DEF ReceiveCall
  <2>2. p \in Phases \ {"unused", "waiting", "done"}
    BY <2>1 DEF DispatchPhases, Phases
  <2>. QED
    BY <1>1, <2>1, <2>2, EntryShapeRegister DEF ReceiveCall
<1>2. ASSUME NEW target \in Questions, NEW i, NEW n,
             ReceivePipelinedCall(q, e, target, i, n)
      PROVE  EntryShape'
  <2>. DEFINE t == IF target = q THEN e ELSE answerTable[target]
  <2>1. UNCHANGED held
    BY <1>2 DEF ReceivePipelinedCall
  <2>2. CASE t = None
    <3>1. Register(q, e, n, "failing") /\ UNCHANGED parent
      BY <1>2, <2>2 DEF ReceivePipelinedCall
    <3>. QED
      BY <2>1, <3>1, EntryShapeRegister DEF Phases
  <2>3. CASE t # None
    <3>1. /\ \/ \E p \in DispatchPhases(capTable[t][i]) : Register(q, e, n, p)
             \/ Register(q, e, n, "waiting")
          /\ parent' = [parent EXCEPT ![e] = t]
      BY <1>2, <2>3 DEF ReceivePipelinedCall
    <3>2. \E p \in {"running", "failing", "waiting"} : Register(q, e, n, p)
      BY <3>1 DEF DispatchPhases
    <3>3. t \in Entries
      BY <2>3 DEF TypeOK
    <3>. QED
      BY <2>1, <3>1, <3>2, <3>3, EntryShapeRegister DEF Phases
  <2>. QED
    BY <2>2, <2>3
<1>3. CASE ReceiveBootstrap(q, e)
  BY <1>3, EntryShapeRegister DEF ReceiveBootstrap, Phases
<1>. QED
  BY <1>1, <1>2, <1>3

LEMMA EntryShapeStep ==
    ASSUME TypeOK, EntryShape, [Next]_vars
    PROVE  EntryShape'
<1>1. ASSUME UNCHANGED <<phase, question, parent>>,
             \A e \in Entries : held'[e] \in {held[e], {}}
      PROVE  EntryShape'
  BY <1>1, EntryShapeKept
<1>2. CASE UNCHANGED <<entries, held>>
  BY <1>1, <1>2 DEF entries
<1>3. ASSUME NEW e \in Entries, NEW rel, ReleaseAnswerHeldCapabilities(e, rel)
      PROVE  \A x \in Entries : held'[x] \in {held[x], {}}
  BY <1>3 DEF ReleaseAnswerHeldCapabilities, TypeOK
<1>4. ASSUME NEW q \in Questions, NEW rel, BridgeFinish(q, rel), UNCHANGED entries
      PROVE  EntryShape'
  BY <1>1, <1>3, <1>4 DEF BridgeFinish, TypeOK, entries
<1>5. ASSUME NEW q \in Questions, NEW e \in Entries, ObserveBootstrapResponse(q, e)
      PROVE  EntryShape'
  BY <1>5 DEF ObserveBootstrapResponse, Register, TrackBootstrap, TypeOK, EntryShape
<1>6. ASSUME NEW e \in Entries, NEW i, WakePipelinedCall(e, i)
      PROVE  EntryShape'
  BY <1>6 DEF WakePipelinedCall, DispatchPhases, EntryShape, TypeOK
<1>7. ASSUME NEW e \in Entries,
             NEW table, NEW nf, NEW relayed, CallSettles(e, table, nf, relayed)
      PROVE  EntryShape'
  <2>1. /\ phase' = [phase EXCEPT ![e] = "done"] /\ phase[e] # "unused"
        /\ UNCHANGED <<question, parent>>
        /\ held' = held \/ held' = [held EXCEPT ![e] = Tracked(table)]
    BY <1>7 DEF CallSettles, ReturnAnswer, Track, DiscardAnswer
  <2>. QED
    BY <2>1, EntryShapeKept DEF TypeOK
<1>8. ASSUME NEW e \in Entries, BootstrapSettles(e) \/ BootstrapFails(e)
      PROVE  EntryShape'
  BY <1>8 DEF BootstrapSettles, BootstrapFails, TrackBootstrap, TypeOK, EntryShape
<1>9. ASSUME NEW e \in Entries, EvictionTimer(e)
      PROVE  EntryShape'
  BY <1>1, <1>3, <1>9 DEF EvictionTimer, entries
<1>10. CASE \/ \E q \in Questions, rel \in BOOLEAN :
                  FinishFrame(q, rel) \/ AnswerFinishedEvent(q, rel)
            \/ ForwardFinish
  <2>1. ASSUME NEW q \in Questions, NEW rel \in BOOLEAN, AnswerFinishedEvent(q, rel)
        PROVE  EntryShape'
    BY <1>2, <2>1 DEF AnswerFinishedEvent
  <2>2. CASE ForwardFinish
    <3>1. finishing \in Questions \X BOOLEAN
      BY <2>2 DEF ForwardFinish, TypeOK
    <3>. QED
      BY <1>4, <2>2, <3>1 DEF ForwardFinish
  <2>. QED
    BY <1>4, <1>10, <2>1, <2>2 DEF FinishFrame
<1>11. ASSUME NEW c \in Caps,
             \/ \E n \in 0 .. 1 : ExportCapability(c, n)
             \/ RetainCapability(c)
             \/ HandOver(c)
             \/ \E n \in 1 .. MaxReferenceCount : ReleaseFrame(c, n)
             \/ ReleaseOwn(c)
      PROVE  UNCHANGED <<entries, held>>
  BY <1>11 DEF ExportCapability, RetainCapability, HandOver, ReleaseFrame, ReleaseOwn
<1>12. ASSUME Close \/ \E q \in Questions : RejectBootstrapResponse(q)
       PROVE  UNCHANGED <<entries, held>>
  BY <1>12 DEF Close, RejectBootstrapResponse, CloseBridge
<1>13. ASSUME NEW q \in Questions, NEW n, RejectCall(q, n)
       PROVE  UNCHANGED <<entries, held>>
  BY <1>13 DEF RejectCall
<1>14. CASE UNCHANGED vars
  BY <1>2, <1>14 DEF vars
<1>. QED
  BY <1>2, <1>5, <1>6, <1>7, <1>8, <1>9, <1>10, <1>11, <1>12, <1>13, <1>14,
     EntryShapeReceive DEF Next

LEMMA TypeInit == Init => TypeOK /\ EntryShape
<1>1. Root \in Nat /\ Root + 1 \in Nat /\ Root \in Caps /\ 0 \in 0 .. MaxFrameBytes
  BY CapsAssumption, LimitAssumption DEF Caps
<1>2. NoTable \in CapTables
  BY DEF NoTable, CapTables
<1>3. Init => TypeOK
  <2>. DEFINE rootOne == [c \in Caps |-> IF c = Root THEN 1 ELSE 0]
  <2>5. rootOne \in [Caps -> Nat] /\ rootOne \in [Caps -> Int]
    OBVIOUS
  <2>6. Init => /\ refCount = rootOne /\ pregrant = rootOne
                /\ nextCap = Root + 1 /\ registered = {Root}
    BY DEF Init
  <2>7. Init => closed \in BOOLEAN
    BY DEF Init
  <2>8. Init => claimed \subseteq registered
    BY DEF Init
  <2>9. Init => hold \in [Caps -> Nat] /\ peerRefs \in [Caps -> Int]
    BY DEF Init
  <2>. HIDE DEF rootOne
  <2>1. Init => /\ closed \in BOOLEAN /\ nextCap \in Nat
                /\ registered \subseteq Caps /\ claimed \subseteq registered
                /\ refCount \in [Caps -> Nat] /\ hold \in [Caps -> Nat]
                /\ peerRefs \in [Caps -> Int] /\ pregrant \in [Caps -> Int]
    BY <1>1, <2>5, <2>6, <2>7, <2>8, <2>9
  <2>2. Init => /\ answerTable \in [Questions -> Entries \cup {None}]
                /\ question \in [Entries -> Questions \cup {None}]
                /\ parent \in [Entries -> Entries \cup {None}]
                /\ owner \in [Questions -> Entries \cup {None}]
                /\ answeredBy \in [Questions -> Entries \cup {None}]
                /\ finished \subseteq Entries /\ timer \subseteq Entries
                /\ finishing \in (Questions \X BOOLEAN) \cup {None}
    BY DEF Init
  <2>3. Init => /\ capTable \in [Entries -> CapTables]
                /\ held \in [Entries -> SUBSET Slots]
                /\ granted \in [Entries -> SUBSET Slots]
                /\ phase \in [Entries -> Phases]
                /\ caller \in [Questions -> CallerStates]
    BY <1>2 DEF Init, CallerStates, Phases
  <2>4. Init => /\ pipelineRefCount \in [Entries -> Int]
                /\ attempts \in [Entries -> Nat]
                /\ size \in [Entries -> 0 .. MaxFrameBytes]
                /\ retained \in Int
    BY <1>1 DEF Init
  <2>. QED
    BY <2>1, <2>2, <2>3, <2>4 DEF TypeOK
<1>. QED
  BY <1>3 DEF Init, EntryShape

\* Every reachable state is well typed: in particular no reference count and no
\* answer hold becomes negative, and only registered capabilities have claimed
\* their bootstrap grant.
THEOREM TypeCorrect == Spec => []TypeOK
<1>1. Init => TypeOK /\ EntryShape
  BY TypeInit
<1>2. TypeOK /\ EntryShape /\ [Next]_vars => (TypeOK /\ EntryShape)'
  BY TypeStep, EntryShapeStep
<1>. QED
  BY <1>1, <1>2, PTL DEF Spec

(***************************************************************************)
(* Pipeline reference counts.                                              *)
(***************************************************************************)
LEMMA ChildrenFinite ==
    \A t : IsFiniteSet(Children(t)) /\ Cardinality(Children(t)) \in Nat
<1>1. ASSUME NEW t PROVE IsFiniteSet(Children(t))
  BY SetsAssumption, FS_Subset DEF Children, Unsettled
<1>. QED
  BY <1>1, FS_CardinalityType

LEMMA PipelineRefKept ==
    ASSUME PipelineRefExact, UNCHANGED pipelineRefCount,
           \A t \in Entries : Children(t)' = Children(t)
    PROVE  PipelineRefExact'
BY DEF PipelineRefExact

\* Registering a call whose parent is p, in the phase it starts with.
LEMMA PipelineRefRegister ==
    ASSUME TypeOK, EntryShape, PipelineRefExact,
           NEW e \in Entries, phase[e] = "unused",
           NEW p \in Phases, phase' = [phase EXCEPT ![e] = p],
           \/ UNCHANGED <<parent, pipelineRefCount>>
           \/ /\ p \in {"waiting", "running", "failing"}
              /\ \E t \in Entries :
                  /\ parent' = [parent EXCEPT ![e] = t]
                  /\ pipelineRefCount' = [pipelineRefCount EXCEPT ![t] = @ + 1]
    PROVE  PipelineRefExact'
<1>1. parent[e] = None /\ e \notin Unsettled
  BY DEF EntryShape, Unsettled
<1>2. CASE UNCHANGED <<parent, pipelineRefCount>>
  <2>1. \A t \in Entries : Children(t)' = Children(t)
    BY <1>1, <1>2, NoneAssumption DEF Children, Unsettled, TypeOK
  <2>. QED
    BY <1>2, <2>1, PipelineRefKept
<1>3. ASSUME p \in {"waiting", "running", "failing"}, NEW t \in Entries,
             parent' = [parent EXCEPT ![e] = t],
             pipelineRefCount' = [pipelineRefCount EXCEPT ![t] = @ + 1]
      PROVE  PipelineRefExact'
  <2>1. Children(t)' = Children(t) \cup {e} /\ e \notin Children(t)
    BY <1>1, <1>3 DEF Children, Unsettled, TypeOK
  <2>2. Cardinality(Children(t)') = Cardinality(Children(t)) + 1
    BY <2>1, ChildrenFinite, FS_AddElement
  <2>3. \A x \in Entries \ {t} : Children(x)' = Children(x)
    BY <1>1, <1>3, NoneAssumption DEF Children, Unsettled, TypeOK
  <2>. QED
    BY <1>3, <2>2, <2>3 DEF PipelineRefExact, TypeOK
<1>. QED
  BY <1>2, <1>3

LEMMA PipelineRefSettles ==
    ASSUME TypeOK, EntryShape, PipelineRefExact, NEW e \in Entries,
           e \in Unsettled, phase' = [phase EXCEPT ![e] = "done"],
           UNCHANGED parent,
           pipelineRefCount' =
               IF parent[e] = None THEN pipelineRefCount
               ELSE [pipelineRefCount EXCEPT ![parent[e]] = @ - 1]
    PROVE  PipelineRefExact'
<1>1. Unsettled' = Unsettled \ {e}
  BY DEF Unsettled, TypeOK
<1>2. CASE parent[e] = None
  <2>1. \A t \in Entries : Children(t)' = Children(t)
    BY <1>1, <1>2, NoneAssumption DEF Children, TypeOK
  <2>. QED
    BY <1>2, <2>1, PipelineRefKept
<1>3. ASSUME NEW t \in Entries, parent[e] = t
      PROVE  PipelineRefExact'
  <2>1. Children(t)' = Children(t) \ {e} /\ e \in Children(t)
    BY <1>1, <1>3 DEF Children
  <2>2. Cardinality(Children(t)') = Cardinality(Children(t)) - 1
    BY <2>1, ChildrenFinite, FS_RemoveElement
  <2>3. \A x \in Entries \ {t} : Children(x)' = Children(x)
    BY <1>1, <1>3 DEF Children
  <2>4. pipelineRefCount' = [pipelineRefCount EXCEPT ![t] = @ - 1]
    BY <1>3, NoneAssumption
  <2>. QED
    BY <2>2, <2>3, <2>4 DEF PipelineRefExact, TypeOK
<1>. QED
  BY <1>2, <1>3 DEF TypeOK

LEMMA PipelineRefStep ==
    ASSUME TypeOK, EntryShape, PipelineRefExact, [Next]_vars
    PROVE  PipelineRefExact'
<1>1. CASE UNCHANGED entries
  <2>1. \A t \in Entries : Children(t)' = Children(t)
    BY <1>1 DEF entries, Children, Unsettled
  <2>. QED
    BY <1>1, <2>1, PipelineRefKept DEF entries
<1>2. ASSUME NEW q \in Questions, NEW e \in Entries, NEW c, NEW n, ReceiveCall(q, e, c, n)
      PROVE  PipelineRefExact'
  <2>1. PICK p \in DispatchPhases(c) : Register(q, e, n, p)
    BY <1>2 DEF ReceiveCall
  <2>. QED
    BY <1>2, <2>1, DispatchPhasesType, PipelineRefRegister DEF ReceiveCall, Register
<1>3. ASSUME NEW q \in Questions, NEW e \in Entries, NEW target \in Questions,
             NEW i, NEW n, ReceivePipelinedCall(q, e, target, i, n)
      PROVE  PipelineRefExact'
  <2>. DEFINE t == IF target = q THEN e ELSE answerTable[target]
  <2>1. CASE t = None
    BY <1>3, <2>1, PipelineRefRegister DEF ReceivePipelinedCall, Register, Phases
  <2>2. CASE t # None
    <3>1. /\ \/ \E p \in DispatchPhases(capTable[t][i]) : Register(q, e, n, p)
             \/ Register(q, e, n, "waiting")
          /\ parent' = [parent EXCEPT ![e] = t]
          /\ pipelineRefCount' = [pipelineRefCount EXCEPT ![t] = @ + 1]
      BY <1>3, <2>2 DEF ReceivePipelinedCall
    <3>2. PICK p \in {"running", "failing", "waiting"} : Register(q, e, n, p)
      BY <3>1 DEF DispatchPhases
    <3>3. t \in Entries /\ p \in Phases
      BY <2>2 DEF TypeOK, Phases
    <3>. QED
      BY <3>1, <3>2, <3>3, PipelineRefRegister DEF Register
  <2>. QED
    BY <2>1, <2>2
<1>4. ASSUME NEW q \in Questions, NEW e \in Entries,
             ReceiveBootstrap(q, e) \/ ObserveBootstrapResponse(q, e)
      PROVE  PipelineRefExact'
  BY <1>4, PipelineRefRegister
  DEF ReceiveBootstrap, ObserveBootstrapResponse, Register, Phases
<1>5. ASSUME NEW e \in Entries, NEW i, WakePipelinedCall(e, i)
      PROVE  PipelineRefExact'
  <2>1. Unsettled' = Unsettled
    BY <1>5 DEF WakePipelinedCall, DispatchPhases, Unsettled, TypeOK
  <2>2. \A t \in Entries : Children(t)' = Children(t)
    BY <1>5, <2>1 DEF WakePipelinedCall, Children
  <2>. QED
    BY <1>5, <2>2, PipelineRefKept DEF WakePipelinedCall
<1>6. ASSUME NEW e \in Entries, NEW table, NEW nf, NEW relayed,
             CallSettles(e, table, nf, relayed)
      PROVE  PipelineRefExact'
  BY <1>6, PipelineRefSettles DEF CallSettles, Unsettled
<1>7. ASSUME NEW e \in Entries, BootstrapSettles(e) \/ BootstrapFails(e)
      PROVE  PipelineRefExact'
  <2>1. parent[e] = None /\ e \in Unsettled
    BY <1>7 DEF BootstrapSettles, BootstrapFails, EntryShape, Unsettled
  <2>. QED
    BY <1>7, <2>1, PipelineRefSettles DEF BootstrapSettles, BootstrapFails
<1>8. ASSUME \/ UNCHANGED vars
             \/ \E q \in Questions : \E n : RejectCall(q, n)
             \/ \E q \in Questions, rel \in BOOLEAN :
                    FinishFrame(q, rel) \/ AnswerFinishedEvent(q, rel)
             \/ ForwardFinish
             \/ \E e \in Entries : EvictionTimer(e)
             \/ \E c \in Caps : \/ \E n \in 0 .. 1 : ExportCapability(c, n)
                                \/ RetainCapability(c)
                                \/ HandOver(c)
                                \/ \E n \in 1 .. MaxReferenceCount : ReleaseFrame(c, n)
                                \/ ReleaseOwn(c)
             \/ Close \/ \E q \in Questions : RejectBootstrapResponse(q)
      PROVE  UNCHANGED entries
  BY <1>8 DEF vars, RejectCall, FinishFrame, AnswerFinishedEvent, ForwardFinish,
              EvictionTimer, ExportCapability, RetainCapability, HandOver,
              ReleaseFrame, ReleaseOwn, Close, RejectBootstrapResponse, CloseBridge
<1>. QED
  BY <1>1, <1>2, <1>3, <1>4, <1>5, <1>6, <1>7, <1>8 DEF Next

\* The count that defers an entry's eviction is exactly the number of calls
\* pipelined on it that have not settled, whatever is canceled in between.
THEOREM PipelineRefsExact == Spec => []PipelineRefExact
<1>1. Init => TypeOK /\ EntryShape
  BY TypeInit
<1>2. Init => PipelineRefExact
  <2>1. Init => \A t \in Entries : Children(t) = {} /\ pipelineRefCount[t] = 0
    BY DEF Init, Children, Unsettled
  <2>. QED
    BY <2>1, FS_EmptySet DEF PipelineRefExact
<1>3. TypeOK /\ EntryShape /\ PipelineRefExact /\ [Next]_vars
          => (TypeOK /\ EntryShape /\ PipelineRefExact)'
  BY TypeStep, EntryShapeStep, PipelineRefStep
<1>. QED
  BY <1>1, <1>2, <1>3, PTL DEF Spec

(***************************************************************************)
(* Answer holds.                                                           *)
(***************************************************************************)
\* Without a WASM host a question keeps its owner until the owner settles: the
\* caller gets no Return for it before.
OwnerInv ==
    ~WasmHost => \A e \in Unsettled : /\ owner[question[e]] = e
                                      /\ caller[question[e]] \in {"open", "released", "kept"}

\* The table maps the question of a pending Bootstrap to it or to nothing.
BootstrapInv ==
    \A e \in Entries :
        phase[e] = "bootstrapping" =>
            ~WasmHost /\ answerTable[question[e]] \in {e, None}

\* Only registered capabilities carry holds, and each hold is an occurrence.
HoldInv ==
    /\ \A c \in Caps \ registered : hold[c] = 0
    /\ \A e \in Entries : \A i \in held[e] : capTable[e][i] \in Caps
    /\ HoldsExact

AnswerInv == TypeOK /\ EntryShape /\ OwnerInv /\ BootstrapInv

LEMMA OwnerInvAsk ==
    ASSUME AnswerInv, NEW q \in Questions, NEW e \in Entries, NEW n, NEW p,
           Ask(q, e), Register(q, e, n, p)
    PROVE  OwnerInv'
<1>1. SUFFICES ASSUME ~WasmHost, NEW x \in Unsettled'
               PROVE  (owner[question[x]] = x
                         /\ caller[question[x]] \in {"open", "released", "kept"})'
  BY DEF OwnerInv
<1>2. x \in Entries
  BY <1>1 DEF Unsettled
<1>3. CASE x = e
  BY <1>3 DEF AnswerInv, TypeOK, Ask, Register
<1>4. CASE x # e
  <2>1. x \in Unsettled /\ question'[x] = question[x]
    BY <1>1, <1>2, <1>4 DEF AnswerInv, TypeOK, Register, Unsettled
  <2>2. question[x] \in Questions /\ caller[question[x]] # "free" /\ owner[question[x]] = x
    BY <1>1, <2>1 DEF AnswerInv, OwnerInv, EntryShape, Unsettled
  <2>3. question[x] # q
    BY <2>2 DEF Ask
  <2>. QED
    BY <1>1, <2>1, <2>2, <2>3 DEF AnswerInv, TypeOK, OwnerInv, Ask
<1>. QED
  BY <1>3, <1>4

\* Settling e and answering its question disturbs no other dispatch.
LEMMA OwnerInvSettles ==
    ASSUME AnswerInv, NEW e \in Unsettled, phase' = [phase EXCEPT ![e] = "done"],
           UNCHANGED question,
           \A q \in Questions \ {question[e]} : caller'[q] = caller[q] /\ owner'[q] = owner[q]
    PROVE  OwnerInv'
<1>1. \A x \in Unsettled' : x \in Unsettled /\ x # e /\ x \in Entries /\ e \in Entries
  BY DEF AnswerInv, TypeOK, Unsettled
<1>2. ASSUME ~WasmHost
      PROVE  \A x \in Unsettled' : question[x] \in Questions \ {question[e]}
  BY <1>1, <1>2 DEF AnswerInv, OwnerInv, EntryShape, Unsettled
<1>. QED
  BY <1>1, <1>2 DEF AnswerInv, OwnerInv

\* A step that starts and settles nothing keeps owners; it may turn a question
\* that is open or answered into one that is finished.
LEMMA OwnerInvKept ==
    ASSUME AnswerInv, Unsettled' = Unsettled, UNCHANGED <<question, owner>>,
           \/ UNCHANGED caller
           \/ WasmHost
           \/ \E q \in Questions, rel \in BOOLEAN : SendFinish(q, rel)
    PROVE  OwnerInv'
<1>1. CASE UNCHANGED caller \/ WasmHost
  BY <1>1 DEF AnswerInv, OwnerInv
<1>2. ASSUME NEW q \in Questions, NEW rel \in BOOLEAN, SendFinish(q, rel), ~WasmHost
      PROVE  OwnerInv'
  <2>1. \A x \in Unsettled : question[x] \in Questions
    BY DEF AnswerInv, EntryShape, Unsettled
  <2>. QED
    BY <1>2, <2>1 DEF AnswerInv, OwnerInv, TypeOK, SendFinish
<1>. QED
  BY <1>1, <1>2

LEMMA OwnerInvStep ==
    ASSUME AnswerInv, [Next]_vars
    PROVE  OwnerInv'
<1>1. ASSUME UNCHANGED <<phase, question, owner, caller>>
      PROVE  OwnerInv'
  BY <1>1, OwnerInvKept DEF Unsettled
<1>2. ASSUME NEW q \in Questions, NEW n, RejectCall(q, n)
      PROVE  OwnerInv'
  <2>1. Unsettled' = Unsettled /\ question' = question
    BY <1>2 DEF RejectCall, entries, Unsettled
  <2>2. \A x \in Unsettled : question[x] \in Questions
    BY DEF AnswerInv, EntryShape, Unsettled
  <2>. QED
    BY <1>2, <2>1, <2>2 DEF RejectCall, AnswerInv, OwnerInv, TypeOK
<1>3. ASSUME NEW q \in Questions, NEW e \in Entries,
             \/ \E c, n : ReceiveCall(q, e, c, n)
             \/ \E target \in Questions : \E i, n : ReceivePipelinedCall(q, e, target, i, n)
             \/ ReceiveBootstrap(q, e)
      PROVE  OwnerInv'
  <2>1. Ask(q, e) /\ \E n, p : Register(q, e, n, p)
    BY <1>3 DEF ReceiveCall, ReceivePipelinedCall, ReceiveBootstrap
  <2>. QED
    BY <2>1, OwnerInvAsk
<1>4. ASSUME WasmHost
      PROVE  OwnerInv'
  BY <1>4 DEF OwnerInv
<1>5. ASSUME NEW e \in Entries, NEW i, WakePipelinedCall(e, i)
      PROVE  OwnerInv'
  <2>1. Unsettled' = Unsettled
    BY <1>5 DEF WakePipelinedCall, DispatchPhases, Unsettled, AnswerInv, TypeOK
  <2>. QED
    BY <1>5, <2>1, OwnerInvKept DEF WakePipelinedCall, peer
<1>6. ASSUME NEW e \in Entries, NEW table, NEW nf, NEW relayed,
             CallSettles(e, table, nf, relayed)
      PROVE  OwnerInv'
  <2>1. UNCHANGED peer \/ \E t, s, b : Deliver(e, t, s, b)
    BY <1>6 DEF CallSettles, ReturnAnswer, DiscardAnswer
  <2>2. \A q \in Questions \ {question[e]} : caller'[q] = caller[q] /\ owner'[q] = owner[q]
    BY <2>1 DEF Deliver, peer, AnswerInv, TypeOK
  <2>. QED
    BY <1>6, <2>2, OwnerInvSettles DEF CallSettles, Unsettled
<1>7. ASSUME NEW e \in Entries, BootstrapSettles(e) \/ BootstrapFails(e)
      PROVE  OwnerInv'
  <2>1. \A q \in Questions \ {question[e]} : caller'[q] = caller[q] /\ owner'[q] = owner[q]
    BY <1>7 DEF BootstrapSettles, BootstrapFails, DeliverBootstrap, peer, AnswerInv, TypeOK
  <2>. QED
    BY <1>7, <2>1, OwnerInvSettles DEF BootstrapSettles, BootstrapFails, Unsettled
<1>8. ASSUME NEW q \in Questions, NEW rel \in BOOLEAN, FinishFrame(q, rel)
      PROVE  OwnerInv'
  <2>1. Unsettled' = Unsettled /\ UNCHANGED <<question, owner>>
    BY <1>8 DEF FinishFrame, SendFinish, entries, Unsettled
  <2>. QED
    BY <1>8, <2>1, OwnerInvKept DEF FinishFrame
<1>9. ASSUME \/ UNCHANGED vars
             \/ ForwardFinish
             \/ \E e \in Entries : EvictionTimer(e)
             \/ \E c \in Caps : \/ \E n \in 0 .. 1 : ExportCapability(c, n)
                                \/ RetainCapability(c)
                                \/ HandOver(c)
                                \/ \E n \in 1 .. MaxReferenceCount : ReleaseFrame(c, n)
                                \/ ReleaseOwn(c)
             \/ Close \/ \E q \in Questions : RejectBootstrapResponse(q)
      PROVE  UNCHANGED <<phase, question, owner, caller>>
  BY <1>9 DEF vars, ForwardFinish, EvictionTimer, ExportCapability,
              RetainCapability, HandOver, ReleaseFrame, ReleaseOwn, Close,
              RejectBootstrapResponse, CloseBridge, entries, peer
<1>. QED
  BY <1>1, <1>2, <1>3, <1>4, <1>5, <1>6, <1>7, <1>8, <1>9
  DEF Next, AnswerFinishedEvent, ReportsFinish, ObserveBootstrapResponse

\* A new entry for a question that nothing asks leaves pending Bootstraps alone.
LEMMA BootstrapInvAsk ==
    ASSUME AnswerInv, NEW q \in Questions, NEW e \in Entries, NEW n,
           NEW p, Ask(q, e), Register(q, e, n, p), p = "bootstrapping" => ~WasmHost
    PROVE  BootstrapInv'
<1>1. ASSUME NEW x \in Entries \ {e}, phase'[x] = "bootstrapping"
      PROVE  ~WasmHost /\ answerTable'[question'[x]] \in {x, None}
  <2>1. phase[x] = "bootstrapping" /\ question'[x] = question[x]
    BY <1>1 DEF Register, AnswerInv, TypeOK
  <2>2. ~WasmHost /\ x \in Unsettled
    BY <2>1 DEF AnswerInv, BootstrapInv, Unsettled
  <2>3. question[x] # q
    BY <2>2 DEF AnswerInv, OwnerInv, Ask
  <2>. QED
    BY <2>1, <2>2, <2>3 DEF AnswerInv, BootstrapInv, EntryShape, TypeOK, Register
<1>2. phase'[e] = p /\ answerTable'[question'[e]] = e
  BY DEF Register, AnswerInv, TypeOK
<1>. QED
  BY <1>1, <1>2 DEF BootstrapInv

\* A step that starts no Bootstrap may take answers out of the table.
LEMMA BootstrapInvKept ==
    ASSUME AnswerInv, UNCHANGED question,
           \A x \in Entries : phase'[x] = "bootstrapping" => phase[x] = "bootstrapping",
           \A q \in Questions : answerTable'[q] \in {answerTable[q], None}
    PROVE  BootstrapInv'
BY DEF AnswerInv, BootstrapInv, EntryShape

LEMMA BootstrapInvStep ==
    ASSUME AnswerInv, [Next]_vars
    PROVE  BootstrapInv'
<1>1. ASSUME UNCHANGED <<phase, question>>,
             \A q \in Questions : answerTable'[q] \in {answerTable[q], None}
      PROVE  BootstrapInv'
  BY <1>1, BootstrapInvKept
<1>2. ASSUME NEW q \in Questions, NEW e \in Entries,
             \/ \E c, n : ReceiveCall(q, e, c, n)
             \/ \E target \in Questions : \E i, n : ReceivePipelinedCall(q, e, target, i, n)
             \/ ReceiveBootstrap(q, e)
      PROVE  BootstrapInv'
  <2>1. Ask(q, e) /\ \E n, p : Register(q, e, n, p) /\ (p = "bootstrapping" => ~WasmHost)
    BY <1>2 DEF ReceiveCall, ReceivePipelinedCall, ReceiveBootstrap, DispatchPhases
  <2>. QED
    BY <2>1, BootstrapInvAsk
<1>3. ASSUME NEW q \in Questions, NEW e \in Entries, ObserveBootstrapResponse(q, e)
      PROVE  BootstrapInv'
  BY <1>3 DEF ObserveBootstrapResponse, Register, AnswerInv, BootstrapInv, TypeOK
<1>4. ASSUME NEW e \in Entries,
             \/ \E i : WakePipelinedCall(e, i)
             \/ \E table, nf, relayed : CallSettles(e, table, nf, relayed)
             \/ BootstrapSettles(e)
             \/ BootstrapFails(e)
      PROVE  BootstrapInv'
  <2>1. /\ UNCHANGED question
        /\ answerTable' = answerTable
             \/ answerTable' = [answerTable EXCEPT ![question[e]] = None]
    BY <1>4 DEF WakePipelinedCall, CallSettles, BootstrapSettles, BootstrapFails
  <2>2. \E p \in {"running", "failing", "done"} : phase' = [phase EXCEPT ![e] = p]
    BY <1>4 DEF WakePipelinedCall, CallSettles, BootstrapSettles, BootstrapFails,
                DispatchPhases
  <2>. QED
    BY <2>1, <2>2, BootstrapInvKept DEF AnswerInv, TypeOK
<1>5. ASSUME NEW q \in Questions, NEW rel, BridgeFinish(q, rel), UNCHANGED entries
      PROVE  BootstrapInv'
  BY <1>1, <1>5 DEF BridgeFinish, entries, AnswerInv, TypeOK
<1>6. CASE \/ UNCHANGED vars
           \/ \E q \in Questions : \E n : RejectCall(q, n)
           \/ \E q \in Questions, rel \in BOOLEAN : AnswerFinishedEvent(q, rel)
           \/ \E c \in Caps : \/ \E n \in 0 .. 1 : ExportCapability(c, n)
                              \/ RetainCapability(c)
                              \/ HandOver(c)
                              \/ \E n \in 1 .. MaxReferenceCount : ReleaseFrame(c, n)
                              \/ ReleaseOwn(c)
  <2>1. UNCHANGED <<phase, question, answerTable>>
    BY <1>6 DEF vars, RejectCall, AnswerFinishedEvent, ExportCapability,
                RetainCapability, HandOver, ReleaseFrame, ReleaseOwn, entries
  <2>. QED
    BY <1>1, <2>1
<1>7. ASSUME NEW e \in Entries, EvictionTimer(e)
      PROVE  BootstrapInv'
  <2>1. UNCHANGED <<phase, question>>
    BY <1>7 DEF EvictionTimer, entries
  <2>2. answerTable' = answerTable
          \/ answerTable' = [answerTable EXCEPT ![question[e]] = None]
    BY <1>7 DEF EvictionTimer
  <2>. QED
    BY <1>1, <2>1, <2>2 DEF AnswerInv, TypeOK
<1>8. CASE Close \/ \E q \in Questions : RejectBootstrapResponse(q)
  BY <1>1, <1>8 DEF Close, RejectBootstrapResponse, CloseBridge, entries
<1>9. CASE ForwardFinish
  <2>1. finishing[1] \in Questions
    BY <1>9 DEF ForwardFinish, AnswerInv, TypeOK
  <2>. QED
    BY <1>5, <1>9, <2>1 DEF ForwardFinish
<1>10. CASE \E q \in Questions, rel \in BOOLEAN : FinishFrame(q, rel)
  BY <1>5, <1>10 DEF FinishFrame
<1>. QED
  BY <1>1, <1>2, <1>3, <1>4, <1>6, <1>7, <1>8, <1>9, <1>10 DEF Next

LEMMA AnswerInvStep ==
    ASSUME AnswerInv, [Next]_vars
    PROVE  AnswerInv'
<1>1. TypeOK' /\ EntryShape'
  BY TypeStep, EntryShapeStep DEF AnswerInv
<1>. QED
  BY <1>1, OwnerInvStep, BootstrapInvStep DEF AnswerInv

\* The occurrences that answers hold are finite in number.
LEMMA HeldFinite ==
    ASSUME TypeOK, NEW c
    PROVE  /\ IsFiniteSet(HeldOccurrences(c))
           /\ Cardinality(HeldOccurrences(c)) \in Nat
<1>1. IsFiniteSet(Entries \X Slots)
  BY SetsAssumption, FS_Product
<1>2. HeldOccurrences(c) \in SUBSET (Entries \X Slots)
  BY DEF HeldOccurrences
<1>. QED
  BY <1>1, <1>2, FS_Subset, FS_CardinalityType

\* One entry's share of the occurrences.
Share(e, table, slots, c) == {e} \X SlotsOf(table, slots, c)

LEMMA ShareSize ==
    ASSUME NEW e, NEW table, NEW slots \in SUBSET Slots, NEW c
    PROVE  /\ IsFiniteSet(Share(e, table, slots, c))
           /\ Cardinality(Share(e, table, slots, c)) = Occurrences(table, slots, c)
<1>1. SlotsOf(table, slots, c) \in SUBSET Slots
  BY DEF SlotsOf
<1>2. IsFiniteSet(SlotsOf(table, slots, c))
  BY <1>1, SetsAssumption, FS_Subset
<1>3. IsFiniteSet({e}) /\ Cardinality({e}) = 1
  BY FS_Singleton
<1>4. Occurrences(table, slots, c) \in Nat
  BY OccurrencesNat
<1>5. /\ IsFiniteSet({e} \X SlotsOf(table, slots, c))
      /\ Cardinality({e} \X SlotsOf(table, slots, c)) = 1 * Occurrences(table, slots, c)
  BY <1>2, <1>3, FS_Product DEF Occurrences
<1>. QED
  BY <1>4, <1>5 DEF Share

\* An entry without holds takes some.
LEMMA HeldAdded ==
    ASSUME TypeOK, NEW e \in Entries, held[e] = {},
           held'[e] \subseteq Slots, NEW c,
           \A x \in Entries \ {e} : held'[x] = held[x] /\ capTable'[x] = capTable[x]
    PROVE  Cardinality(HeldOccurrences(c)')
               = Cardinality(HeldOccurrences(c)) + Occurrences(capTable'[e], held'[e], c)
<1>. DEFINE share == Share(e, capTable'[e], held'[e], c)
<1>1. HeldOccurrences(c)' = HeldOccurrences(c) \cup share
  <2>1. ASSUME NEW x \in Entries, NEW i \in Slots
        PROVE  <<x, i>> \in HeldOccurrences(c)'
                   <=> <<x, i>> \in HeldOccurrences(c) \/ <<x, i>> \in share
    BY <2>1 DEF HeldOccurrences, Share, SlotsOf, TypeOK
  <2>2. /\ HeldOccurrences(c)' \subseteq Entries \X Slots
        /\ HeldOccurrences(c) \subseteq Entries \X Slots
        /\ share \subseteq Entries \X Slots
    BY DEF HeldOccurrences, Share, SlotsOf
  <2>. QED
    BY <2>1, <2>2
<1>2. HeldOccurrences(c) \cap share = {}
  BY DEF HeldOccurrences, Share
<1>3. IsFiniteSet(share) /\ Cardinality(share) = Occurrences(capTable'[e], held'[e], c)
  BY ShareSize
<1>4. Cardinality(HeldOccurrences(c) \cap share) = 0
  BY <1>2, FS_EmptySet
<1>. HIDE DEF share
<1>5. Cardinality(HeldOccurrences(c) \cup share)
        = Cardinality(HeldOccurrences(c)) + Cardinality(share)
              - Cardinality(HeldOccurrences(c) \cap share)
  BY <1>3, HeldFinite, FS_Union
<1>. QED
  BY <1>1, <1>3, <1>4, <1>5, HeldFinite, OccurrencesNat

\* An entry gives its holds up.
LEMMA HeldDropped ==
    ASSUME TypeOK, NEW e \in Entries, NEW c, UNCHANGED capTable,
           held' = [held EXCEPT ![e] = {}]
    PROVE  /\ Occurrences(capTable[e], held[e], c) <= Cardinality(HeldOccurrences(c))
           /\ Cardinality(HeldOccurrences(c)')
                  = Cardinality(HeldOccurrences(c)) - Occurrences(capTable[e], held[e], c)
<1>. DEFINE share == Share(e, capTable[e], held[e], c)
<1>0. held[e] \in SUBSET Slots
  BY DEF TypeOK
<1>1. HeldOccurrences(c)' = HeldOccurrences(c) \ share
  <2>1. ASSUME NEW x \in Entries, NEW i \in Slots
        PROVE  <<x, i>> \in HeldOccurrences(c)'
                   <=> <<x, i>> \in HeldOccurrences(c) /\ <<x, i>> \notin share
    BY <2>1 DEF HeldOccurrences, Share, SlotsOf, TypeOK
  <2>2. /\ HeldOccurrences(c)' \subseteq Entries \X Slots
        /\ HeldOccurrences(c) \subseteq Entries \X Slots
    BY DEF HeldOccurrences
  <2>. QED
    BY <2>1, <2>2
<1>2. share \in SUBSET HeldOccurrences(c)
  BY <1>0 DEF HeldOccurrences, Share, SlotsOf
<1>3. Cardinality(share) = Occurrences(capTable[e], held[e], c)
  BY <1>0, ShareSize
<1>. HIDE DEF share
<1>4. HeldOccurrences(c) \cap share = share
  BY <1>2
<1>5. Cardinality(share) <= Cardinality(HeldOccurrences(c))
  BY <1>2, HeldFinite, FS_Subset
<1>6. Cardinality(HeldOccurrences(c) \ share)
        = Cardinality(HeldOccurrences(c)) - Cardinality(HeldOccurrences(c) \cap share)
  BY HeldFinite, FS_Difference
<1>. QED
  BY <1>1, <1>3, <1>4, <1>5, <1>6

\* A step that takes and gives up no holds keeps their account, as long as what it
\* unregisters carries none and answers with holds stay in the table.
LEMMA HoldInvKept ==
    ASSUME TypeOK, HoldInv, UNCHANGED <<closed, hold, held>>,
           \A c \in registered \ registered' : hold[c] = 0,
           \A e \in Entries : held[e] # {} =>
               capTable'[e] = capTable[e] /\ (Live(e) => Live(e)')
    PROVE  HoldInv'
<1>1. \A c \in Caps : HeldOccurrences(c)' = HeldOccurrences(c)
  BY DEF HeldOccurrences
<1>2. HoldsExact'
  BY <1>1 DEF HoldInv, HoldsExact
<1>3. \A c \in Caps \ registered' : hold'[c] = 0
  BY DEF HoldInv
<1>4. \A e \in Entries : \A i \in held'[e] : capTable'[e][i] \in Caps
  BY DEF HoldInv
<1>. QED
  BY <1>2, <1>3, <1>4 DEF HoldInv

\* An answer takes a hold for each occurrence of a registered capability.
LEMMA HoldInvTaken ==
    ASSUME TypeOK, HoldInv, NEW e \in Entries, held[e] = {},
           NEW table, NEW slots \in SUBSET Slots,
           \A i \in slots : table[i] \in registered,
           capTable' = [capTable EXCEPT ![e] = table],
           held' = [held EXCEPT ![e] = slots],
           \A c \in Caps : hold'[c] = hold[c] + Occurrences(table, slots, c),
           UNCHANGED <<closed, registered>>,
           Live(e)', \A x \in Entries \ {e} : Live(x) => Live(x)'
    PROVE  HoldInv'
<1>1. ASSUME ~closed
      PROVE  \A c \in Caps : hold'[c] = Cardinality(HeldOccurrences(c)')
  <2>1. /\ capTable'[e] = table /\ held'[e] = slots
        /\ \A x \in Entries \ {e} : held'[x] = held[x] /\ capTable'[x] = capTable[x]
    BY DEF TypeOK
  <2>2. \A c \in Caps : hold[c] = Cardinality(HeldOccurrences(c))
    BY <1>1 DEF HoldInv, HoldsExact
  <2>3. \A c \in Caps : Cardinality(HeldOccurrences(c)')
                            = Cardinality(HeldOccurrences(c)) + Occurrences(table, slots, c)
    BY <2>1, HeldAdded
  <2>. QED
    BY <2>2, <2>3
<1>2. \A x \in Entries : ~closed /\ held'[x] # {} => Live(x)'
  BY DEF HoldInv, HoldsExact, TypeOK
<1>3. HoldsExact'
  BY <1>1, <1>2 DEF HoldsExact
<1>4. ASSUME NEW c \in Caps \ registered'
      PROVE  hold'[c] = 0
  <2>1. SlotsOf(table, slots, c) = {}
    BY <1>4 DEF SlotsOf
  <2>2. Occurrences(table, slots, c) = 0
    BY <2>1, FS_EmptySet DEF Occurrences
  <2>. QED
    BY <1>4, <2>2 DEF HoldInv
<1>5. \A x \in Entries : \A i \in held'[x] : capTable'[x][i] \in Caps
  BY DEF HoldInv, TypeOK
<1>. QED
  BY <1>3, <1>4, <1>5 DEF HoldInv

\* An answer gives up its holds: no capability without a registration keeps one.
LEMMA HoldInvReleased ==
    ASSUME TypeOK, HoldInv, NEW e \in Entries, NEW rel \in BOOLEAN,
           ReleaseAnswerHeldCapabilities(e, rel), UNCHANGED <<closed, capTable>>,
           \A x \in Entries \ {e} : Live(x) => Live(x)'
    PROVE  HoldInv'
<1>1. /\ held' = [held EXCEPT ![e] = {}]
      /\ \A c \in Caps : hold'[c] = Monus(hold[c], Occurrences(capTable[e], held[e], c))
      /\ \A c \in registered \ registered' : c \in Caps => hold'[c] = 0
  BY DEF ReleaseAnswerHeldCapabilities
<1>2. \A c \in Caps : /\ Occurrences(capTable[e], held[e], c) \in Nat
                      /\ hold[c] \in Nat
  BY OccurrencesNat DEF TypeOK
<1>3. ASSUME ~closed
      PROVE  \A c \in Caps : hold'[c] = Cardinality(HeldOccurrences(c)')
  <2>1. ASSUME NEW c \in Caps
        PROVE  hold'[c] = Cardinality(HeldOccurrences(c)')
    <3>1. /\ Occurrences(capTable[e], held[e], c) <= hold[c]
          /\ Cardinality(HeldOccurrences(c)') = hold[c] - Occurrences(capTable[e], held[e], c)
      BY <1>1, <1>3, HeldDropped DEF HoldInv, HoldsExact
    <3>. QED
      BY <1>1, <1>2, <3>1 DEF Monus
  <2>. QED
    BY <2>1
<1>4. \A x \in Entries : ~closed /\ held'[x] # {} => Live(x)'
  BY <1>1 DEF HoldInv, HoldsExact, TypeOK
<1>5. HoldsExact'
  BY <1>3, <1>4 DEF HoldsExact
<1>6. \A c \in Caps \ registered' : hold'[c] = 0
  BY <1>1, <1>2 DEF HoldInv, Monus
<1>7. \A x \in Entries : \A i \in held'[x] : capTable'[x][i] \in Caps
  BY <1>1 DEF HoldInv, TypeOK
<1>. QED
  BY <1>5, <1>6, <1>7 DEF HoldInv

\* The bridge retains a bootstrap answer.
LEMMA HoldInvBootstrap ==
    ASSUME TypeOK, HoldInv, NEW e \in Entries, held[e] = {},
           capTable' = [capTable EXCEPT ![e] = RootTable], TrackBootstrap(e),
           UNCHANGED <<closed, registered>>,
           Live(e)', \A x \in Entries \ {e} : Live(x) => Live(x)'
    PROVE  HoldInv'
<1>1. CASE Root \notin registered
  BY <1>1, HoldInvKept DEF TrackBootstrap, TypeOK
<1>2. CASE Root \in registered
  <2>1. {RootSlot} \in SUBSET Slots /\ RootTable[RootSlot] = Root
    BY RootTableType DEF RootTable, NoTable
  <2>2. \A c : SlotsOf(RootTable, {RootSlot}, c) = IF c = Root THEN {RootSlot} ELSE {}
    BY <2>1 DEF SlotsOf
  <2>3. \A c : Occurrences(RootTable, {RootSlot}, c) = IF c = Root THEN 1 ELSE 0
    BY <2>2, FS_EmptySet, FS_Singleton DEF Occurrences
  <2>4. /\ held' = [held EXCEPT ![e] = {RootSlot}]
        /\ hold' = [hold EXCEPT ![Root] = @ + 1]
    BY <1>2 DEF TrackBootstrap
  <2>5. \A c \in Caps : hold'[c] = hold[c] + Occurrences(RootTable, {RootSlot}, c)
    <3>1. \A c \in Caps : hold[c] \in Nat /\ hold'[c] = hold[c] + (IF c = Root THEN 1 ELSE 0)
      BY <2>4 DEF TypeOK
    <3>. QED
      BY <2>3, <3>1
  <2>6. \A i \in {RootSlot} : RootTable[i] \in registered
    BY <1>2, <2>1
  <2>. QED
    BY <2>1, <2>4, <2>5, <2>6, HoldInvTaken
<1>. QED
  BY <1>1, <1>2

\* Registering a question takes no other answer out of the table.
LEMMA RegisterKeepsLive ==
    ASSUME TypeOK, EntryShape, NEW q \in Questions, NEW e \in Entries, NEW n, NEW p,
           Register(q, e, n, p)
    PROVE  /\ held[e] = {}
           /\ Live(e)'
           /\ \A x \in Entries \ {e} : Live(x) => Live(x)'
<1>1. held[e] = {}
  BY DEF Register, EntryShape
<1>2. Live(e)'
  BY DEF Register, Live, TypeOK
<1>3. ASSUME NEW x \in Entries \ {e}, Live(x)
      PROVE  Live(x)'
  <2>1. question[x] # q /\ question'[x] = question[x]
    BY <1>3, NoneAssumption DEF Register, CanRegister, Pending, Live, TypeOK
  <2>. QED
    BY <1>3, <2>1 DEF Register, Live, TypeOK
<1>. QED
  BY <1>1, <1>2, <1>3

\* Taking a question out of the table takes no other question's answer out.
LEMMA RemovalKeepsLive ==
    ASSUME TypeOK, NEW q \in Questions, UNCHANGED question,
           answerTable' = [answerTable EXCEPT ![q] = None]
    PROVE  \A x \in Entries : Live(x) /\ x # answerTable[q] => Live(x)'
BY DEF Live, TypeOK

LEMMA HoldInvFinish ==
    ASSUME TypeOK, HoldInv, NEW q \in Questions, NEW rel \in BOOLEAN,
           BridgeFinish(q, rel), UNCHANGED <<closed, entries>>
    PROVE  HoldInv'
<1>1. \A x \in Entries : Live(x) /\ x # answerTable[q] => Live(x)'
  BY RemovalKeepsLive DEF BridgeFinish, entries
<1>2. CASE answerTable[q] = None
  <2>1. UNCHANGED <<registry, held>> /\ \A x \in Entries : x # answerTable[q]
    BY <1>2, NoneAssumption DEF BridgeFinish
  <2>. QED
    BY <1>1, <2>1, HoldInvKept DEF registry, entries
<1>3. CASE answerTable[q] # None
  <2>1. answerTable[q] \in Entries /\ ReleaseAnswerHeldCapabilities(answerTable[q], rel)
    BY <1>3 DEF BridgeFinish, TypeOK
  <2>. QED
    BY <1>1, <2>1, HoldInvReleased DEF entries
<1>. QED
  BY <1>2, <1>3

LEMMA HoldInvSettles ==
    ASSUME AnswerInv, HoldInv, NEW e \in Entries,
           \/ \E table \in CapTables : \E nf, relayed : CallSettles(e, table, nf, relayed)
           \/ BootstrapSettles(e)
           \/ BootstrapFails(e)
    PROVE  HoldInv'
<1>1. held[e] = {} /\ question[e] \in Questions
  BY DEF CallSettles, BootstrapSettles, BootstrapFails, AnswerInv, EntryShape
<1>2. ASSUME NEW table \in CapTables, NEW nf, NEW relayed, CallSettles(e, table, nf, relayed)
      PROVE  HoldInv'
  <2>1. UNCHANGED <<closed, registered, answerTable, question>>
    BY <1>2 DEF CallSettles
  <2>2. \A x \in Entries : Live(x) => Live(x)'
    BY <2>1 DEF Live
  <2>3. capTable' = [capTable EXCEPT ![e] = table]
    BY <1>2 DEF CallSettles
  <2>4. CASE ReturnAnswer(e, table, nf, relayed)
    <3>1. /\ Tracked(table) \in SUBSET Slots
          /\ \A i \in Tracked(table) : table[i] \in registered
      BY DEF Tracked
    <3>2. /\ held' = [held EXCEPT ![e] = Tracked(table)]
          /\ \A c \in Caps : hold'[c] = hold[c] + Occurrences(table, Tracked(table), c)
          /\ Live(e)'
      BY <2>2, <2>4 DEF ReturnAnswer, Track
    <3>. QED
      BY <1>1, <2>1, <2>2, <2>3, <3>1, <3>2, HoldInvTaken DEF AnswerInv
  <2>5. CASE DiscardAnswer(e)
    <3>1. UNCHANGED <<hold, held>>
      BY <2>5 DEF DiscardAnswer
    <3>2. \A x \in Entries : held[x] # {} => capTable'[x] = capTable[x]
      BY <1>1, <2>3 DEF AnswerInv, TypeOK
    <3>. QED
      BY <2>1, <2>2, <3>1, <3>2, HoldInvKept DEF AnswerInv
  <2>. QED
    BY <1>2, <2>4, <2>5 DEF CallSettles
<1>3. CASE BootstrapSettles(e)
  <2>1. UNCHANGED <<closed, registered, answerTable, question>>
    BY <1>3 DEF BootstrapSettles
  <2>2. \A x \in Entries : Live(x) => Live(x)'
    BY <2>1 DEF Live
  <2>3. capTable' = [capTable EXCEPT ![e] = RootTable]
    BY <1>3 DEF BootstrapSettles
  <2>4. CASE Live(e) /\ TrackBootstrap(e)
    BY <1>1, <2>1, <2>2, <2>3, <2>4, HoldInvBootstrap DEF AnswerInv
  <2>5. CASE UNCHANGED <<hold, held>>
    <3>1. \A x \in Entries : held[x] # {} => capTable'[x] = capTable[x]
      BY <1>1, <2>3 DEF AnswerInv, TypeOK
    <3>. QED
      BY <2>1, <2>2, <2>5, <3>1, HoldInvKept DEF AnswerInv
  <2>. QED
    BY <1>3, <2>4, <2>5 DEF BootstrapSettles
<1>4. CASE BootstrapFails(e)
  <2>1. answerTable[question[e]] \in {e, None}
    BY <1>4 DEF BootstrapFails, AnswerInv, BootstrapInv
  <2>2. \A x \in Entries : held[x] # {} => x # answerTable[question[e]]
    BY <1>1, <2>1, NoneAssumption
  <2>3. \A x \in Entries : held[x] # {} /\ Live(x) => Live(x)'
    BY <1>1, <1>4, <2>2, RemovalKeepsLive DEF BootstrapFails, AnswerInv
  <2>. QED
    BY <1>4, <2>3, HoldInvKept DEF BootstrapFails, registry, AnswerInv
<1>. QED
  BY <1>2, <1>3, <1>4

LEMMA HoldInvReceive ==
    ASSUME AnswerInv, HoldInv, NEW q \in Questions, NEW e \in Entries,
           \/ \E c, n : ReceiveCall(q, e, c, n)
           \/ \E target \in Questions : \E i, n : ReceivePipelinedCall(q, e, target, i, n)
           \/ ReceiveBootstrap(q, e)
           \/ ObserveBootstrapResponse(q, e)
    PROVE  HoldInv'
<1>1. PICK n, p : Register(q, e, n, p)
  BY DEF ReceiveCall, ReceivePipelinedCall, ReceiveBootstrap, ObserveBootstrapResponse
<1>2. /\ held[e] = {} /\ Live(e)'
      /\ \A x \in Entries \ {e} : Live(x) => Live(x)'
  BY <1>1, RegisterKeepsLive DEF AnswerInv
<1>3. CASE ObserveBootstrapResponse(q, e)
  BY <1>2, <1>3, HoldInvBootstrap DEF ObserveBootstrapResponse, AnswerInv
<1>4. CASE ~ObserveBootstrapResponse(q, e)
  <2>1. UNCHANGED <<closed, registry, capTable, held>>
    BY <1>4 DEF ReceiveCall, ReceivePipelinedCall, ReceiveBootstrap
  <2>. QED
    BY <1>2, <2>1, HoldInvKept DEF registry, AnswerInv
<1>. QED
  BY <1>3, <1>4

\* The actions on capabilities: only one without holds loses its registration.
LEMMA HoldInvCapability ==
    ASSUME AnswerInv, HoldInv, NEW c \in Caps,
           \/ \E n \in 0 .. 1 : ExportCapability(c, n)
           \/ RetainCapability(c)
           \/ HandOver(c)
           \/ \E n \in 1 .. MaxReferenceCount : ReleaseFrame(c, n)
           \/ ReleaseOwn(c)
    PROVE  HoldInv'
<1>1. UNCHANGED <<closed, hold, held, capTable, question, answerTable>>
  BY DEF ExportCapability, RetainCapability, HandOver, ReleaseFrame, ReleaseOwn,
         DropReferences, registry, entries
<1>2. \A x \in registered \ registered' : hold[x] = 0
  BY DEF ExportCapability, RetainCapability, HandOver, ReleaseFrame, ReleaseOwn,
         DropReferences, registry
<1>3. \A e \in Entries : Live(e) => Live(e)'
  BY <1>1 DEF Live
<1>. QED
  BY <1>1, <1>2, <1>3, HoldInvKept DEF AnswerInv

LEMMA HoldInvStep ==
    ASSUME AnswerInv, HoldInv, [Next]_vars
    PROVE  HoldInv'
<1>1. ASSUME UNCHANGED <<closed, registry, held, capTable, question, answerTable>>
      PROVE  HoldInv'
  <2>1. \A e \in Entries : Live(e) => Live(e)'
    BY <1>1 DEF Live
  <2>. QED
    BY <1>1, <2>1, HoldInvKept DEF registry, AnswerInv
<1>2. CASE \/ UNCHANGED vars
           \/ \E q \in Questions : \E n : RejectCall(q, n)
           \/ \E q \in Questions, rel \in BOOLEAN : AnswerFinishedEvent(q, rel)
           \/ \E e \in Entries : \E i : WakePipelinedCall(e, i)
  BY <1>1, <1>2 DEF vars, RejectCall, AnswerFinishedEvent, WakePipelinedCall, entries
<1>3. CASE \E q \in Questions, rel \in BOOLEAN : FinishFrame(q, rel)
  BY <1>3, HoldInvFinish DEF FinishFrame, AnswerInv
<1>4. CASE ForwardFinish
  <2>1. finishing[1] \in Questions /\ finishing[2] \in BOOLEAN
    BY <1>4 DEF ForwardFinish, AnswerInv, TypeOK
  <2>. QED
    BY <1>4, <2>1, HoldInvFinish DEF ForwardFinish, AnswerInv
<1>5. ASSUME NEW e \in Entries, EvictionTimer(e)
      PROVE  HoldInv'
  <2>1. UNCHANGED <<closed, entries>>
    BY <1>5 DEF EvictionTimer
  <2>2. CASE UNCHANGED <<registry, answerTable, held>>
    BY <1>1, <2>1, <2>2 DEF entries
  <2>3. CASE /\ Live(e) /\ ReleaseAnswerHeldCapabilities(e, FALSE)
             /\ answerTable' = [answerTable EXCEPT ![question[e]] = None]
    <3>1. \A x \in Entries \ {e} : Live(x) => Live(x)'
      BY <2>1, <2>3, RemovalKeepsLive DEF Live, entries, AnswerInv
    <3>. QED
      BY <2>1, <2>3, <3>1, HoldInvReleased DEF entries, AnswerInv
  <2>. QED
    BY <1>5, <2>2, <2>3 DEF EvictionTimer
<1>6. CASE Close \/ \E q \in Questions : RejectBootstrapResponse(q)
  <2>1. CloseBridge
    BY <1>6 DEF Close, RejectBootstrapResponse
  <2>. QED
    BY <2>1 DEF CloseBridge, entries, HoldInv, HoldsExact
<1>. QED
  BY <1>2, <1>3, <1>4, <1>5, <1>6, HoldInvReceive, HoldInvCapability, HoldInvSettles
  DEF Next

LEMMA AnswerInit == Init => AnswerInv /\ HoldInv
<1>. SUFFICES ASSUME Init PROVE AnswerInv /\ HoldInv
  OBVIOUS
<1>1. TypeOK /\ EntryShape
  BY TypeInit
<1>2. OwnerInv /\ BootstrapInv
  BY DEF Init, OwnerInv, BootstrapInv, Unsettled
<1>3. \A c \in Caps : HeldOccurrences(c) = {}
  BY DEF Init, HeldOccurrences
<1>4. HoldsExact
  BY <1>3, FS_EmptySet DEF Init, HoldsExact
<1>5. HoldInv
  BY <1>4 DEF Init, HoldInv
<1>. QED
  BY <1>1, <1>2, <1>5 DEF AnswerInv

LEMMA HoldsConsistent == Spec => [](AnswerInv /\ HoldInv)
<1>1. (AnswerInv /\ HoldInv) /\ [Next]_vars => (AnswerInv /\ HoldInv)'
  BY AnswerInvStep, HoldInvStep
<1>. QED
  BY <1>1, AnswerInit, PTL DEF Spec

\* answerHoldCount is exactly the number of occurrences in retained answers,
\* whatever is finished, evicted, settled late or asked again.
THEOREM AnswerHoldsExact == Spec => []HoldsExact
<1>1. HoldInv => HoldsExact
  BY DEF HoldInv
<1>. QED
  BY <1>1, HoldsConsistent, PTL

\* A capability that a retained answer names stays registered until the answer
\* goes: no order of Release frames can take it from a pipelined call.
THEOREM RetainedAnswersKeepCaps == Spec => []AnswerHoldsKeepCaps
<1>1. AnswerInv /\ HoldInv => AnswerHoldsKeepCaps
  <2>1. SUFFICES ASSUME AnswerInv, HoldInv, ~closed, NEW e \in Entries, NEW i \in held[e]
                 PROVE  capTable[e][i] \in registered
    BY DEF AnswerHoldsKeepCaps
  <2>. DEFINE c == capTable[e][i]
  <2>2. c \in Caps /\ i \in Slots
    BY <2>1 DEF HoldInv, AnswerInv, TypeOK
  <2>3. <<e, i>> \in HeldOccurrences(c)
    BY <2>1, <2>2 DEF HeldOccurrences
  <2>4. Cardinality(HeldOccurrences(c)) # 0
    BY <2>1, <2>3, HeldFinite, FS_EmptySet DEF AnswerInv
  <2>5. hold[c] # 0
    BY <2>1, <2>2, <2>4 DEF HoldInv, HoldsExact
  <2>. QED
    BY <2>1, <2>2, <2>5 DEF HoldInv
<1>. QED
  BY <1>1, HoldsConsistent, PTL

(***************************************************************************)
(* Input bytes.                                                            *)
(***************************************************************************)
\* A Bootstrap charges nothing.
SizeInv == \A e \in Entries : phase[e] = "bootstrapping" => size[e] = 0

\* One dispatch's share of the bytes.
Charge(e, n) == {e} \X (1 .. n)

LEMMA ChargeSize == ASSUME NEW e, NEW n \in Nat
                    PROVE  IsFiniteSet(Charge(e, n)) /\ Cardinality(Charge(e, n)) = n
<1>1. IsFiniteSet(1 .. n) /\ Cardinality(1 .. n) = n
  <2>1. 1 \in Int /\ n \in Int
    OBVIOUS
  <2>. QED
    BY <2>1, FS_Interval
<1>2. IsFiniteSet({e}) /\ Cardinality({e}) = 1
  BY FS_Singleton
<1>3. /\ IsFiniteSet({e} \X (1 .. n))
      /\ Cardinality({e} \X (1 .. n)) = 1 * n
  BY <1>1, <1>2, FS_Product
<1>. QED
  BY <1>3 DEF Charge

LEMMA ChargedFinite == IsFiniteSet(ChargedBytes) /\ Cardinality(ChargedBytes) \in Nat
<1>1. IsFiniteSet(1 .. MaxFrameBytes)
  <2>1. 1 \in Int /\ MaxFrameBytes \in Int
    BY LimitAssumption
  <2>. QED
    BY <2>1, FS_Interval
<1>2. IsFiniteSet(Entries \X (1 .. MaxFrameBytes))
  BY <1>1, SetsAssumption, FS_Product
<1>3. ChargedBytes \in SUBSET (Entries \X (1 .. MaxFrameBytes))
  BY DEF ChargedBytes, Unsettled
<1>. QED
  BY <1>2, <1>3, FS_Subset, FS_CardinalityType

LEMMA BytesKept ==
    ASSUME RetainedBytesExact, UNCHANGED <<size, retained>>, Unsettled' = Unsettled
    PROVE  RetainedBytesExact'
<1>1. ChargedBytes' = ChargedBytes
  BY DEF ChargedBytes
<1>. QED
  BY <1>1 DEF RetainedBytesExact

\* What is registered is charged within the budget.
LEMMA BytesRegister ==
    ASSUME TypeOK, RetainedBytesExact, NEW q \in Questions, NEW e \in Entries,
           NEW n \in 0 .. MaxFrameBytes, NEW p \in Phases \ {"unused"},
           Register(q, e, n, p), p = "done" => n = 0
    PROVE  RetainedBytesExact'
<1>1. e \notin Unsettled /\ retained' = retained + n
      /\ size' = [size EXCEPT ![e] = n]
      /\ n <= MaxRetainedInputFrameBytes - retained
  BY DEF Register, CanRegister, Unsettled
<1>2. Unsettled' = IF p = "done" THEN Unsettled ELSE Unsettled \cup {e}
  BY DEF Register, Unsettled, TypeOK, Phases
<1>3. n \in Nat /\ MaxFrameBytes \in Nat /\ MaxRetainedInputFrameBytes \in Nat
  BY LimitAssumption
<1>4. ChargedBytes' = ChargedBytes \cup Charge(e, n)
  <2>1. ASSUME NEW x, NEW b
        PROVE  <<x, b>> \in ChargedBytes'
                   <=> <<x, b>> \in ChargedBytes \/ <<x, b>> \in Charge(e, n)
    <3>1. CASE x # e
      BY <3>1, <1>1, <1>2 DEF ChargedBytes, Charge, Unsettled, TypeOK
    <3>2. CASE x = e
      <4>1. <<x, b>> \notin ChargedBytes
        BY <3>2, <1>1 DEF ChargedBytes
      <4>2. size'[e] = n
        BY <1>1 DEF TypeOK
      <4>3. <<x, b>> \in ChargedBytes' <=> p # "done" /\ b \in 1 .. MaxFrameBytes /\ b <= n
        BY <3>2, <1>1, <1>2, <4>2 DEF ChargedBytes
      <4>4. <<x, b>> \in Charge(e, n) <=> b \in 1 .. n
        BY <3>2 DEF Charge
      <4>. QED
        BY <4>1, <4>3, <4>4, <1>3
    <3>. QED
      BY <3>1, <3>2
  <2>2. ChargedBytes' \subseteq Entries \X (1 .. MaxFrameBytes)
    BY DEF ChargedBytes, Unsettled
  <2>3. ChargedBytes \subseteq Entries \X (1 .. MaxFrameBytes)
    BY DEF ChargedBytes, Unsettled
  <2>4. Charge(e, n) \subseteq {e} \X (1 .. n)
    BY DEF Charge
  <2>. QED
    BY <2>1, <2>2, <2>3, <2>4
<1>5. ChargedBytes \cap Charge(e, n) = {}
  BY <1>1 DEF ChargedBytes, Charge
<1>6. Cardinality(ChargedBytes \cap Charge(e, n)) = 0
  BY <1>5, FS_EmptySet
<1>7. IsFiniteSet(Charge(e, n)) /\ Cardinality(Charge(e, n)) = n
  BY <1>3, ChargeSize
<1>8. Cardinality(ChargedBytes \cup Charge(e, n))
        = Cardinality(ChargedBytes) + Cardinality(Charge(e, n))
              - Cardinality(ChargedBytes \cap Charge(e, n))
  BY <1>7, ChargedFinite, FS_Union
<1>9. Cardinality(ChargedBytes') = Cardinality(ChargedBytes) + n
  BY <1>3, <1>4, <1>6, <1>7, <1>8, ChargedFinite
<1>. QED
  BY <1>1, <1>3, <1>9, ChargedFinite DEF RetainedBytesExact

\* A dispatch that settles gives its bytes back.
LEMMA BytesSettle ==
    ASSUME TypeOK, RetainedBytesExact, NEW e \in Unsettled,
           phase' = [phase EXCEPT ![e] = "done"], UNCHANGED size,
           retained' = retained - size[e]
    PROVE  RetainedBytesExact'
<1>0. e \in Entries /\ size[e] \in Nat /\ size[e] \in 0 .. MaxFrameBytes
      /\ MaxRetainedInputFrameBytes \in Nat
  BY LimitAssumption DEF Unsettled, TypeOK
<1>1. Unsettled' = Unsettled \ {e}
  BY <1>0 DEF Unsettled, TypeOK
<1>2. ChargedBytes' = ChargedBytes \ Charge(e, size[e])
  <2>1. ASSUME NEW x, NEW b
        PROVE  <<x, b>> \in ChargedBytes'
                   <=> <<x, b>> \in ChargedBytes /\ <<x, b>> \notin Charge(e, size[e])
    BY <1>0, <1>1 DEF ChargedBytes, Charge
  <2>2. /\ ChargedBytes' \subseteq Entries \X (1 .. MaxFrameBytes)
        /\ ChargedBytes \subseteq Entries \X (1 .. MaxFrameBytes)
    BY DEF ChargedBytes, Unsettled
  <2>. QED
    BY <2>1, <2>2
<1>3. Charge(e, size[e]) \subseteq ChargedBytes
  BY <1>0, LimitAssumption DEF Charge, ChargedBytes
<1>4. ChargedBytes \cap Charge(e, size[e]) = Charge(e, size[e])
  BY <1>3
<1>5. Cardinality(ChargedBytes \ Charge(e, size[e]))
        = Cardinality(ChargedBytes)
              - Cardinality(ChargedBytes \cap Charge(e, size[e]))
  BY ChargedFinite, FS_Difference
<1>6. Cardinality(ChargedBytes') = Cardinality(ChargedBytes) - size[e]
  BY <1>0, <1>2, <1>4, <1>5, ChargeSize
<1>. QED
  BY <1>0, <1>6, ChargedFinite DEF RetainedBytesExact, TypeOK

LEMMA BytesStep ==
    ASSUME TypeOK, SizeInv, RetainedBytesExact, [Next]_vars
    PROVE  RetainedBytesExact' /\ SizeInv'
<1>1. ASSUME UNCHANGED entries, UNCHANGED retained
      PROVE  RetainedBytesExact' /\ SizeInv'
  <2>1. Unsettled' = Unsettled
    BY <1>1 DEF entries, Unsettled
  <2>. QED
    BY <1>1, <2>1, BytesKept DEF entries, SizeInv
<1>2. ASSUME NEW q \in Questions, NEW e \in Entries, NEW n \in 0 .. MaxFrameBytes,
             NEW p \in Phases \ {"unused"}, Register(q, e, n, p),
             p \in {"done", "bootstrapping"} => n = 0
      PROVE  RetainedBytesExact' /\ SizeInv'
  <2>1. SizeInv'
    BY <1>2 DEF Register, SizeInv, TypeOK
  <2>. QED
    BY <1>2, <2>1, BytesRegister
<1>3. ASSUME NEW q \in Questions, NEW e \in Entries, NEW c, NEW n \in 1 .. MaxFrameBytes,
             ReceiveCall(q, e, c, n)
      PROVE  RetainedBytesExact' /\ SizeInv'
  <2>1. PICK p \in DispatchPhases(c) : Register(q, e, n, p)
    BY <1>3 DEF ReceiveCall
  <2>2. p \in {"running", "failing"} /\ n \in 0 .. MaxFrameBytes
    BY <2>1, LimitAssumption DEF DispatchPhases
  <2>. QED
    BY <1>2, <2>1, <2>2 DEF Phases
<1>4. ASSUME NEW q \in Questions, NEW e \in Entries, NEW target \in Questions,
             NEW i, NEW n \in 1 .. MaxFrameBytes,
             ReceivePipelinedCall(q, e, target, i, n)
      PROVE  RetainedBytesExact' /\ SizeInv'
  <2>1. PICK p \in {"running", "failing", "waiting"} : Register(q, e, n, p)
    BY <1>4 DEF ReceivePipelinedCall, DispatchPhases
  <2>2. n \in 0 .. MaxFrameBytes
    BY LimitAssumption
  <2>. QED
    BY <1>2, <2>1, <2>2 DEF Phases
<1>5. ASSUME NEW q \in Questions, NEW e \in Entries,
             ReceiveBootstrap(q, e) \/ ObserveBootstrapResponse(q, e)
      PROVE  RetainedBytesExact' /\ SizeInv'
  <2>1. 0 \in 0 .. MaxFrameBytes
    BY LimitAssumption
  <2>. QED
    BY <1>2, <1>5, <2>1 DEF ReceiveBootstrap, ObserveBootstrapResponse, Phases
<1>6. ASSUME NEW e \in Entries, NEW i, WakePipelinedCall(e, i)
      PROVE  RetainedBytesExact' /\ SizeInv'
  <2>1. Unsettled' = Unsettled
    BY <1>6 DEF WakePipelinedCall, DispatchPhases, Unsettled, TypeOK
  <2>2. SizeInv'
    BY <1>6 DEF WakePipelinedCall, DispatchPhases, SizeInv, TypeOK
  <2>. QED
    BY <1>6, <2>1, <2>2, BytesKept DEF WakePipelinedCall
<1>7. ASSUME NEW e \in Entries, NEW table, NEW nf, NEW relayed,
             CallSettles(e, table, nf, relayed)
      PROVE  RetainedBytesExact' /\ SizeInv'
  <2>1. e \in Unsettled
    BY <1>7 DEF CallSettles, Unsettled
  <2>2. SizeInv'
    BY <1>7 DEF CallSettles, SizeInv, TypeOK
  <2>. QED
    BY <1>7, <2>1, <2>2, BytesSettle DEF CallSettles
<1>8. ASSUME NEW e \in Entries, BootstrapSettles(e) \/ BootstrapFails(e)
      PROVE  RetainedBytesExact' /\ SizeInv'
  <2>1. e \in Unsettled /\ size[e] = 0
    BY <1>8 DEF BootstrapSettles, BootstrapFails, Unsettled, SizeInv
  <2>2. retained' = retained /\ retained \in Int
    BY <1>8 DEF BootstrapSettles, BootstrapFails, TypeOK
  <2>3. retained' = retained - size[e]
    BY <2>1, <2>2
  <2>4. SizeInv'
    BY <1>8 DEF BootstrapSettles, BootstrapFails, SizeInv, TypeOK
  <2>. QED
    BY <1>8, <2>1, <2>3, <2>4, BytesSettle DEF BootstrapSettles, BootstrapFails
<1>9. ASSUME \/ UNCHANGED vars
             \/ \E q \in Questions : \E n : RejectCall(q, n)
             \/ \E q \in Questions, rel \in BOOLEAN :
                    FinishFrame(q, rel) \/ AnswerFinishedEvent(q, rel)
             \/ ForwardFinish
             \/ \E e \in Entries : EvictionTimer(e)
             \/ \E c \in Caps : \/ \E n \in 0 .. 1 : ExportCapability(c, n)
                                \/ RetainCapability(c)
                                \/ HandOver(c)
                                \/ \E n \in 1 .. MaxReferenceCount : ReleaseFrame(c, n)
                                \/ ReleaseOwn(c)
             \/ Close \/ \E q \in Questions : RejectBootstrapResponse(q)
      PROVE  UNCHANGED entries /\ UNCHANGED retained
  BY <1>9 DEF vars, RejectCall, FinishFrame, AnswerFinishedEvent, ForwardFinish,
              EvictionTimer, ExportCapability, RetainCapability, HandOver,
              ReleaseFrame, ReleaseOwn, Close, RejectBootstrapResponse, CloseBridge
<1>. QED
  BY <1>1, <1>3, <1>4, <1>5, <1>6, <1>7, <1>8, <1>9 DEF Next

\* The bytes charged to the input budget are those of the calls that have not
\* settled, and never more than the budget, after Finish and shutdown too.
THEOREM InputBytesExact == Spec => []RetainedBytesExact
<1>1. Init => SizeInv /\ RetainedBytesExact
  <2>1. Init => ChargedBytes = {} /\ retained = 0 /\ SizeInv
    BY DEF Init, ChargedBytes, Unsettled, SizeInv
  <2>. QED
    BY <2>1, FS_EmptySet, LimitAssumption DEF RetainedBytesExact
<1>2. SizeInv /\ RetainedBytesExact /\ TypeOK /\ [Next]_vars
          => (SizeInv /\ RetainedBytesExact)'
  BY BytesStep
<1>. QED
  BY <1>1, <1>2, TypeCorrect, PTL DEF Spec

(***************************************************************************)
(* Evictions.                                                              *)
(***************************************************************************)
\* Only settled answers have a timer.
TimerInv == \A e \in timer : phase[e] = "done"

LEMMA TimerStep ==
    ASSUME TypeOK, TimerInv, [Next]_vars
    PROVE  TimerInv'
<1>1. ASSUME timer' \subseteq timer, \A e \in Entries : phase[e] = "done" => phase'[e] = "done"
      PROVE  TimerInv'
  BY <1>1 DEF TimerInv, TypeOK
<1>2. ASSUME NEW e \in Entries, phase' = [phase EXCEPT ![e] = "done"],
             timer' \subseteq timer \cup {e}
      PROVE  TimerInv'
  BY <1>2 DEF TimerInv, TypeOK
<1>3. ASSUME NEW q \in Questions, NEW e \in Entries,
             \/ \E c, n : ReceiveCall(q, e, c, n)
             \/ \E target, i, n : ReceivePipelinedCall(q, e, target, i, n)
             \/ ReceiveBootstrap(q, e)
      PROVE  TimerInv'
  <2>1. UNCHANGED timer
    BY <1>3 DEF ReceiveCall, ReceivePipelinedCall, ReceiveBootstrap, eviction
  <2>2. phase[e] = "unused" /\ \E p : phase' = [phase EXCEPT ![e] = p]
    BY <1>3 DEF ReceiveCall, ReceivePipelinedCall, ReceiveBootstrap, Register
  <2>3. \A x \in Entries : phase[x] = "done" => phase'[x] = "done"
    BY <2>2 DEF TypeOK
  <2>. QED
    BY <1>1, <2>1, <2>3
<1>4. ASSUME NEW q \in Questions, NEW e \in Entries, ObserveBootstrapResponse(q, e)
      PROVE  TimerInv'
  BY <1>2, <1>4 DEF ObserveBootstrapResponse, Register, ScheduleEviction
<1>5. ASSUME NEW e \in Entries, NEW i, WakePipelinedCall(e, i)
      PROVE  TimerInv'
  <2>1. UNCHANGED timer /\ \A x \in Entries : phase[x] = "done" => phase'[x] = "done"
    BY <1>5 DEF WakePipelinedCall, eviction, TypeOK
  <2>. QED
    BY <1>1, <2>1
<1>6. ASSUME NEW e \in Entries,
             \/ \E table, nf, relayed : CallSettles(e, table, nf, relayed)
             \/ BootstrapSettles(e) \/ BootstrapFails(e)
      PROVE  TimerInv'
  BY <1>2, <1>6 DEF CallSettles, ReturnAnswer, DiscardAnswer, BootstrapSettles,
                    BootstrapFails, ScheduleEviction, eviction
<1>7. ASSUME \/ UNCHANGED vars
             \/ \E q \in Questions : \E n : RejectCall(q, n)
             \/ \E q \in Questions, rel \in BOOLEAN :
                    FinishFrame(q, rel) \/ AnswerFinishedEvent(q, rel)
             \/ ForwardFinish
             \/ \E e \in Entries : EvictionTimer(e)
             \/ \E c \in Caps : \/ \E n \in 0 .. 1 : ExportCapability(c, n)
                                \/ RetainCapability(c)
                                \/ HandOver(c)
                                \/ \E n \in 1 .. MaxReferenceCount : ReleaseFrame(c, n)
                                \/ ReleaseOwn(c)
             \/ Close \/ \E q \in Questions : RejectBootstrapResponse(q)
      PROVE  timer' \subseteq timer /\ UNCHANGED phase
  BY <1>7 DEF vars, RejectCall, FinishFrame, AnswerFinishedEvent, ForwardFinish,
              BridgeFinish, EvictionTimer, ExportCapability, RetainCapability,
              HandOver, ReleaseFrame, ReleaseOwn, Close, RejectBootstrapResponse,
              CloseBridge, entries, eviction
<1>. QED
  BY <1>1, <1>3, <1>4, <1>5, <1>6, <1>7 DEF Next

\* An entry leaves the table unsettled by a Finish or by shutdown.
LEMMA RemovalStep ==
    ASSUME AnswerInv, TimerInv, [Next]_vars, NEW e \in Entries,
           Live(e), phase'[e] # "done", ~Live(e)'
    PROVE  e \in finished'
<1>0. TypeOK /\ EntryShape
  BY DEF AnswerInv
<1>1. ASSUME UNCHANGED <<question, answerTable>> PROVE FALSE
  BY <1>1 DEF Live
<1>2. ASSUME NEW q \in Questions, NEW x \in Entries, NEW n, NEW p, Register(q, x, n, p)
      PROVE  FALSE
  <2>1. \A y \in Entries \ {x} : Live(y) => Live(y)'
    BY <1>0, <1>2, RegisterKeepsLive
  <2>2. Live(x)'
    BY <1>0, <1>2, RegisterKeepsLive
  <2>. QED
    BY <2>1, <2>2
<1>3. ASSUME NEW q \in Questions, NEW rel, BridgeFinish(q, rel), UNCHANGED question
      PROVE  e \in finished'
  <2>1. e = answerTable[q]
    BY <1>0, <1>3, RemovalKeepsLive DEF BridgeFinish
  <2>. QED
    BY <1>3, <2>1, NoneAssumption DEF BridgeFinish
<1>4. ASSUME NEW x \in Entries, EvictionTimer(x)
      PROVE  e \in finished'
  <2>1. UNCHANGED <<question, phase>> /\ x \in timer
    BY <1>4 DEF EvictionTimer, entries
  <2>2. phase[e] # "done" /\ phase[x] = "done"
    BY <2>1, <1>4 DEF TimerInv
  <2>3. CASE UNCHANGED answerTable
    BY <1>1, <2>1, <2>3
  <2>4. CASE Live(x) /\ answerTable' = [answerTable EXCEPT ![question[x]] = None]
    <3>1. question[x] \in Questions /\ answerTable[question[x]] = x
      BY <2>4 DEF Live
    <3>2. e = x
      BY <1>0, <2>1, <2>4, <3>1, RemovalKeepsLive
    <3>. QED
      BY <3>2, <2>2
  <2>. QED
    BY <1>4, <2>3, <2>4 DEF EvictionTimer
<1>5. ASSUME NEW x \in Entries, BootstrapFails(x)
      PROVE  e \in finished'
  <2>1. question[x] \in Questions /\ answerTable[question[x]] \in {x, None}
    BY <1>5 DEF BootstrapFails, AnswerInv, BootstrapInv, EntryShape
  <2>2. e = x
    BY <1>0, <1>5, <2>1, NoneAssumption, RemovalKeepsLive DEF BootstrapFails
  <2>. QED
    BY <1>0, <1>5, <2>2 DEF BootstrapFails, TypeOK
<1>6. CASE CloseBridge
  BY <1>6 DEF CloseBridge
<1>7. CASE \/ \E q \in Questions, x \in Entries :
                 \/ \E c, n : ReceiveCall(q, x, c, n)
                 \/ \E target, i, n : ReceivePipelinedCall(q, x, target, i, n)
                 \/ ReceiveBootstrap(q, x)
                 \/ ObserveBootstrapResponse(q, x)
  BY <1>2, <1>7 DEF ReceiveCall, ReceivePipelinedCall, ReceiveBootstrap,
                    ObserveBootstrapResponse
<1>8. CASE \E q \in Questions, rel \in BOOLEAN : FinishFrame(q, rel)
  BY <1>3, <1>8 DEF FinishFrame, entries
<1>9. CASE ForwardFinish
  <2>1. finishing[1] \in Questions
    BY <1>0, <1>9 DEF ForwardFinish, TypeOK
  <2>. QED
    BY <1>3, <1>9, <2>1 DEF ForwardFinish, entries
<1>10. CASE \/ UNCHANGED vars
            \/ \E q \in Questions : \E n : RejectCall(q, n)
            \/ \E q \in Questions, rel \in BOOLEAN : AnswerFinishedEvent(q, rel)
            \/ \E c \in Caps : \/ \E n \in 0 .. 1 : ExportCapability(c, n)
                               \/ RetainCapability(c)
                               \/ HandOver(c)
                               \/ \E n \in 1 .. MaxReferenceCount : ReleaseFrame(c, n)
                               \/ ReleaseOwn(c)
            \/ \E x \in Entries :
                  \/ \E i : WakePipelinedCall(x, i)
                  \/ \E table, nf, relayed : CallSettles(x, table, nf, relayed)
                  \/ BootstrapSettles(x)
  <2>1. UNCHANGED <<question, answerTable>>
    BY <1>10 DEF vars, RejectCall, AnswerFinishedEvent, ExportCapability,
                 RetainCapability, HandOver, ReleaseFrame, ReleaseOwn,
                 WakePipelinedCall, CallSettles, BootstrapSettles, entries
  <2>. QED
    BY <1>1, <2>1
<1>. QED
  BY <1>4, <1>5, <1>6, <1>7, <1>8, <1>9, <1>10
  DEF Next, Close, RejectBootstrapResponse

\* No eviction cancels a call: what leaves the table before it settles was
\* finished by the caller, or by shutdown.
THEOREM EvictionsCancelNothing == Spec => EvictionNeverCancels
<1>1. Init => AnswerInv /\ TimerInv
  BY AnswerInit DEF Init, TimerInv
<1>2. AnswerInv /\ TimerInv /\ [Next]_vars => (AnswerInv /\ TimerInv)'
  BY AnswerInvStep, TimerStep DEF AnswerInv
<1>3. AnswerInv /\ TimerInv /\ [Next]_vars
          => [\A e \in Entries : Live(e) /\ phase'[e] # "done" /\ ~Live(e)'
                                     => e \in finished']_vars
  BY RemovalStep
<1>. QED
  BY <1>1, <1>2, <1>3, PTL DEF Spec, EvictionNeverCancels

(***************************************************************************)
(* The account of references.                                              *)
(***************************************************************************)
\* The table and the callers' books name entries by their questions.
NamesInv ==
    /\ \A q \in Questions : answerTable[q] # None => question[answerTable[q]] = q
    /\ \A q \in Questions : owner[q] # None => question[owner[q]] = q

\* A Bootstrap is pending while its caller waits, unless the bridge closed.
BootInv ==
    ~closed => \A e \in Entries : phase[e] = "bootstrapping" =>
                   Live(e) /\ e \notin finished /\ caller[question[e]] = "open"

\* What is finished was asked; a Finish is on its way from a host only, and its
\* question is free; a closed bridge has no capabilities.
FinishInv ==
    /\ \A e \in finished : phase[e] # "unused"
    /\ finishing # None => WasmHost /\ caller[finishing[1]] = "free"
    /\ closed => registered = {}

\* The caller has references of an answer only once it was answered.
DoneInv == \A e \in Entries : phase[e] # "done" => granted[e] = {}

\* A question that was finished has no entry; the entry of one that is open is its
\* owner's, and nothing of it has been granted.
Asked(q) ==
    /\ caller[q] \in {"released", "kept"} => answerTable[q] = None
    /\ caller[q] = "open" /\ Pending(q) => owner[q] = answerTable[q]
    /\ caller[q] \in {"free", "open"} /\ Pending(q) => granted[answerTable[q]] = {}

\* An answer whose references both sides have is its question's.
SharedInv ==
    \A e \in Entries : held[e] \cap granted[e] # {} => owner[question[e]] = e

GrantInv == /\ DoneInv
            /\ ~closed => (\A q \in Questions : Asked(q)) /\ SharedInv

\* Counts are never negative; the root's first grant is there until it is claimed;
\* what is not registered has no references.
CountInv ==
    /\ \A c \in Caps : peerRefs[c] >= 0 /\ pregrant[c] >= 0
    /\ Root \in registered /\ Root \notin claimed => pregrant[Root] >= 1
    /\ ~closed => \A c \in Caps \ registered : refCount[c] = 0

\* The occurrences an answer holds and its caller was not granted.
Ungranted(c) ==
    {p \in Entries \X Slots : /\ p[2] \in held[p[1]] \ granted[p[1]]
                              /\ capTable[p[1]][p[2]] = c}

\* The references the registry counts beyond those the caller has, those granted
\* out of band, and those of answers that granted none.
Balance(c) == refCount[c] - peerRefs[c] - pregrant[c] - Cardinality(Ungranted(c))

\* Without a host and without evictions both sides have the same books.
Direct == ~WasmHost /\ ~EvictionEnabled
DirectInv ==
    Direct => /\ timer = {}
              /\ ~closed => granted = held
              /\ ~closed => \A q \in Questions : caller[q] = "free" => answerTable[q] = None

BalanceInv ==
    ~closed => \A c \in Caps : Balance(c) >= 0 /\ (Direct => Balance(c) = 0)

Protocol == ~EarlyBootstrapFinish /\ ~NoFinishReturns


(***************************************************************************)
(* The kinds of steps.                                                     *)
(***************************************************************************)
\* A question of the caller's is registered.
Asks(q, e) ==
    \/ \E c, n : ReceiveCall(q, e, c, n)
    \/ \E target \in Questions : \E i, n : ReceivePipelinedCall(q, e, target, i, n)
    \/ ReceiveBootstrap(q, e)

\* A handler settles.
Answers(e) ==
    \E table \in CapTables, nf \in BOOLEAN, relayed \in BOOLEAN :
        /\ CallSettles(e, table, nf, relayed)
        /\ nf => NoFinishReturns
        /\ ~relayed => WasmHost

\* The application or the caller exports, retains or drops references.
Counts(c) ==
    \/ \E n \in 0 .. 1 : ExportCapability(c, n)
    \/ RetainCapability(c)
    \/ HandOver(c)
    \/ \E n \in 1 .. MaxReferenceCount : ReleaseFrame(c, n)
    \/ ReleaseOwn(c)

LEMMA Kinds ==
    ASSUME [Next]_vars
    PROVE  \/ UNCHANGED vars
           \/ \E q \in Questions : \E n : RejectCall(q, n)
           \/ \E q \in Questions, e \in Entries : Asks(q, e)
           \/ \E q \in Questions, e \in Entries : ObserveBootstrapResponse(q, e)
           \/ \E q \in Questions, rel \in BOOLEAN : FinishFrame(q, rel)
           \/ \E q \in Questions, rel \in BOOLEAN : AnswerFinishedEvent(q, rel)
           \/ ForwardFinish
           \/ \E e \in Entries : \E i : WakePipelinedCall(e, i)
           \/ \E e \in Entries : Answers(e)
           \/ \E e \in Entries : BootstrapSettles(e)
           \/ \E e \in Entries : BootstrapFails(e)
           \/ \E e \in Entries : EvictionTimer(e)
           \/ \E c \in Caps : Counts(c)
           \/ CloseBridge /\ UNCHANGED peer
<1>1. ASSUME NEW e \in Entries, NEW table \in CapTables,
             NEW nf \in (IF NoFinishReturns THEN BOOLEAN ELSE {FALSE}),
             NEW relayed \in (IF RelayMayFail /\ WasmHost THEN BOOLEAN ELSE {TRUE}),
             CallSettles(e, table, nf, relayed)
      PROVE  Answers(e)
  BY <1>1, FlagAssumption DEF Answers
<1>2. ASSUME NEW q \in Questions, NEW e \in Entries,
             \/ \E c, n : ReceiveCall(q, e, c, n)
             \/ \E target \in Questions : \E i, n : ReceivePipelinedCall(q, e, target, i, n)
             \/ ReceiveBootstrap(q, e)
      PROVE  Asks(q, e)
  BY <1>2 DEF Asks
<1>3. ASSUME NEW c \in Caps,
             \/ \E n \in 0 .. 1 : ExportCapability(c, n)
             \/ RetainCapability(c)
             \/ HandOver(c)
             \/ \E n \in 1 .. MaxReferenceCount : ReleaseFrame(c, n)
             \/ ReleaseOwn(c)
      PROVE  Counts(c)
  BY <1>3 DEF Counts
<1>. QED
  BY <1>1, <1>2, <1>3 DEF Next, Close, RejectBootstrapResponse

\* The question's entry is registered as pending.
Registers(q, e) ==
    \E n : \E p \in Phases \ {"unused", "done"} :
        Register(q, e, n, p) /\ (p = "bootstrapping" => ~WasmHost)

\* What registering a question does.
LEMMA AsksEffect ==
    ASSUME NEW q \in Questions, NEW e \in Entries, Asks(q, e)
    PROVE  /\ Ask(q, e)
           /\ Registers(q, e)
           /\ UNCHANGED <<closed, registry, capTable, held, finished, eviction, finishing>>
BY DEF Asks, Registers, ReceiveCall, ReceivePipelinedCall, ReceiveBootstrap,
       DispatchPhases, Phases

\* Asked entries stay asked, settled ones settled.
LEMMA PhasesGrow ==
    ASSUME TypeOK, [Next]_vars, NEW x \in Entries
    PROVE  /\ phase[x] # "unused" => phase'[x] # "unused"
           /\ phase[x] = "done" => phase'[x] = "done"
<1>1. CASE UNCHANGED phase
  BY <1>1
<1>2. ASSUME NEW e \in Entries,
             \/ \E q, c, n : ReceiveCall(q, e, c, n)
             \/ \E q, target, i, n : ReceivePipelinedCall(q, e, target, i, n)
             \/ \E q : ReceiveBootstrap(q, e) \/ ObserveBootstrapResponse(q, e)
      PROVE  phase[e] = "unused" /\ \E p \in Phases \ {"unused"} : phase' = [phase EXCEPT ![e] = p]
  BY <1>2 DEF ReceiveCall, ReceivePipelinedCall, ReceiveBootstrap,
              ObserveBootstrapResponse, Register, DispatchPhases, Phases
<1>3. ASSUME NEW e \in Entries,
             \/ \E i : WakePipelinedCall(e, i)
             \/ \E table, nf, relayed : CallSettles(e, table, nf, relayed)
             \/ BootstrapSettles(e) \/ BootstrapFails(e)
      PROVE  phase[e] # "done" /\ \E p \in Phases \ {"unused"} : phase' = [phase EXCEPT ![e] = p]
  BY <1>3 DEF WakePipelinedCall, CallSettles, BootstrapSettles, BootstrapFails,
              DispatchPhases, Phases
<1>4. ASSUME NEW e \in Entries, phase[e] # "done",
             \E p \in Phases \ {"unused"} : phase' = [phase EXCEPT ![e] = p]
      PROVE  /\ phase[x] # "unused" => phase'[x] # "unused"
             /\ phase[x] = "done" => phase'[x] = "done"
  BY <1>4 DEF TypeOK
<1>5. ASSUME \/ UNCHANGED vars
             \/ \E q \in Questions : \E n : RejectCall(q, n)
             \/ \E q \in Questions, rel \in BOOLEAN :
                    FinishFrame(q, rel) \/ AnswerFinishedEvent(q, rel)
             \/ ForwardFinish
             \/ \E e \in Entries : EvictionTimer(e)
             \/ \E c \in Caps : \/ \E n \in 0 .. 1 : ExportCapability(c, n)
                                \/ RetainCapability(c)
                                \/ HandOver(c)
                                \/ \E n \in 1 .. MaxReferenceCount : ReleaseFrame(c, n)
                                \/ ReleaseOwn(c)
             \/ Close \/ \E q \in Questions : RejectBootstrapResponse(q)
      PROVE  UNCHANGED phase
  BY <1>5 DEF vars, RejectCall, FinishFrame, AnswerFinishedEvent, ForwardFinish,
              EvictionTimer, ExportCapability, RetainCapability, HandOver,
              ReleaseFrame, ReleaseOwn, Close, RejectBootstrapResponse,
              CloseBridge, entries
<1>. QED
  BY <1>1, <1>2, <1>3, <1>4, <1>5 DEF Next

\* An entry in the table was asked.
LEMMA TableAsked ==
    ASSUME TypeOK, EntryShape, NamesInv, NEW q \in Questions, answerTable[q] # None
    PROVE  /\ answerTable[q] \in Entries /\ Live(answerTable[q])
           /\ phase[answerTable[q]] # "unused"
BY NoneAssumption DEF TypeOK, EntryShape, NamesInv, Live

LEMMA NamesStep ==
    ASSUME TypeOK, EntryShape, NamesInv, [Next]_vars
    PROVE  NamesInv'
<1>1. ASSUME NEW q \in Questions, NEW e \in Entries, NEW n, NEW p, Register(q, e, n, p),
             owner' = [owner EXCEPT ![q] = e]
      PROVE  NamesInv'
  <2>1. question[e] = None /\ question' = [question EXCEPT ![e] = q]
        /\ answerTable' = [answerTable EXCEPT ![q] = e]
    BY <1>1 DEF Register, EntryShape
  <2>2. \A r \in Questions : answerTable[r] # e /\ owner[r] # e
    BY <2>1, NoneAssumption DEF NamesInv, TypeOK
  <2>. QED
    BY <1>1, <2>1, <2>2 DEF NamesInv, TypeOK
<1>2. ASSUME UNCHANGED question,
             \A r \in Questions : answerTable'[r] \in {answerTable[r], None},
             \A r \in Questions : \/ owner'[r] \in {owner[r], None}
                                  \/ owner'[r] \in Entries /\ question[owner'[r]] = r
      PROVE  NamesInv'
  BY <1>2 DEF NamesInv, TypeOK
<1>3. ASSUME NEW q \in Questions, NEW e \in Entries,
             \/ \E c, n : ReceiveCall(q, e, c, n)
             \/ \E target, i, n : ReceivePipelinedCall(q, e, target, i, n)
             \/ ReceiveBootstrap(q, e) \/ ObserveBootstrapResponse(q, e)
      PROVE  NamesInv'
  BY <1>1, <1>3 DEF ReceiveCall, ReceivePipelinedCall, ReceiveBootstrap,
                    ObserveBootstrapResponse, Ask, DeliverBootstrap
<1>4. ASSUME NEW e \in Entries,
             \/ \E table, nf, relayed : CallSettles(e, table, nf, relayed)
             \/ \E i : WakePipelinedCall(e, i)
      PROVE  NamesInv'
  <2>1. UNCHANGED <<question, answerTable, owner>>
    BY <1>4 DEF CallSettles, ReturnAnswer, DiscardAnswer, Deliver, WakePipelinedCall, peer
  <2>. QED
    BY <1>2, <2>1
<1>5. ASSUME NEW e \in Entries, BootstrapSettles(e)
      PROVE  NamesInv'
  <2>1. question[e] \in Questions /\ UNCHANGED <<question, answerTable>>
        /\ owner' = [owner EXCEPT ![question[e]] = e]
    BY <1>5 DEF BootstrapSettles, DeliverBootstrap, EntryShape
  <2>. QED
    BY <1>2, <2>1 DEF TypeOK
<1>6. ASSUME NEW e \in Entries, BootstrapFails(e)
      PROVE  NamesInv'
  <2>1. UNCHANGED <<question, owner>>
        /\ answerTable' = [answerTable EXCEPT ![question[e]] = None]
    BY <1>6 DEF BootstrapFails, peer
  <2>. QED
    BY <1>2, <2>1 DEF TypeOK
<1>7. ASSUME NEW q \in Questions, NEW n, RejectCall(q, n)
      PROVE  NamesInv'
  <2>1. UNCHANGED <<question, answerTable>> /\ owner' = [owner EXCEPT ![q] = None]
    BY <1>7 DEF RejectCall, entries
  <2>. QED
    BY <1>2, <2>1 DEF TypeOK
<1>8. ASSUME NEW q \in Questions, NEW rel, BridgeFinish(q, rel), UNCHANGED <<question, owner>>
      PROVE  NamesInv'
  BY <1>2, <1>8 DEF BridgeFinish, TypeOK
<1>9. ASSUME NEW q \in Questions, NEW rel \in BOOLEAN, FinishFrame(q, rel)
      PROVE  NamesInv'
  BY <1>8, <1>9 DEF FinishFrame, SendFinish, entries
<1>10. CASE ForwardFinish
  <2>1. finishing[1] \in Questions
    BY <1>10 DEF ForwardFinish, TypeOK
  <2>. QED
    BY <1>8, <1>10, <2>1 DEF ForwardFinish, entries, peer
<1>11. ASSUME NEW e \in Entries, EvictionTimer(e)
      PROVE  NamesInv'
  <2>1. UNCHANGED <<question, owner>>
        /\ answerTable' \in {answerTable, [answerTable EXCEPT ![question[e]] = None]}
    BY <1>11 DEF EvictionTimer, entries, peer
  <2>. QED
    BY <1>2, <2>1 DEF TypeOK
<1>12. CASE CloseBridge /\ UNCHANGED peer
  BY <1>2, <1>12 DEF CloseBridge, entries, peer
<1>13. CASE \/ UNCHANGED vars
            \/ \E q \in Questions, rel \in BOOLEAN : AnswerFinishedEvent(q, rel)
            \/ \E c \in Caps : \/ \E n \in 0 .. 1 : ExportCapability(c, n)
                               \/ RetainCapability(c)
                               \/ HandOver(c)
                               \/ \E n \in 1 .. MaxReferenceCount : ReleaseFrame(c, n)
                               \/ ReleaseOwn(c)
  <2>1. UNCHANGED <<question, answerTable, owner>>
    BY <1>13 DEF vars, AnswerFinishedEvent, ExportCapability, RetainCapability,
                 HandOver, ReleaseFrame, ReleaseOwn, entries, peer
  <2>. QED
    BY <1>2, <2>1
<1>. QED
  BY <1>3, <1>4, <1>5, <1>6, <1>7, <1>9, <1>10, <1>11, <1>12, <1>13
  DEF Next, Close, RejectBootstrapResponse


\* What a step marks finished is in the table.
LEMMA FinishedAsked ==
    ASSUME TypeOK, [Next]_vars, NEW e \in finished', e \notin finished
    PROVE  (e \in Entries /\ Live(e)) \/ \E q \in Questions : Pending(q) /\ e = answerTable[q]
<1>1. ASSUME NEW q, NEW rel, BridgeFinish(q, rel)
      PROVE  Pending(q) /\ e = answerTable[q]
  BY <1>1 DEF BridgeFinish, Pending
<1>2. CASE ForwardFinish
  <2>1. finishing[1] \in Questions
    BY <1>2 DEF ForwardFinish, TypeOK
  <2>. QED
    BY <1>1, <1>2, <2>1 DEF ForwardFinish
<1>3. CASE \E q \in Questions, rel \in BOOLEAN : FinishFrame(q, rel)
  BY <1>1, <1>3 DEF FinishFrame
<1>4. CASE \E q \in Questions, rel \in BOOLEAN : AnswerFinishedEvent(q, rel)
  BY <1>4 DEF AnswerFinishedEvent, ReportsFinish
<1>5. CASE CloseBridge
  BY <1>5 DEF CloseBridge
<1>6. CASE \E q \in Questions, x \in Entries : Asks(q, x)
  BY <1>6, AsksEffect
<1>7. CASE \/ UNCHANGED vars
           \/ \E q \in Questions : \E n : RejectCall(q, n)
           \/ \E q \in Questions, x \in Entries : ObserveBootstrapResponse(q, x)
           \/ \E x \in Entries : \/ Answers(x) \/ BootstrapSettles(x)
                                 \/ BootstrapFails(x) \/ EvictionTimer(x)
                                 \/ \E i : WakePipelinedCall(x, i)
           \/ \E c \in Caps : Counts(c)
  <2>1. UNCHANGED finished
    BY <1>7 DEF vars, RejectCall, ObserveBootstrapResponse, Answers, CallSettles,
                BootstrapSettles, BootstrapFails, EvictionTimer, WakePipelinedCall,
                Counts, ExportCapability, RetainCapability, HandOver, ReleaseFrame, ReleaseOwn
  <2>. QED
    BY <2>1
<1>. QED
  BY <1>2, <1>3, <1>4, <1>5, <1>6, <1>7, Kinds

\* While a Finish is on its way nothing else comes in, and its question stays free.
LEMMA ForwardingStep ==
    ASSUME AnswerInv, FinishInv, [Next]_vars, finishing' # None
    PROVE  WasmHost /\ caller'[finishing'[1]] = "free"
<1>1. CASE \E q \in Questions, rel \in BOOLEAN : AnswerFinishedEvent(q, rel)
  BY <1>1 DEF AnswerFinishedEvent, ReportsFinish, AnswerInv, TypeOK
<1>2. ASSUME finishing' = finishing, UNCHANGED caller
      PROVE  WasmHost /\ caller'[finishing'[1]] = "free"
  BY <1>2 DEF FinishInv
<1>3. ASSUME NEW e \in Entries, Answers(e)
      PROVE  WasmHost /\ caller'[finishing'[1]] = "free"
  <2>1. finishing' = finishing /\ (UNCHANGED peer \/ \E t, s, b : Deliver(e, t, s, b))
    BY <1>3 DEF Answers, CallSettles, ReturnAnswer, DiscardAnswer
  <2>2. WasmHost /\ caller[finishing[1]] = "free" /\ finishing[1] \in Questions
    BY <2>1 DEF FinishInv, AnswerInv, TypeOK
  <2>. QED
    BY <2>1, <2>2 DEF Deliver, peer, AnswerInv, TypeOK
<1>4. ASSUME NEW e \in Entries, BootstrapSettles(e)
      PROVE  FALSE
  BY <1>4 DEF BootstrapSettles, AnswerInv, BootstrapInv, FinishInv
<1>5. CASE \/ \E q \in Questions : \E n : RejectCall(q, n)
           \/ \E q \in Questions, e \in Entries : Asks(q, e) \/ ObserveBootstrapResponse(q, e)
           \/ \E q \in Questions, rel \in BOOLEAN : FinishFrame(q, rel)
           \/ ForwardFinish
  <2>1. ASSUME NEW q, NEW e, Asks(q, e)
        PROVE  finishing' = None
    BY <2>1 DEF Asks, ReceiveCall, ReceivePipelinedCall, ReceiveBootstrap, Inbound
  <2>. QED
    BY <1>5, <2>1 DEF RejectCall, ObserveBootstrapResponse, FinishFrame, ForwardFinish, Inbound
<1>6. CASE \/ UNCHANGED vars
           \/ \E e \in Entries : \/ BootstrapFails(e) \/ EvictionTimer(e)
                                 \/ \E i : WakePipelinedCall(e, i)
           \/ \E c \in Caps : Counts(c)
           \/ CloseBridge /\ UNCHANGED peer
  <2>1. UNCHANGED <<finishing, caller>>
    BY <1>6 DEF vars, peer, BootstrapFails, EvictionTimer, WakePipelinedCall, CloseBridge,
                Counts, ExportCapability, RetainCapability, HandOver, ReleaseFrame, ReleaseOwn
  <2>. QED
    BY <1>2, <2>1
<1>. QED
  BY <1>1, <1>3, <1>4, <1>5, <1>6, Kinds

\* A closed bridge registers nothing, and no bridge opens again.
LEMMA ClosedStep ==
    ASSUME FinishInv, [Next]_vars
    PROVE  /\ closed => closed'
           /\ closed' => registered' = {}
<1>1. CASE CloseBridge
  BY <1>1 DEF CloseBridge
<1>2. ASSUME closed' = closed, registered' \subseteq registered \/ ~closed
      PROVE  (closed => closed') /\ (closed' => registered' = {})
  BY <1>2 DEF FinishInv
<1>3. ASSUME NEW q, NEW rel, BridgeFinish(q, rel)
      PROVE  registered' \subseteq registered
  BY <1>3 DEF BridgeFinish, ReleaseAnswerHeldCapabilities, registry
<1>4. ASSUME \/ \E q, rel : FinishFrame(q, rel)
             \/ ForwardFinish
      PROVE  registered' \subseteq registered /\ closed' = closed
  BY <1>3, <1>4 DEF FinishFrame, ForwardFinish
<1>5. ASSUME NEW e, EvictionTimer(e)
      PROVE  registered' \subseteq registered /\ closed' = closed
  BY <1>5 DEF EvictionTimer, ReleaseAnswerHeldCapabilities, registry
<1>6. ASSUME NEW c, Counts(c)
      PROVE  closed' = closed /\ (registered' \subseteq registered \/ ~closed)
  BY <1>6 DEF Counts, ExportCapability, RetainCapability, HandOver, ReleaseOwn,
              ReleaseFrame, DropReferences, registry
<1>7. CASE \E q \in Questions, e \in Entries : Asks(q, e)
  BY <1>2, <1>7, AsksEffect DEF registry
<1>8. CASE \/ UNCHANGED vars
           \/ \E q \in Questions : \E n : RejectCall(q, n)
           \/ \E q \in Questions, e \in Entries : ObserveBootstrapResponse(q, e)
           \/ \E q \in Questions, rel \in BOOLEAN : AnswerFinishedEvent(q, rel)
           \/ \E e \in Entries : \/ Answers(e) \/ BootstrapSettles(e) \/ BootstrapFails(e)
                                 \/ \E i : WakePipelinedCall(e, i)
  <2>1. UNCHANGED <<closed, registered>>
    BY <1>8 DEF vars, RejectCall, ObserveBootstrapResponse, AnswerFinishedEvent, Answers,
                CallSettles, BootstrapSettles, BootstrapFails, WakePipelinedCall, registry
  <2>. QED
    BY <1>2, <2>1
<1>. QED
  BY <1>1, <1>2, <1>4, <1>5, <1>6, <1>7, <1>8, Kinds

LEMMA FinishStep ==
    ASSUME AnswerInv, NamesInv, FinishInv, [Next]_vars
    PROVE  FinishInv'
<1>0. TypeOK /\ EntryShape
  BY DEF AnswerInv
<1>1. ASSUME NEW e \in finished'
      PROVE  phase'[e] # "unused"
  <2>1. CASE e \in finished
    <3>1. e \in Entries /\ phase[e] # "unused"
      BY <1>0, <2>1 DEF FinishInv, TypeOK
    <3>. QED
      BY <1>0, <3>1, PhasesGrow
  <2>2. CASE e \notin finished
    <3>1. e \in Entries /\ phase[e] # "unused"
      <4>1. ASSUME e \in Entries, Live(e)
            PROVE  phase[e] # "unused"
        BY <1>0, <4>1, NoneAssumption DEF Live, EntryShape
      <4>. QED
        BY <1>0, <2>2, <4>1, FinishedAsked, TableAsked DEF Pending
    <3>. QED
      BY <1>0, <3>1, PhasesGrow
  <2>. QED
    BY <2>1, <2>2
<1>. QED
  BY <1>1, ForwardingStep, ClosedStep DEF FinishInv

(***************************************************************************)
(* Pending Bootstraps.                                                     *)
(***************************************************************************)
\* Two dispatches that have not settled have different questions.
LEMMA UnsettledApart ==
    ASSUME AnswerInv, ~WasmHost, NEW x \in Unsettled, NEW y \in Unsettled, x # y
    PROVE  question[x] # question[y]
BY DEF AnswerInv, OwnerInv

\* A caller that does not finish a Bootstrap it waits for finds it in the table.
LEMMA BootStep ==
    ASSUME AnswerInv, NamesInv, FinishInv, BootInv, TimerInv, ~EarlyBootstrapFinish,
           [Next]_vars
    PROVE  BootInv'
<1>0. TypeOK /\ EntryShape
  BY DEF AnswerInv
<1>1. SUFFICES ASSUME ~closed, ~closed', NEW x \in Entries, phase'[x] = "bootstrapping"
               PROVE  Live(x)' /\ x \notin finished' /\ caller'[question'[x]] = "open"
  BY ClosedStep DEF BootInv
<1>2. ASSUME phase[x] = "bootstrapping"
      PROVE  /\ ~WasmHost /\ x \in Unsettled /\ question[x] \in Questions
             /\ answerTable[question[x]] = x /\ x \notin finished
             /\ caller[question[x]] = "open"
  BY <1>0, <1>1, <1>2 DEF AnswerInv, BootstrapInv, BootInv, EntryShape, Unsettled, Live
<1>3. ASSUME phase[x] = "bootstrapping", question'[x] = question[x],
             answerTable'[question[x]] = answerTable[question[x]],
             caller'[question[x]] = caller[question[x]],
             x \in finished' => x \in finished
      PROVE  Live(x)' /\ x \notin finished' /\ caller'[question'[x]] = "open"
  BY <1>2, <1>3 DEF Live
<1>4. ASSUME UNCHANGED <<phase, question, answerTable, finished>>,
             \/ UNCHANGED caller
             \/ \E q \in Questions : /\ \A r \in Questions \ {q} : caller'[r] = caller[r]
                                     /\ caller[q] = "free"
      PROVE  Live(x)' /\ x \notin finished' /\ caller'[question'[x]] = "open"
  BY <1>1, <1>2, <1>3, <1>4
<1>5. ASSUME NEW q \in Questions, NEW n, RejectCall(q, n)
      PROVE  Live(x)' /\ x \notin finished' /\ caller'[question'[x]] = "open"
  BY <1>0, <1>4, <1>5 DEF RejectCall, entries, TypeOK
<1>6. ASSUME NEW q \in Questions, NEW e \in Entries, Asks(q, e)
      PROVE  Live(x)' /\ x \notin finished' /\ caller'[question'[x]] = "open"
  <2>1. PICK n, p : Register(q, e, n, p)
    BY <1>6, AsksEffect DEF Registers
  <2>2. Ask(q, e) /\ UNCHANGED finished
    BY <1>6, AsksEffect
  <2>3. CASE x = e
    BY <1>0, <2>1, <2>2, <2>3 DEF Register, Ask, FinishInv, Live, TypeOK
  <2>4. CASE x # e
    <3>1. phase[x] = "bootstrapping" /\ question'[x] = question[x]
      BY <1>0, <1>1, <2>1, <2>4 DEF Register, TypeOK
    <3>2. question[x] # q /\ question[x] \in Questions
      BY <1>2, <2>2, <3>1 DEF Ask
    <3>. QED
      BY <1>0, <1>3, <2>1, <2>2, <3>1, <3>2 DEF Register, Ask, TypeOK
  <2>. QED
    BY <2>3, <2>4
<1>7. ASSUME NEW q \in Questions, NEW rel \in BOOLEAN, FinishFrame(q, rel)
      PROVE  Live(x)' /\ x \notin finished' /\ caller'[question'[x]] = "open"
  <2>1. phase[x] = "bootstrapping" /\ question'[x] = question[x]
        /\ SendFinish(q, rel) /\ BridgeFinish(q, rel)
    BY <1>1, <1>7 DEF FinishFrame, entries
  <2>2. answerTable[q] # x
    BY <1>7, <2>1, NoneAssumption DEF FinishFrame, Pending
  <2>3. question[x] # q
    BY <1>2, <2>1, <2>2
  <2>4. /\ answerTable'[question[x]] = answerTable[question[x]]
        /\ caller'[question[x]] = caller[question[x]]
    BY <1>0, <1>2, <2>1, <2>3 DEF BridgeFinish, SendFinish, TypeOK
  <2>5. x \in finished' => x \in finished
    BY <2>1, <2>2 DEF BridgeFinish
  <2>. QED
    BY <1>3, <2>1, <2>4, <2>5
<1>8. ASSUME NEW e \in Entries, Answers(e) \/ BootstrapSettles(e) \/ BootstrapFails(e)
      PROVE  Live(x)' /\ x \notin finished' /\ caller'[question'[x]] = "open"
  <2>1. /\ e \in Unsettled /\ phase' = [phase EXCEPT ![e] = "done"]
        /\ UNCHANGED <<question, finished>>
    BY <1>8 DEF Answers, CallSettles, BootstrapSettles, BootstrapFails, Unsettled
  <2>2. x # e /\ phase[x] = "bootstrapping"
    BY <1>0, <1>1, <2>1 DEF TypeOK
  <2>3. question[x] # question[e]
    BY <1>2, <2>1, <2>2, UnsettledApart
  <2>4. \A q \in Questions \ {question[e]} :
            answerTable'[q] = answerTable[q] /\ caller'[q] = caller[q]
    <3>1. CASE Answers(e)
      <4>1. /\ UNCHANGED answerTable
            /\ UNCHANGED peer \/ \E t, s, b : Deliver(e, t, s, b)
        BY <3>1 DEF Answers, CallSettles, ReturnAnswer, DiscardAnswer
      <4>. QED
        BY <1>0, <4>1 DEF Deliver, peer, TypeOK
    <3>2. CASE BootstrapSettles(e) \/ BootstrapFails(e)
      BY <1>0, <3>2 DEF BootstrapSettles, BootstrapFails, DeliverBootstrap, peer, TypeOK
    <3>. QED
      BY <1>8, <3>1, <3>2
  <2>. QED
    BY <1>2, <1>3, <2>1, <2>2, <2>3, <2>4
<1>9. ASSUME NEW e \in Entries, EvictionTimer(e)
      PROVE  Live(x)' /\ x \notin finished' /\ caller'[question'[x]] = "open"
  <2>1. phase[e] = "done" /\ phase[x] = "bootstrapping"
        /\ UNCHANGED <<question, finished, caller>>
    BY <1>1, <1>9 DEF EvictionTimer, TimerInv, entries, peer
  <2>2. answerTable'[question[x]] = answerTable[question[x]]
    <3>1. \/ UNCHANGED answerTable
          \/ Live(e) /\ answerTable' = [answerTable EXCEPT ![question[e]] = None]
      BY <1>9 DEF EvictionTimer
    <3>2. Live(e) => question[x] # question[e]
      BY <1>2, <2>1 DEF Live
    <3>. QED
      BY <1>0, <1>2, <2>1, <3>1, <3>2 DEF TypeOK
  <2>. QED
    BY <1>3, <2>1, <2>2
<1>10. ASSUME NEW e \in Entries, NEW i, WakePipelinedCall(e, i)
       PROVE  Live(x)' /\ x \notin finished' /\ caller'[question'[x]] = "open"
  <2>1. phase[x] = "bootstrapping"
    BY <1>0, <1>1, <1>10 DEF WakePipelinedCall, DispatchPhases, TypeOK
  <2>. QED
    BY <1>3, <1>10, <2>1 DEF WakePipelinedCall, peer
<1>11. ASSUME NEW q \in Questions, NEW e \in Entries, ObserveBootstrapResponse(q, e)
       PROVE  FALSE
  <2>1. WasmHost /\ phase[x] = "bootstrapping"
    BY <1>0, <1>1, <1>11 DEF ObserveBootstrapResponse, Register, TypeOK
  <2>. QED
    BY <1>2, <2>1
<1>12. CASE ForwardFinish \/ \E q \in Questions, rel \in BOOLEAN : AnswerFinishedEvent(q, rel)
  <2>1. WasmHost /\ phase[x] = "bootstrapping"
    BY <1>1, <1>12 DEF ForwardFinish, AnswerFinishedEvent, ReportsFinish, FinishInv, entries
  <2>. QED
    BY <1>2, <2>1
<1>13. CASE UNCHANGED vars \/ \E c \in Caps : Counts(c)
  <2>1. UNCHANGED <<phase, question, answerTable, finished, caller>>
    BY <1>13 DEF vars, entries, peer, Counts, ExportCapability, RetainCapability,
                 HandOver, ReleaseFrame, ReleaseOwn
  <2>. QED
    BY <1>4, <2>1
<1>14. ~CloseBridge
  BY <1>1 DEF CloseBridge
<1>. QED
  BY <1>5, <1>6, <1>7, <1>8, <1>9, <1>10, <1>11, <1>12, <1>13, <1>14, Kinds

(***************************************************************************)
(* Grants after a Finish.                                                  *)
(***************************************************************************)
\* A step grants no reference of an answer that was finished before.
LEMMA GrantsStep ==
    ASSUME AnswerInv, FinishInv, BootInv, [Next]_vars, NEW x \in finished
    PROVE  granted'[x] \subseteq granted[x]
<1>0. TypeOK /\ EntryShape /\ x \in Entries
  BY DEF AnswerInv, TypeOK
<1>1. CASE UNCHANGED granted
  BY <1>1
<1>2. ASSUME NEW e \in Entries, Answers(e)
      PROVE  granted'[x] \subseteq granted[x]
  <2>1. PICK table, nf, relayed : ReturnAnswer(e, table, nf, relayed) \/ DiscardAnswer(e)
    BY <1>2 DEF Answers, CallSettles
  <2>2. CASE ReturnAnswer(e, table, nf, relayed)
    <3>1. x # e /\ \E t, s, b : Deliver(e, t, s, b)
      BY <2>2 DEF ReturnAnswer
    <3>. QED
      BY <1>0, <3>1 DEF Deliver, peer, TypeOK
  <2>3. CASE DiscardAnswer(e)
    <3>1. UNCHANGED peer \/ Deliver(e, NoTable, {}, TRUE)
      BY <2>3 DEF DiscardAnswer
    <3>. QED
      BY <1>0, <3>1 DEF Deliver, peer, TypeOK
  <2>. QED
    BY <2>1, <2>2, <2>3
<1>3. ASSUME NEW e \in Entries, NEW q, DeliverBootstrap(q, e), e \in finished => closed
      PROVE  granted'[x] \subseteq granted[x]
  <2>1. CASE x # e
    BY <1>0, <1>3, <2>1 DEF DeliverBootstrap, TypeOK
  <2>2. CASE x = e
    <3>1. registered = {}
      BY <1>3, <2>2 DEF FinishInv
    <3>. QED
      BY <1>0, <1>3, <2>2, <3>1 DEF DeliverBootstrap, TypeOK
  <2>. QED
    BY <2>1, <2>2
<1>4. ASSUME NEW e \in Entries, BootstrapSettles(e)
      PROVE  granted'[x] \subseteq granted[x]
  BY <1>3, <1>4 DEF BootstrapSettles, BootInv
<1>5. ASSUME NEW q \in Questions, NEW e \in Entries, ObserveBootstrapResponse(q, e)
      PROVE  granted'[x] \subseteq granted[x]
  BY <1>3, <1>5 DEF ObserveBootstrapResponse, Register, FinishInv
<1>6. ASSUME NEW q \in Questions, NEW rel \in BOOLEAN, FinishFrame(q, rel)
      PROVE  granted'[x] \subseteq granted[x]
  BY <1>0, <1>6 DEF FinishFrame, SendFinish, TypeOK
<1>7. CASE \E q \in Questions, e \in Entries : Asks(q, e)
  BY <1>1, <1>7, AsksEffect DEF Ask
<1>8. CASE \/ UNCHANGED vars
           \/ \E q \in Questions : \E n : RejectCall(q, n)
           \/ \E q \in Questions, rel \in BOOLEAN : AnswerFinishedEvent(q, rel)
           \/ ForwardFinish
           \/ \E e \in Entries : \/ BootstrapFails(e) \/ EvictionTimer(e)
                                 \/ \E i : WakePipelinedCall(e, i)
           \/ \E c \in Caps : Counts(c)
           \/ CloseBridge /\ UNCHANGED peer
  <2>1. UNCHANGED granted
    BY <1>8 DEF vars, peer, RejectCall, AnswerFinishedEvent, ForwardFinish, BootstrapFails,
                EvictionTimer, WakePipelinedCall, Counts, ExportCapability,
                RetainCapability, HandOver, ReleaseFrame, ReleaseOwn
  <2>. QED
    BY <1>1, <2>1
<1>. QED
  BY <1>2, <1>4, <1>5, <1>6, <1>7, <1>8, Kinds

\* The account of names holds from the start.
NameBooks == AnswerInv /\ NamesInv /\ FinishInv /\ BootInv /\ TimerInv

LEMMA NameBooksHold ==
    ASSUME ~EarlyBootstrapFinish
    PROVE  Spec => []NameBooks
<1>1. Init => NameBooks
  <2>1. Init => AnswerInv
    BY AnswerInit
  <2>2. Init => NamesInv /\ FinishInv /\ BootInv /\ TimerInv
    BY DEF Init, NamesInv, FinishInv, BootInv, TimerInv
  <2>. QED
    BY <2>1, <2>2 DEF NameBooks
<1>2. NameBooks /\ [Next]_vars => NameBooks'
  <2>1. SUFFICES ASSUME NameBooks, [Next]_vars PROVE NameBooks'
    OBVIOUS
  <2>2. AnswerInv /\ NamesInv /\ FinishInv /\ BootInv /\ TimerInv /\ TypeOK /\ EntryShape
    BY <2>1 DEF NameBooks, AnswerInv
  <2>. QED
    BY <2>1, <2>2, AnswerInvStep, NamesStep, FinishStep, BootStep, TimerStep DEF NameBooks
<1>. QED
  BY <1>1, <1>2, PTL DEF Spec

\* Once the bridge has seen the Finish for a question, its dispatch grants the
\* caller no reference, as long as no Bootstrap is finished before its answer.
THEOREM NoGrants ==
    ASSUME ~EarlyBootstrapFinish
    PROVE  Spec => NoGrantAfterFinish
<1>1. NameBooks /\ [Next]_vars
          => [\A e \in finished : granted'[e] \subseteq granted[e]]_vars
  BY GrantsStep DEF NameBooks
<1>. QED
  BY <1>1, NameBooksHold, PTL DEF Spec, NoGrantAfterFinish

(***************************************************************************)
(* Counting what was not granted.                                          *)
(***************************************************************************)
LEMMA UngrantedFinite ==
    ASSUME NEW c
    PROVE  IsFiniteSet(Ungranted(c)) /\ Cardinality(Ungranted(c)) \in Nat
<1>1. IsFiniteSet(Entries \X Slots)
  BY SetsAssumption, FS_Product
<1>2. Ungranted(c) \in SUBSET (Entries \X Slots)
  BY DEF Ungranted
<1>. QED
  BY <1>1, <1>2, FS_Subset, FS_CardinalityType

\* Two parts of some slots share their occurrences.
LEMMA OccurrencesSplit ==
    ASSUME NEW table, NEW slots \in SUBSET Slots, NEW c,
           NEW one, NEW other, slots = one \cup other, one \cap other = {}
    PROVE  Occurrences(table, slots, c)
               = Occurrences(table, one, c) + Occurrences(table, other, c)
<1>. DEFINE a == SlotsOf(table, one, c)
            b == SlotsOf(table, other, c)
<1>1. SlotsOf(table, slots, c) = a \cup b /\ a \cap b = {}
  BY DEF SlotsOf
<1>2. a \in SUBSET Slots /\ b \in SUBSET Slots
  BY DEF SlotsOf
<1>. HIDE DEF a, b
<1>3. IsFiniteSet(a) /\ IsFiniteSet(b)
  BY <1>2, SetsAssumption, FS_Subset
<1>4. Cardinality(a \cup b) = Cardinality(a) + Cardinality(b) - Cardinality(a \cap b)
  BY <1>3, FS_Union
<1>5. Cardinality(a \cap b) = 0 /\ Cardinality(a) \in Nat /\ Cardinality(b) \in Nat
  BY <1>1, <1>3, FS_EmptySet, FS_CardinalityType
<1>6. Cardinality(a \cup b) = Cardinality(a) + Cardinality(b)
  BY <1>4, <1>5
<1>. QED
  BY <1>1, <1>6 DEF Occurrences, a, b

LEMMA OccurrencesNone ==
    ASSUME NEW table, NEW c
    PROVE  Occurrences(table, {}, c) = 0
<1>1. SlotsOf(table, {}, c) = {}
  BY DEF SlotsOf
<1>. QED
  BY <1>1, FS_EmptySet DEF Occurrences

\* The same slots of the same capTables are ungranted.
LEMMA UngrantedKept ==
    ASSUME NEW c,
           \A x \in Entries : held'[x] \ granted'[x] = held[x] \ granted[x],
           \A x \in Entries : held[x] \ granted[x] # {} => capTable'[x] = capTable[x]
    PROVE  Ungranted(c)' = Ungranted(c)
<1>1. ASSUME NEW x \in Entries, NEW i \in Slots
      PROVE  <<x, i>> \in Ungranted(c)' <=> <<x, i>> \in Ungranted(c)
  BY <1>1 DEF Ungranted
<1>2. Ungranted(c)' \subseteq Entries \X Slots /\ Ungranted(c) \subseteq Entries \X Slots
  BY DEF Ungranted
<1>. QED
  BY <1>1, <1>2

\* One entry gets some.
LEMMA UngrantedAdded ==
    ASSUME TypeOK, NEW e \in Entries, held[e] \ granted[e] = {}, held'[e] \in SUBSET Slots,
           NEW c, \A x \in Entries \ {e} : /\ held'[x] = held[x] /\ granted'[x] = granted[x]
                                           /\ capTable'[x] = capTable[x]
    PROVE  Cardinality(Ungranted(c)')
               = Cardinality(Ungranted(c))
                     + Occurrences(capTable'[e], held'[e] \ granted'[e], c)
<1>. DEFINE share == Share(e, capTable'[e], held'[e] \ granted'[e], c)
<1>1. Ungranted(c)' = Ungranted(c) \cup share
  <2>1. ASSUME NEW x \in Entries, NEW i \in Slots
        PROVE  <<x, i>> \in Ungranted(c)'
                   <=> <<x, i>> \in Ungranted(c) \/ <<x, i>> \in share
    BY <2>1 DEF Ungranted, Share, SlotsOf
  <2>2. /\ Ungranted(c)' \subseteq Entries \X Slots
        /\ Ungranted(c) \subseteq Entries \X Slots
        /\ share \subseteq Entries \X Slots
    BY DEF Ungranted, Share, SlotsOf
  <2>. QED
    BY <2>1, <2>2
<1>2. Ungranted(c) \cap share = {}
  BY DEF Ungranted, Share
<1>3. held'[e] \ granted'[e] \in SUBSET Slots
  OBVIOUS
<1>4. /\ IsFiniteSet(share)
      /\ Cardinality(share) = Occurrences(capTable'[e], held'[e] \ granted'[e], c)
  BY <1>3, ShareSize
<1>5. Cardinality(Ungranted(c) \cap share) = 0
  BY <1>2, FS_EmptySet
<1>. HIDE DEF share
<1>6. Cardinality(Ungranted(c) \cup share)
        = Cardinality(Ungranted(c)) + Cardinality(share) - Cardinality(Ungranted(c) \cap share)
  BY <1>4, UngrantedFinite, FS_Union
<1>. QED
  BY <1>1, <1>3, <1>4, <1>5, <1>6, UngrantedFinite, OccurrencesNat

\* One entry loses all.
LEMMA UngrantedDropped ==
    ASSUME TypeOK, NEW e \in Entries, NEW c, held'[e] \ granted'[e] = {}, UNCHANGED capTable,
           \A x \in Entries \ {e} : held'[x] \ granted'[x] = held[x] \ granted[x]
    PROVE  Cardinality(Ungranted(c)')
               = Cardinality(Ungranted(c))
                     - Occurrences(capTable[e], held[e] \ granted[e], c)
<1>. DEFINE share == Share(e, capTable[e], held[e] \ granted[e], c)
<1>0. held[e] \ granted[e] \in SUBSET Slots
  BY DEF TypeOK
<1>1. Ungranted(c)' = Ungranted(c) \ share
  <2>1. ASSUME NEW x \in Entries, NEW i \in Slots
        PROVE  <<x, i>> \in Ungranted(c)'
                   <=> <<x, i>> \in Ungranted(c) /\ <<x, i>> \notin share
    BY <2>1 DEF Ungranted, Share, SlotsOf
  <2>2. /\ Ungranted(c)' \subseteq Entries \X Slots
        /\ Ungranted(c) \subseteq Entries \X Slots
    BY DEF Ungranted
  <2>. HIDE DEF share
  <2>3. \A p \in Entries \X Slots : p \in Ungranted(c)' <=> p \in Ungranted(c) /\ p \notin share
    BY <2>1
  <2>. QED
    BY <2>2, <2>3
<1>2. share \in SUBSET Ungranted(c)
  BY <1>0 DEF Ungranted, Share, SlotsOf
<1>3. Cardinality(share) = Occurrences(capTable[e], held[e] \ granted[e], c)
  BY <1>0, ShareSize
<1>. HIDE DEF share
<1>4. Ungranted(c) \cap share = share
  BY <1>2
<1>5. Cardinality(Ungranted(c) \ share)
        = Cardinality(Ungranted(c)) - Cardinality(Ungranted(c) \cap share)
  BY UngrantedFinite, FS_Difference
<1>. QED
  BY <1>1, <1>3, <1>4, <1>5

\* An answer takes references and its caller is granted some of them; the first
\* grant of the root comes out of what was granted out of band.
Settled(e, taken, kept, first) ==
    /\ e \in Entries /\ held[e] = {} /\ granted[e] = {}
    /\ taken \in SUBSET Slots /\ kept \in SUBSET taken
    /\ first \in [Caps -> 0 .. 1]
    /\ held'[e] = taken /\ granted'[e] = kept
    /\ \A x \in Entries \ {e} : /\ held'[x] = held[x] /\ granted'[x] = granted[x]
                                /\ capTable'[x] = capTable[x]
    /\ \A i \in taken : capTable'[e][i] \in registered
    /\ \A c \in Caps :
           /\ refCount'[c] = refCount[c] + Occurrences(capTable'[e], taken, c) - first[c]
           /\ peerRefs'[c] = peerRefs[c] + Occurrences(capTable'[e], kept, c)
           /\ pregrant'[c] = pregrant[c] - first[c]
           /\ first[c] = 1 => /\ c = Root /\ Root \in registered
                             /\ Root \notin claimed /\ Root \in claimed'
    /\ claimed \subseteq claimed'
    /\ UNCHANGED <<closed, registered>>

LEMMA BalanceSettled ==
    ASSUME TypeOK, NEW e, NEW taken, NEW kept, NEW first, Settled(e, taken, kept, first),
           NEW c \in Caps
    PROVE  Balance(c)' = Balance(c)
<1>. DEFINE t == capTable'[e]
<1>1. Cardinality(Ungranted(c)')
        = Cardinality(Ungranted(c)) + Occurrences(t, taken \ kept, c)
  BY UngrantedAdded DEF Settled
<1>. HIDE DEF t
<1>2. /\ taken = kept \cup (taken \ kept) /\ kept \cap (taken \ kept) = {}
      /\ taken \in SUBSET Slots /\ taken \ kept \in SUBSET Slots
      /\ kept \in SUBSET Slots
  BY DEF Settled
<1>3. Occurrences(t, taken, c) = Occurrences(t, kept, c) + Occurrences(t, taken \ kept, c)
  BY <1>2, OccurrencesSplit
<1>4. /\ Occurrences(t, taken, c) \in Nat /\ Occurrences(t, kept, c) \in Nat
      /\ Occurrences(t, taken \ kept, c) \in Nat
  BY <1>2, OccurrencesNat
<1>5. /\ refCount'[c] = refCount[c] + Occurrences(t, taken, c) - first[c]
      /\ peerRefs'[c] = peerRefs[c] + Occurrences(t, kept, c)
      /\ pregrant'[c] = pregrant[c] - first[c]
      /\ first[c] \in Int
  BY DEF Settled, t
<1>6. refCount[c] \in Int /\ peerRefs[c] \in Int /\ pregrant[c] \in Int
      /\ Cardinality(Ungranted(c)) \in Int
  BY UngrantedFinite DEF TypeOK
<1>. QED
  BY <1>1, <1>3, <1>4, <1>5, <1>6 DEF Balance

\* What a balance that is not negative says of the counts.
LEMMA Covered ==
    ASSUME TypeOK, CountInv, BalanceInv, ~closed, NEW c \in Caps
    PROVE  /\ refCount[c] \in Nat /\ peerRefs[c] \in Nat /\ pregrant[c] \in Nat
           /\ Cardinality(Ungranted(c)) \in Nat
           /\ peerRefs[c] + pregrant[c] + Cardinality(Ungranted(c)) <= refCount[c]
           /\ Direct => peerRefs[c] + pregrant[c] + Cardinality(Ungranted(c)) = refCount[c]
<1>1. /\ refCount[c] \in Nat /\ peerRefs[c] \in Nat /\ pregrant[c] \in Nat
      /\ Cardinality(Ungranted(c)) \in Nat
  BY UngrantedFinite DEF TypeOK, CountInv
<1>2. Balance(c) >= 0 /\ (Direct => Balance(c) = 0)
  BY DEF BalanceInv
<1>. QED
  BY <1>1, <1>2 DEF Balance

(***************************************************************************)
(* Answers and what they grant.                                            *)
(***************************************************************************)
\* A handler's answer: without a closed bridge its caller is granted references
\* as the owner of the question, and without a host it is granted them all.
AnswerSettles(e, taken, kept) ==
    /\ Settled(e, taken, kept, [c \in Caps |-> 0])
    /\ ~closed /\ kept # {} => owner[question[e]] = e
    /\ ~closed /\ Direct => kept = taken

LEMMA AnswersSettled ==
    ASSUME NameBooks, GrantInv, NEW e \in Entries, Answers(e)
    PROVE  \E taken, kept : AnswerSettles(e, taken, kept)
<1>0. TypeOK /\ EntryShape /\ OwnerInv
  BY DEF NameBooks, AnswerInv
<1>1. PICK table \in CapTables, nf \in BOOLEAN, relayed \in BOOLEAN :
          CallSettles(e, table, nf, relayed) /\ (~relayed => WasmHost)
  BY DEF Answers
<1>2. /\ e \in Unsettled /\ held[e] = {} /\ granted[e] = {} /\ question[e] \in Questions
      /\ capTable' = [capTable EXCEPT ![e] = table] /\ UNCHANGED <<closed, registered, claimed>>
      /\ phase[e] # "done"
  BY <1>0, <1>1 DEF CallSettles, Unsettled, EntryShape, GrantInv, DoneInv
<1>3. capTable'[e] = table /\ \A x \in Entries \ {e} : capTable'[x] = capTable[x]
  BY <1>0, <1>2 DEF TypeOK
<1>. DEFINE zero == [c \in Caps |-> 0]
<1>4. ASSUME NEW taken \in SUBSET Slots, NEW kept \in SUBSET taken,
             held' = [held EXCEPT ![e] = taken], granted' = [granted EXCEPT ![e] = kept],
             \A i \in taken : table[i] \in registered,
             \A c \in Caps : /\ refCount'[c] = refCount[c] + Occurrences(table, taken, c)
                             /\ peerRefs'[c] = peerRefs[c] + Occurrences(table, kept, c),
             UNCHANGED pregrant
      PROVE  Settled(e, taken, kept, zero)
  <2>1. zero \in [Caps -> 0 .. 1] /\ \A c \in Caps : zero[c] = 0
    OBVIOUS
  <2>. HIDE DEF zero
  <2>2. \A c \in Caps : /\ refCount[c] \in Int /\ Occurrences(table, taken, c) \in Int
                        /\ pregrant[c] \in Int
    BY <1>0, OccurrencesNat DEF TypeOK
  <2>3. ASSUME NEW c \in Caps
        PROVE  /\ refCount'[c] = refCount[c] + Occurrences(table, taken, c) - zero[c]
               /\ pregrant'[c] = pregrant[c] - zero[c]
    <3>1. zero[c] = 0 /\ refCount[c] \in Int /\ Occurrences(table, taken, c) \in Int
          /\ pregrant[c] \in Int
      BY <2>1, <2>2
    <3>2. refCount'[c] = refCount[c] + Occurrences(table, taken, c) /\ pregrant'[c] = pregrant[c]
      BY <1>4
    <3>. QED
      BY <3>1, <3>2
  <2>4. /\ held'[e] = taken /\ granted'[e] = kept
        /\ \A x \in Entries \ {e} : held'[x] = held[x] /\ granted'[x] = granted[x]
    BY <1>0, <1>4 DEF TypeOK
  <2>5. \A c \in Caps : zero[c] # 1
    BY <2>1
  <2>. QED
    BY <1>2, <1>3, <1>4, <2>1, <2>3, <2>4, <2>5 DEF Settled
<1>5. \A c : Occurrences(table, {}, c) = 0 /\ Occurrences(NoTable, {}, c) = 0
  BY OccurrencesNone
<1>6. /\ granted = [granted EXCEPT ![e] = {}] /\ held = [held EXCEPT ![e] = {}]
      /\ \A c \in Caps : /\ refCount[c] = refCount[c] + Occurrences(table, {}, c)
                         /\ peerRefs[c] = peerRefs[c] + Occurrences(table, {}, c)
                         /\ peerRefs[c] = peerRefs[c] + Occurrences(NoTable, {}, c)
  BY <1>0, <1>2, <1>5 DEF TypeOK
<1>7. CASE ReturnAnswer(e, table, nf, relayed)
  <2>. DEFINE taken == Tracked(table)
  <2>1. /\ taken \in SUBSET Slots /\ \A i \in taken : table[i] \in registered
        /\ held' = [held EXCEPT ![e] = taken]
        /\ \A c \in Caps : refCount'[c] = refCount[c] + Occurrences(table, taken, c)
        /\ Live(e)
    BY <1>7 DEF ReturnAnswer, Track, Tracked
  <2>2. answerTable[question[e]] = e /\ Pending(question[e])
    BY <2>1, NoneAssumption DEF Live, Pending
  <2>. HIDE DEF taken
  <2>3. CASE caller[question[e]] \in {"free", "answered"}
    <3>1. UNCHANGED peer
      BY <1>7, <2>3 DEF ReturnAnswer, Deliver
    <3>2. Settled(e, taken, {}, zero)
      BY <1>4, <1>6, <2>1, <3>1 DEF peer
    <3>3. WasmHost
      BY <1>0, <1>2, <2>3 DEF OwnerInv
    <3>. QED
      BY <3>2, <3>3 DEF AnswerSettles, Direct
  <2>4. CASE caller[question[e]] \notin {"free", "answered"}
    <3>1. PICK slots \in SUBSET Slots, b \in {nf, FALSE} :
              Deliver(e, table, slots, b) /\ slots \in {taken, {}} /\ (relayed => slots = taken)
      <4>1. CASE relayed
        BY <1>7, <2>1, <4>1 DEF ReturnAnswer, taken
      <4>2. CASE ~relayed
        BY <1>7, <4>2 DEF ReturnAnswer
      <4>. QED
        BY <4>1, <4>2
    <3>. DEFINE kept == IF caller[question[e]] = "released" THEN {} ELSE slots
    <3>2. /\ granted' = [granted EXCEPT ![e] = kept]
          /\ peerRefs' = [c \in Caps |-> peerRefs[c] + Occurrences(table, kept, c)]
          /\ UNCHANGED pregrant
      BY <2>4, <3>1 DEF Deliver
    <3>3. kept \in SUBSET taken
      BY <3>1
    <3>4. ~closed => caller[question[e]] = "open" /\ owner[question[e]] = e
      BY <1>0, <1>2, <2>2, <2>4, NoneAssumption
      DEF GrantInv, Asked, TypeOK, CallerStates
    <3>5. ~closed /\ Direct => kept = taken
      BY <1>1, <3>1, <3>4 DEF Direct
    <3>. HIDE DEF kept
    <3>6. Settled(e, taken, kept, zero)
      BY <1>4, <2>1, <3>2, <3>3
    <3>. QED
      BY <3>4, <3>5, <3>6 DEF AnswerSettles
  <2>. QED
    BY <2>3, <2>4
<1>8. CASE DiscardAnswer(e)
  <2>1. /\ UNCHANGED <<refCount, held>>
        /\ UNCHANGED <<granted, peerRefs, pregrant>>
    <3>1. CASE UNCHANGED peer
      BY <1>8, <3>1 DEF DiscardAnswer, peer
    <3>2. CASE Deliver(e, NoTable, {}, TRUE)
      <4>1. CASE UNCHANGED peer
        BY <1>8, <4>1 DEF DiscardAnswer, peer
      <4>2. /\ granted' = [granted EXCEPT ![e] = {}]
            /\ peerRefs' = [c \in Caps |-> peerRefs[c] + Occurrences(NoTable, {}, c)]
            /\ UNCHANGED pregrant
           \/ UNCHANGED peer
        BY <3>2 DEF Deliver
      <4>3. CASE /\ granted' = [granted EXCEPT ![e] = {}]
                 /\ peerRefs' = [c \in Caps |-> peerRefs[c] + Occurrences(NoTable, {}, c)]
                 /\ UNCHANGED pregrant
        BY <1>0, <1>6, <1>8, <4>3 DEF DiscardAnswer, TypeOK
      <4>. QED
        BY <4>1, <4>2, <4>3
    <3>. QED
      BY <1>8, <3>1, <3>2 DEF DiscardAnswer
  <2>2. Settled(e, {}, {}, zero)
    BY <1>4, <1>6, <2>1
  <2>. QED
    BY <2>2 DEF AnswerSettles
<1>. QED
  BY <1>1, <1>7, <1>8 DEF CallSettles

LEMMA RootOccurrences ==
    ASSUME NEW c
    PROVE  Occurrences(RootTable, {RootSlot}, c) = IF c = Root THEN 1 ELSE 0
<1>1. RootTable[RootSlot] = Root
  BY RootTableType DEF RootTable, NoTable
<1>2. SlotsOf(RootTable, {RootSlot}, c) = IF c = Root THEN {RootSlot} ELSE {}
  BY <1>1 DEF SlotsOf
<1>. QED
  BY <1>2, FS_EmptySet, FS_Singleton DEF Occurrences

\* A bootstrap answer takes the root and grants it.
RootSlots == IF Root \in registered THEN {RootSlot} ELSE {}
FirstGrant ==
    [c \in Caps |-> IF c = Root /\ Root \in registered /\ Root \notin claimed THEN 1 ELSE 0]

LEMMA BootstrapSettled ==
    ASSUME TypeOK, CountInv, BalanceInv, ~closed,
           NEW q \in Questions, NEW e \in Entries, caller[q] # "released",
           held[e] = {}, granted[e] = {},
           TrackBootstrap(e), DeliverBootstrap(q, e),
           capTable' = [capTable EXCEPT ![e] = RootTable], UNCHANGED <<closed, registered>>
    PROVE  Settled(e, RootSlots, RootSlots, FirstGrant)
<1>1. /\ FirstGrant \in [Caps -> 0 .. 1] /\ RootSlots \in SUBSET Slots /\ Root \in Caps
      /\ RootTable[RootSlot] = Root
  BY RootTableType, CapsAssumption DEF FirstGrant, RootSlots, RootTable, NoTable
<1>2. /\ capTable'[e] = RootTable
      /\ \A x \in Entries \ {e} : capTable'[x] = capTable[x]
  BY DEF TypeOK
<1>3. CASE Root \notin registered
  <2>1. RootSlots = {} /\ \A c \in Caps : FirstGrant[c] = 0
    BY <1>3 DEF RootSlots, FirstGrant
  <2>2. /\ granted' = [granted EXCEPT ![e] = {}]
        /\ peerRefs' = [peerRefs EXCEPT ![Root] = @ + Cardinality({})]
        /\ UNCHANGED <<pregrant, refCount, claimed, held>>
    BY <1>3 DEF DeliverBootstrap, TrackBootstrap
  <2>3. Cardinality({}) = 0
    BY FS_EmptySet
  <2>4. \A c \in Caps : peerRefs'[c] = peerRefs[c]
    BY <2>2, <2>3 DEF TypeOK
  <2>5. \A c \in Caps : /\ refCount[c] \in Int /\ peerRefs[c] \in Int /\ pregrant[c] \in Int
                        /\ Occurrences(RootTable, {}, c) = 0
    BY OccurrencesNone DEF TypeOK
  <2>6. \A c \in Caps :
           /\ refCount'[c] = refCount[c] + Occurrences(RootTable, {}, c) - FirstGrant[c]
           /\ peerRefs'[c] = peerRefs[c] + Occurrences(RootTable, {}, c)
           /\ pregrant'[c] = pregrant[c] - FirstGrant[c]
           /\ FirstGrant[c] # 1
    BY <2>1, <2>2, <2>4, <2>5
  <2>7. /\ held'[e] = {} /\ granted'[e] = {}
        /\ \A x \in Entries \ {e} : held'[x] = held[x] /\ granted'[x] = granted[x]
    BY <2>2 DEF TypeOK
  <2>. QED
    BY <1>1, <1>2, <2>1, <2>2, <2>6, <2>7 DEF Settled
<1>4. CASE Root \in registered
  <2>1. RootSlots = {RootSlot} /\ Cardinality({RootSlot}) = 1
    BY <1>4, FS_Singleton DEF RootSlots
  <2>2. /\ granted' = [granted EXCEPT ![e] = {RootSlot}]
        /\ peerRefs' = [peerRefs EXCEPT ![Root] = @ + 1]
        /\ pregrant' = IF Root \in claimed THEN pregrant
                       ELSE [pregrant EXCEPT ![Root] = @ - 1]
    BY <1>4, <2>1 DEF DeliverBootstrap
  <2>3. /\ held' = [held EXCEPT ![e] = {RootSlot}]
        /\ claimed' = claimed \cup {Root}
        /\ refCount' = IF Root \in claimed \/ refCount[Root] = 0
                       THEN [refCount EXCEPT ![Root] = @ + 1] ELSE refCount
    BY <1>4 DEF TrackBootstrap
  <2>4. Root \notin claimed => refCount[Root] # 0
    BY <1>1, <1>4, Covered DEF CountInv
  <2>5. /\ refCount' = IF Root \in claimed THEN [refCount EXCEPT ![Root] = @ + 1] ELSE refCount
        /\ \A c \in Caps : refCount[c] \in Int /\ peerRefs[c] \in Int /\ pregrant[c] \in Int
    BY <2>3, <2>4 DEF TypeOK
  <2>6. \A c \in Caps : FirstGrant[c] = IF c = Root /\ Root \notin claimed THEN 1 ELSE 0
    BY <1>4 DEF FirstGrant
  <2>7. \A c \in Caps :
           /\ refCount'[c] = refCount[c] + (IF c = Root THEN 1 ELSE 0) - FirstGrant[c]
           /\ peerRefs'[c] = peerRefs[c] + (IF c = Root THEN 1 ELSE 0)
           /\ pregrant'[c] = pregrant[c] - FirstGrant[c]
           /\ FirstGrant[c] = 1 => c = Root /\ Root \notin claimed /\ Root \in claimed'
    BY <1>1, <2>2, <2>3, <2>5, <2>6 DEF TypeOK
  <2>8. /\ held'[e] = {RootSlot} /\ granted'[e] = {RootSlot}
        /\ \A x \in Entries \ {e} : held'[x] = held[x] /\ granted'[x] = granted[x]
    BY <2>2, <2>3 DEF TypeOK
  <2>9. \A c \in Caps : Occurrences(RootTable, {RootSlot}, c) = IF c = Root THEN 1 ELSE 0
    BY RootOccurrences
  <2>10. \A i \in {RootSlot} : RootTable[i] \in registered
    BY <1>1, <1>4
  <2>11. \A c \in Caps :
           /\ refCount'[c] = refCount[c] + Occurrences(RootTable, {RootSlot}, c) - FirstGrant[c]
           /\ peerRefs'[c] = peerRefs[c] + Occurrences(RootTable, {RootSlot}, c)
           /\ pregrant'[c] = pregrant[c] - FirstGrant[c]
           /\ FirstGrant[c] = 1 => c = Root /\ Root \notin claimed /\ Root \in claimed'
    BY <2>7, <2>9
  <2>. QED
    BY <1>1, <1>2, <2>1, <2>3, <2>8, <2>10, <2>11 DEF Settled
<1>. QED
  BY <1>3, <1>4

(***************************************************************************)
(* Whose references an answer's are.                                       *)
(***************************************************************************)
\* Only an answer that is settled gets granted.
LEMMA DoneStep ==
    ASSUME NameBooks, GrantInv, [Next]_vars
    PROVE  DoneInv'
<1>0. TypeOK /\ EntryShape
  BY DEF NameBooks, AnswerInv
<1>1. SUFFICES ASSUME NEW x \in Entries, phase'[x] # "done"
               PROVE  granted'[x] = {}
  BY DEF DoneInv
<1>2. phase[x] # "done" /\ granted[x] = {}
  BY <1>0, <1>1, PhasesGrow DEF GrantInv, DoneInv
<1>3. ASSUME granted'[x] = granted[x]
      PROVE  granted'[x] = {}
  BY <1>2, <1>3
<1>4. ASSUME NEW e \in Entries, Answers(e)
      PROVE  granted'[x] = {}
  <2>1. PICK taken, kept : AnswerSettles(e, taken, kept)
    BY <1>4, AnswersSettled
  <2>2. x # e
    BY <1>0, <1>1, <1>4 DEF Answers, CallSettles, TypeOK
  <2>. QED
    BY <1>3, <2>1, <2>2 DEF AnswerSettles, Settled
<1>5. ASSUME NEW e \in Entries, NEW q, DeliverBootstrap(q, e), phase'[e] = "done"
      PROVE  granted'[x] = {}
  BY <1>0, <1>1, <1>3, <1>5 DEF DeliverBootstrap, TypeOK
<1>6. ASSUME NEW e \in Entries, BootstrapSettles(e)
      PROVE  granted'[x] = {}
  BY <1>0, <1>5, <1>6 DEF BootstrapSettles, TypeOK
<1>7. ASSUME NEW q \in Questions, NEW e \in Entries, ObserveBootstrapResponse(q, e)
      PROVE  granted'[x] = {}
  BY <1>0, <1>5, <1>7 DEF ObserveBootstrapResponse, Register, TypeOK
<1>8. ASSUME NEW q \in Questions, NEW rel \in BOOLEAN, FinishFrame(q, rel)
      PROVE  granted'[x] = {}
  BY <1>0, <1>2, <1>8 DEF FinishFrame, SendFinish, TypeOK
<1>9. CASE \E q \in Questions, e \in Entries : Asks(q, e)
  BY <1>3, <1>9, AsksEffect DEF Ask
<1>10. CASE \/ UNCHANGED vars
            \/ \E q \in Questions : \E n : RejectCall(q, n)
            \/ \E q \in Questions, rel \in BOOLEAN : AnswerFinishedEvent(q, rel)
            \/ ForwardFinish
            \/ \E e \in Entries : \/ BootstrapFails(e) \/ EvictionTimer(e)
                                  \/ \E i : WakePipelinedCall(e, i)
            \/ \E c \in Caps : Counts(c)
            \/ CloseBridge /\ UNCHANGED peer
  <2>1. UNCHANGED granted
    BY <1>10 DEF vars, peer, RejectCall, AnswerFinishedEvent, ForwardFinish, BootstrapFails,
                 EvictionTimer, WakePipelinedCall, Counts, ExportCapability,
                 RetainCapability, HandOver, ReleaseFrame, ReleaseOwn
  <2>. QED
    BY <1>3, <2>1
<1>. QED
  BY <1>4, <1>6, <1>7, <1>8, <1>9, <1>10, Kinds

\* What a Return does to the question it answers.
LEMMA AskedSettles ==
    ASSUME NameBooks, GrantInv, ~NoFinishReturns, ~closed,
           NEW e \in Entries, Answers(e), NEW q \in Questions, q = question[e]
    PROVE  Asked(q)'
<1>0. TypeOK /\ EntryShape
  BY DEF NameBooks, AnswerInv
<1>1. PICK table \in CapTables, nf \in BOOLEAN, relayed \in BOOLEAN :
          CallSettles(e, table, nf, relayed) /\ ~nf
  BY DEF Answers
<1>2. /\ UNCHANGED <<answerTable, question>> /\ granted[e] = {}
      /\ Asked(q)
  BY <1>0, <1>1 DEF CallSettles, EntryShape, GrantInv, DoneInv
<1>3. CASE UNCHANGED peer
  BY <1>2, <1>3 DEF peer, Asked, Pending
<1>4. ASSUME NEW t, NEW s, Deliver(e, t, s, FALSE), Live(e)
      PROVE  Asked(q)'
  <2>1. CASE caller[q] \in {"free", "answered"}
    BY <1>3, <1>4, <2>1 DEF Deliver
  <2>2. CASE caller[q] \notin {"free", "answered"}
    <3>1. caller[q] = "open"
      BY <1>0, <1>2, <1>4, <2>2, NoneAssumption DEF Asked, Live, TypeOK, CallerStates
    <3>2. caller'[q] = "answered"
      BY <1>0, <1>2, <1>4, <2>2, <3>1 DEF Deliver, TypeOK
    <3>. QED
      BY <3>2 DEF Asked
  <2>. QED
    BY <2>1, <2>2
<1>5. CASE Deliver(e, NoTable, {}, TRUE)
  <2>1. CASE caller[q] \in {"free", "answered"}
    BY <1>3, <1>5, <2>1 DEF Deliver
  <2>2. CASE caller[q] \notin {"free", "answered"}
    <3>1. /\ caller'[q] = "free"
          /\ \A x \in Entries : granted'[x] \in {granted[x], {}}
      BY <1>0, <1>2, <1>5, <2>2 DEF Deliver, TypeOK
    <3>2. CASE caller[q] = "open"
      BY <1>0, <1>2, <3>1, <3>2 DEF Asked, Pending, TypeOK
    <3>3. CASE caller[q] # "open"
      BY <1>0, <1>2, <2>2, <3>1, <3>3 DEF Asked, Pending, TypeOK, CallerStates
    <3>. QED
      BY <3>2, <3>3
  <2>. QED
    BY <2>1, <2>2
<1>6. CASE ReturnAnswer(e, table, nf, relayed)
  <2>1. Live(e) /\ \E t, s : Deliver(e, t, s, FALSE)
    BY <1>1, <1>6 DEF ReturnAnswer
  <2>. QED
    BY <1>2, <1>4, <2>1
<1>7. CASE DiscardAnswer(e)
  BY <1>2, <1>3, <1>5, <1>7 DEF DiscardAnswer
<1>. QED
  BY <1>1, <1>6, <1>7 DEF CallSettles

LEMMA AskedStep ==
    ASSUME NameBooks, GrantInv, ~NoFinishReturns, [Next]_vars, ~closed',
           NEW r \in Questions
    PROVE  Asked(r)'
<1>0. /\ TypeOK /\ EntryShape /\ NamesInv /\ FinishInv /\ AnswerInv
      /\ ~closed /\ Asked(r)
  BY ClosedStep DEF NameBooks, AnswerInv, GrantInv
<1>1. ASSUME caller'[r] = caller[r], owner'[r] = owner[r],
             answerTable'[r] \in {answerTable[r], None},
             Pending(r) => granted'[answerTable[r]] \in {granted[answerTable[r]], {}}
      PROVE  Asked(r)'
  BY <1>0, <1>1 DEF Asked, Pending
<1>2. ASSUME UNCHANGED <<caller, owner, granted>>, answerTable'[r] \in {answerTable[r], None}
      PROVE  Asked(r)'
  BY <1>1, <1>2
<1>3. ASSUME NEW q \in Questions, NEW n, RejectCall(q, n)
      PROVE  Asked(r)'
  <2>1. CASE r = q
    BY <1>0, <1>3, <2>1 DEF RejectCall, Asked, TypeOK
  <2>2. CASE r # q
    BY <1>0, <1>1, <1>3, <2>2 DEF RejectCall, TypeOK
  <2>. QED
    BY <2>1, <2>2
<1>4. ASSUME NEW q \in Questions, NEW e \in Entries, Asks(q, e)
      PROVE  Asked(r)'
  <2>1. PICK n, p : Register(q, e, n, p)
    BY <1>4, AsksEffect DEF Registers
  <2>2. Ask(q, e)
    BY <1>4, AsksEffect
  <2>3. CASE r = q
    <3>1. granted[e] = {}
      BY <2>1 DEF Register, GrantInv, DoneInv
    <3>. QED
      BY <1>0, <2>1, <2>2, <2>3, <3>1 DEF Register, Ask, Asked, TypeOK
  <2>4. CASE r # q
    BY <1>0, <1>1, <2>1, <2>2, <2>4 DEF Register, Ask, TypeOK
  <2>. QED
    BY <2>3, <2>4
<1>5. ASSUME NEW q \in Questions, NEW e \in Entries, DeliverBootstrap(q, e), r # q,
             answerTable'[r] = answerTable[r], answerTable[r] # e
      PROVE  Asked(r)'
  <2>1. Pending(r) => answerTable[r] \in Entries \ {e}
    BY <1>0, <1>5 DEF Pending, TypeOK
  <2>. QED
    BY <1>0, <1>1, <1>5, <2>1 DEF DeliverBootstrap, TypeOK
<1>6. ASSUME NEW q \in Questions, NEW e \in Entries, ObserveBootstrapResponse(q, e)
      PROVE  Asked(r)'
  <2>1. /\ Register(q, e, 0, "done") /\ DeliverBootstrap(q, e) /\ caller[q] = "free"
    BY <1>6 DEF ObserveBootstrapResponse
  <2>2. CASE r = q
    BY <1>0, <2>1, <2>2 DEF DeliverBootstrap, Asked, TypeOK
  <2>3. CASE r # q
    <3>1. question[e] = None /\ answerTable'[r] = answerTable[r]
      BY <1>0, <2>1, <2>3 DEF Register, EntryShape, TypeOK
    <3>2. answerTable[r] # e
      BY <1>0, <3>1, NoneAssumption DEF NamesInv
    <3>. QED
      BY <1>5, <2>1, <2>3, <3>1, <3>2
  <2>. QED
    BY <2>2, <2>3
<1>7. ASSUME NEW q \in Questions, NEW rel \in BOOLEAN, FinishFrame(q, rel)
      PROVE  Asked(r)'
  <2>1. SendFinish(q, rel) /\ BridgeFinish(q, rel)
    BY <1>7 DEF FinishFrame
  <2>2. CASE r = q
    <3>1. answerTable'[r] = None /\ caller'[r] # "open"
      BY <1>0, <2>1, <2>2 DEF SendFinish, BridgeFinish, TypeOK
    <3>. QED
      BY <3>1 DEF Asked, Pending
  <2>3. CASE r # q
    <3>1. Pending(r) => answerTable[r] \in Entries
      BY <1>0 DEF Pending, TypeOK
    <3>. QED
      BY <1>0, <1>1, <2>1, <2>3, <3>1 DEF SendFinish, BridgeFinish, TypeOK
  <2>. QED
    BY <2>2, <2>3
<1>8. ASSUME NEW q \in Questions, NEW rel \in BOOLEAN, AnswerFinishedEvent(q, rel)
      PROVE  Asked(r)'
  <2>1. /\ caller[q] = "open" /\ caller' = [caller EXCEPT ![q] = "free"]
        /\ UNCHANGED <<answerTable, owner, granted>>
    BY <1>8 DEF AnswerFinishedEvent, ReportsFinish
  <2>2. CASE r = q
    <3>1. caller'[r] = "free" /\ caller[r] = "open"
      BY <1>0, <2>1, <2>2 DEF TypeOK
    <3>. QED
      BY <1>0, <2>1, <3>1 DEF Asked, Pending
  <2>3. CASE r # q
    BY <1>0, <1>1, <2>1, <2>3 DEF TypeOK
  <2>. QED
    BY <2>2, <2>3
<1>9. CASE ForwardFinish
  <2>1. finishing[1] \in Questions /\ BridgeFinish(finishing[1], finishing[2])
    BY <1>0, <1>9 DEF ForwardFinish, TypeOK
  <2>2. answerTable'[r] \in {answerTable[r], None}
    BY <1>0, <2>1 DEF BridgeFinish, TypeOK
  <2>. QED
    BY <1>2, <1>9, <2>2 DEF ForwardFinish, peer
<1>10. ASSUME NEW e \in Entries, Answers(e)
       PROVE  Asked(r)'
  <2>1. CASE r = question[e]
    BY <1>0, <1>10, <2>1, AskedSettles
  <2>2. CASE r # question[e]
    <3>1. PICK taken, kept : AnswerSettles(e, taken, kept)
      BY <1>10, AnswersSettled
    <3>2. /\ UNCHANGED answerTable
          /\ UNCHANGED peer \/ \E t, s, b : Deliver(e, t, s, b)
      BY <1>10 DEF Answers, CallSettles, ReturnAnswer, DiscardAnswer
    <3>3. caller'[r] = caller[r] /\ owner'[r] = owner[r]
      BY <1>0, <2>2, <3>2 DEF Deliver, peer, TypeOK
    <3>4. Pending(r) => answerTable[r] \in Entries \ {e}
      BY <1>0, <2>2 DEF NamesInv, Pending, TypeOK
    <3>. QED
      BY <1>1, <3>1, <3>2, <3>3, <3>4 DEF AnswerSettles, Settled
  <2>. QED
    BY <2>1, <2>2
<1>11. ASSUME NEW e \in Entries, BootstrapSettles(e)
       PROVE  Asked(r)'
  <2>1. /\ question[e] \in Questions /\ DeliverBootstrap(question[e], e)
        /\ caller[question[e]] = "open" /\ UNCHANGED answerTable
    BY <1>0, <1>11 DEF BootstrapSettles, EntryShape, NameBooks, BootInv
  <2>2. CASE r = question[e]
    BY <1>0, <2>1, <2>2 DEF DeliverBootstrap, Asked, TypeOK
  <2>3. CASE r # question[e]
    <3>1. answerTable[r] # e
      BY <1>0, <2>3, NoneAssumption DEF NamesInv
    <3>. QED
      BY <1>5, <2>1, <2>3, <3>1
  <2>. QED
    BY <2>2, <2>3
<1>12. ASSUME NEW e \in Entries, BootstrapFails(e) \/ EvictionTimer(e)
       PROVE  Asked(r)'
  <2>1. /\ UNCHANGED peer
        /\ answerTable' \in {answerTable, [answerTable EXCEPT ![question[e]] = None]}
    BY <1>12 DEF BootstrapFails, EvictionTimer
  <2>2. answerTable'[r] \in {answerTable[r], None}
    BY <1>0, <2>1 DEF TypeOK
  <2>. QED
    BY <1>2, <2>1, <2>2 DEF peer
<1>13. CASE \/ UNCHANGED vars
            \/ \E e \in Entries : \E i : WakePipelinedCall(e, i)
            \/ \E c \in Caps : Counts(c)
  <2>1. UNCHANGED <<caller, owner, granted, answerTable>>
    BY <1>13 DEF vars, peer, WakePipelinedCall, Counts, ExportCapability,
                 RetainCapability, HandOver, ReleaseFrame, ReleaseOwn
  <2>. QED
    BY <1>2, <2>1
<1>14. ~CloseBridge
  BY DEF CloseBridge
<1>. QED
  BY <1>3, <1>4, <1>6, <1>7, <1>8, <1>9, <1>10, <1>11, <1>12, <1>13, <1>14, Kinds

LEMMA SharedStep ==
    ASSUME NameBooks, HoldInv, GrantInv, [Next]_vars, ~closed'
    PROVE  SharedInv'
<1>0. /\ TypeOK /\ EntryShape /\ NamesInv /\ ~closed
      /\ SharedInv /\ \A q \in Questions : Asked(q)
  BY ClosedStep DEF NameBooks, AnswerInv, GrantInv
<1>1. SUFFICES ASSUME NEW x \in Entries, held'[x] \cap granted'[x] # {}
               PROVE  owner'[question'[x]] = x
  BY DEF SharedInv
<1>2. ASSUME question'[x] = question[x], owner'[question[x]] = owner[question[x]],
             held'[x] \in {held[x], {}}, granted'[x] \in {granted[x], {}}
      PROVE  owner'[question'[x]] = x
  BY <1>0, <1>1, <1>2 DEF SharedInv
<1>3. held[x] # {} => question[x] \in Questions /\ answerTable[question[x]] = x
  BY <1>0 DEF HoldInv, HoldsExact, Live
<1>4. ASSUME NEW q \in Questions, NEW n, RejectCall(q, n)
      PROVE  owner'[question'[x]] = x
  <2>1. /\ owner' = [owner EXCEPT ![q] = None] /\ caller[q] = "free"
        /\ UNCHANGED <<question, held, granted>>
    BY <1>4 DEF RejectCall, entries
  <2>2. question[x] # q
    <3>1. held[x] \cap granted[x] # {}
      BY <1>1, <2>1
    <3>. QED
      BY <1>0, <1>3, <2>1, <3>1, NoneAssumption DEF Asked, Pending
  <2>. QED
    BY <1>0, <1>2, <2>1, <2>2 DEF TypeOK
<1>5. ASSUME NEW q \in Questions, NEW e \in Entries, NEW n, NEW p, Register(q, e, n, p),
             x # e, held'[x] = held[x], granted'[x] = granted[x],
             owner' = [owner EXCEPT ![q] = e]
      PROVE  owner'[question'[x]] = x
  <2>1. question'[x] = question[x] /\ ~Pending(q)
    BY <1>0, <1>5 DEF Register, CanRegister, TypeOK
  <2>2. question[x] # q
    BY <1>1, <1>3, <1>5, <2>1, NoneAssumption DEF Pending
  <2>. QED
    BY <1>0, <1>2, <1>5, <2>1, <2>2 DEF TypeOK
<1>6. ASSUME NEW q \in Questions, NEW e \in Entries, Asks(q, e)
      PROVE  owner'[question'[x]] = x
  <2>1. PICK n, p : Register(q, e, n, p)
    BY <1>6, AsksEffect DEF Registers
  <2>2. Ask(q, e) /\ UNCHANGED <<held, granted>> /\ owner' = [owner EXCEPT ![q] = e]
    BY <1>6, AsksEffect DEF Ask
  <2>3. held[e] = {}
    BY <1>0, <2>1, RegisterKeepsLive
  <2>4. x # e
    BY <1>1, <2>2, <2>3
  <2>. QED
    BY <1>5, <2>1, <2>2, <2>4
<1>7. ASSUME NEW q \in Questions, NEW e \in Entries, ObserveBootstrapResponse(q, e)
      PROVE  owner'[question'[x]] = x
  <2>1. /\ Register(q, e, 0, "done") /\ TrackBootstrap(e) /\ DeliverBootstrap(q, e)
        /\ owner' = [owner EXCEPT ![q] = e]
    BY <1>7 DEF ObserveBootstrapResponse, DeliverBootstrap
  <2>2. CASE x = e
    BY <1>0, <2>1, <2>2 DEF Register, TypeOK
  <2>3. CASE x # e
    <3>1. held'[x] = held[x] /\ granted'[x] = granted[x]
      BY <1>0, <2>1, <2>3 DEF TrackBootstrap, DeliverBootstrap, TypeOK
    <3>. QED
      BY <1>5, <2>1, <2>3, <3>1
  <2>. QED
    BY <2>2, <2>3
<1>8. ASSUME NEW q, NEW rel, BridgeFinish(q, rel)
      PROVE  held'[x] \in {held[x], {}}
  BY <1>0, <1>8 DEF BridgeFinish, ReleaseAnswerHeldCapabilities, TypeOK
<1>9. ASSUME NEW q \in Questions, NEW rel \in BOOLEAN, FinishFrame(q, rel)
      PROVE  owner'[question'[x]] = x
  <2>1. SendFinish(q, rel) /\ UNCHANGED <<question, owner>> /\ held'[x] \in {held[x], {}}
    BY <1>8, <1>9 DEF FinishFrame, SendFinish, entries
  <2>2. granted'[x] \in {granted[x], {}}
    BY <1>0, <2>1 DEF SendFinish, TypeOK
  <2>. QED
    BY <1>2, <2>1, <2>2
<1>10. CASE ForwardFinish
  BY <1>2, <1>8, <1>10 DEF ForwardFinish, entries, peer
<1>11. ASSUME NEW e \in Entries, Answers(e)
       PROVE  owner'[question'[x]] = x
  <2>1. PICK taken, kept : AnswerSettles(e, taken, kept)
    BY <1>11, AnswersSettled
  <2>2. UNCHANGED <<question, owner>>
    BY <1>11 DEF Answers, CallSettles, ReturnAnswer, DiscardAnswer, Deliver, peer
  <2>3. CASE x = e
    <3>1. kept # {} /\ (kept # {} => owner[question[e]] = e)
      BY <1>0, <1>1, <2>1, <2>3 DEF AnswerSettles, Settled
    <3>. QED
      BY <2>2, <2>3, <3>1
  <2>4. CASE x # e
    BY <1>2, <2>1, <2>2, <2>4 DEF AnswerSettles, Settled
  <2>. QED
    BY <2>3, <2>4
<1>12. ASSUME NEW e \in Entries, BootstrapSettles(e)
       PROVE  owner'[question'[x]] = x
  <2>1. /\ question[e] \in Questions /\ Live(e) /\ UNCHANGED question
        /\ owner' = [owner EXCEPT ![question[e]] = e] /\ DeliverBootstrap(question[e], e)
        /\ TrackBootstrap(e) \/ UNCHANGED held
    BY <1>0, <1>12 DEF BootstrapSettles, EntryShape, NameBooks, BootInv, DeliverBootstrap
  <2>2. CASE x = e
    BY <1>0, <2>1, <2>2 DEF TypeOK
  <2>3. CASE x # e
    <3>1. held'[x] = held[x] /\ granted'[x] = granted[x]
      BY <1>0, <2>1, <2>3 DEF TrackBootstrap, DeliverBootstrap, TypeOK
    <3>2. question[x] # question[e]
      BY <1>1, <1>3, <2>1, <2>3, <3>1 DEF Live
    <3>3. question[x] \in Questions
      BY <1>1, <1>3, <3>1
    <3>. QED
      BY <1>0, <1>2, <2>1, <3>1, <3>2, <3>3 DEF TypeOK
  <2>. QED
    BY <2>2, <2>3
<1>13. ASSUME NEW e \in Entries, EvictionTimer(e)
       PROVE  owner'[question'[x]] = x
  <2>1. UNCHANGED <<question, owner, granted>>
    BY <1>13 DEF EvictionTimer, entries, peer
  <2>2. held'[x] \in {held[x], {}}
    BY <1>0, <1>13 DEF EvictionTimer, ReleaseAnswerHeldCapabilities, TypeOK
  <2>. QED
    BY <1>2, <2>1, <2>2
<1>14. CASE \/ UNCHANGED vars
            \/ \E q \in Questions, rel \in BOOLEAN : AnswerFinishedEvent(q, rel)
            \/ \E e \in Entries : BootstrapFails(e) \/ \E i : WakePipelinedCall(e, i)
            \/ \E c \in Caps : Counts(c)
  <2>1. UNCHANGED <<question, owner, held, granted>>
    BY <1>14 DEF vars, entries, peer, AnswerFinishedEvent, BootstrapFails,
                 WakePipelinedCall, Counts, ExportCapability, RetainCapability,
                 HandOver, ReleaseFrame, ReleaseOwn
  <2>. QED
    BY <1>2, <2>1
<1>15. ~CloseBridge
  BY DEF CloseBridge
<1>. QED
  BY <1>4, <1>6, <1>7, <1>9, <1>10, <1>11, <1>12, <1>13, <1>14, <1>15, Kinds

LEMMA GrantStep ==
    ASSUME NameBooks, HoldInv, GrantInv, ~NoFinishReturns, [Next]_vars
    PROVE  GrantInv'
BY DoneStep, AskedStep, SharedStep DEF GrantInv

(***************************************************************************)
(* The counts.                                                             *)
(***************************************************************************)
\* What giving up an answer's holds does to the counts.
LEMMA ReleaseEffect ==
    ASSUME TypeOK, NEW e \in Entries, NEW rel \in BOOLEAN,
           ReleaseAnswerHeldCapabilities(e, rel), NEW c \in Caps
    PROVE  /\ refCount'[c] \in Nat
           /\ refCount'[c] = IF rel THEN Monus(refCount[c], Occurrences(capTable[e], held[e], c))
                                    ELSE refCount[c]
           /\ refCount'[c] <= refCount[c]
           /\ c \in registered \ registered' => refCount'[c] = 0
           /\ registered' \subseteq registered
           /\ claimed \cap registered' \subseteq claimed'
<1>1. Occurrences(capTable[e], held[e], c) \in Nat
  BY OccurrencesNat DEF TypeOK
<1>2. refCount'[c] = IF rel THEN Monus(refCount[c], Occurrences(capTable[e], held[e], c))
                            ELSE refCount[c]
  BY DEF ReleaseAnswerHeldCapabilities
<1>3. refCount'[c] \in Nat /\ refCount'[c] <= refCount[c]
  BY <1>1, <1>2 DEF Monus, TypeOK
<1>4. c \in registered \ registered' => refCount'[c] = 0
  BY DEF ReleaseAnswerHeldCapabilities
<1>5. registered' \subseteq registered /\ claimed \cap registered' \subseteq claimed'
  BY DEF ReleaseAnswerHeldCapabilities, TypeOK
<1>. QED
  BY <1>2, <1>3, <1>4, <1>5

\* A step that only drops references keeps the counts in order.
LEMMA CountKept ==
    ASSUME TypeOK, CountInv, UNCHANGED <<closed, pregrant>>,
           \A c \in Caps : /\ peerRefs'[c] >= 0
                           /\ refCount'[c] \in Nat /\ refCount'[c] <= refCount[c]
                           /\ c \in registered \ registered' => refCount'[c] = 0,
           registered' \subseteq registered,
           claimed \cap registered' \subseteq claimed'
    PROVE  CountInv'
BY DEF CountInv, TypeOK

LEMMA CountSettled ==
    ASSUME TypeOK, CountInv, NEW e, NEW taken, NEW kept, NEW first,
           Settled(e, taken, kept, first)
    PROVE  CountInv'
<1>. DEFINE t == capTable'[e]
<1>1. /\ taken \in SUBSET Slots /\ kept \in SUBSET Slots /\ first \in [Caps -> 0 .. 1]
      /\ \A i \in taken : t[i] \in registered
      /\ \A c \in Caps :
           /\ refCount'[c] = refCount[c] + Occurrences(t, taken, c) - first[c]
           /\ peerRefs'[c] = peerRefs[c] + Occurrences(t, kept, c)
           /\ pregrant'[c] = pregrant[c] - first[c]
           /\ first[c] = 1 => /\ c = Root /\ Root \in registered
                             /\ Root \notin claimed /\ Root \in claimed'
      /\ claimed \subseteq claimed' /\ UNCHANGED <<closed, registered>>
  BY DEF Settled
<1>. HIDE DEF t
<1>2. ASSUME NEW c \in Caps
      PROVE  peerRefs'[c] >= 0 /\ pregrant'[c] >= 0
  <2>1. Occurrences(t, kept, c) \in Nat /\ peerRefs[c] \in Nat /\ pregrant[c] \in Nat
    BY <1>1, OccurrencesNat DEF CountInv, TypeOK
  <2>2. first[c] \in {0, 1} /\ (first[c] = 1 => pregrant[c] >= 1)
    BY <1>1, <1>2 DEF CountInv
  <2>3. peerRefs'[c] = peerRefs[c] + Occurrences(t, kept, c)
        /\ pregrant'[c] = pregrant[c] - first[c]
    BY <1>1
  <2>. QED
    BY <2>1, <2>2, <2>3
<1>3. ASSUME Root \in registered', Root \notin claimed'
      PROVE  pregrant'[Root] >= 1
  <2>1. Root \in Caps /\ Root \in registered /\ Root \notin claimed
    BY <1>1, <1>3, CapsAssumption
  <2>2. first[Root] = 0 /\ pregrant[Root] \in Int /\ pregrant[Root] >= 1
    BY <1>1, <1>3, <2>1 DEF CountInv, TypeOK
  <2>. QED
    BY <1>1, <2>1, <2>2
<1>4. ASSUME ~closed', NEW c \in Caps \ registered'
      PROVE  refCount'[c] = 0
  <2>1. SlotsOf(t, taken, c) = {}
    BY <1>1, <1>4 DEF SlotsOf
  <2>2. Occurrences(t, taken, c) = 0
    BY <2>1, FS_EmptySet DEF Occurrences
  <2>3. first[c] = 0 /\ refCount[c] = 0
    BY <1>1, <1>4 DEF CountInv
  <2>. QED
    BY <1>1, <2>2, <2>3
<1>. QED
  BY <1>2, <1>3, <1>4 DEF CountInv

LEMMA BootstrapSettledOpen ==
    ASSUME NameBooks, GrantInv, CountInv, BalanceInv, ~closed,
           NEW e \in Entries, BootstrapSettles(e)
    PROVE  Settled(e, RootSlots, RootSlots, FirstGrant)
<1>0. TypeOK /\ EntryShape
  BY DEF NameBooks, AnswerInv
<1>1. /\ question[e] \in Questions /\ Live(e) /\ e \notin finished
      /\ caller[question[e]] = "open" /\ held[e] = {} /\ granted[e] = {}
  BY <1>0 DEF BootstrapSettles, EntryShape, NameBooks, BootInv, GrantInv, DoneInv
<1>2. /\ TrackBootstrap(e) /\ DeliverBootstrap(question[e], e)
      /\ capTable' = [capTable EXCEPT ![e] = RootTable] /\ UNCHANGED <<closed, registered>>
  BY <1>1 DEF BootstrapSettles
<1>. QED
  BY <1>0, <1>1, <1>2, BootstrapSettled

LEMMA BootstrapObserved ==
    ASSUME NameBooks, GrantInv, CountInv, BalanceInv,
           NEW q \in Questions, NEW e \in Entries, ObserveBootstrapResponse(q, e)
    PROVE  Settled(e, RootSlots, RootSlots, FirstGrant)
<1>0. TypeOK /\ EntryShape
  BY DEF NameBooks, AnswerInv
<1>1. /\ ~closed /\ caller[q] = "free" /\ held[e] = {} /\ granted[e] = {}
      /\ TrackBootstrap(e) /\ DeliverBootstrap(q, e)
      /\ capTable' = [capTable EXCEPT ![e] = RootTable] /\ UNCHANGED <<closed, registered>>
  BY <1>0 DEF ObserveBootstrapResponse, Inbound, Register, EntryShape, GrantInv, DoneInv
<1>. QED
  BY <1>0, <1>1, BootstrapSettled

\* After the bridge has closed a Bootstrap that settles counts nothing.
LEMMA BootstrapSettlesClosed ==
    ASSUME TypeOK, FinishInv, closed, NEW e \in Entries, BootstrapSettles(e)
    PROVE  UNCHANGED <<closed, registered, refCount, claimed, pregrant>>
           /\ \A c \in Caps : peerRefs'[c] = peerRefs[c]
<1>1. registered = {}
  BY DEF FinishInv
<1>2. /\ peerRefs' = [peerRefs EXCEPT ![Root] = @ + Cardinality({})]
      /\ UNCHANGED <<pregrant, refCount, claimed>>
  BY <1>1 DEF BootstrapSettles, DeliverBootstrap, TrackBootstrap
<1>3. Cardinality({}) = 0
  BY FS_EmptySet
<1>4. \A c \in Caps : peerRefs'[c] = peerRefs[c]
  BY <1>2, <1>3 DEF TypeOK
<1>. QED
  BY <1>2, <1>4 DEF BootstrapSettles

\* A Release names no more references than are counted.
LEMMA ReleaseDrops ==
    ASSUME TypeOK, FinishInv, CountInv, BalanceInv, NEW c \in Caps,
           NEW n \in 1 .. MaxReferenceCount, ReleaseFrame(c, n)
    PROVE  ~closed /\ DropReferences(c, n)
<1>1. ~closed /\ n \in 1 .. peerRefs[c]
  BY DEF ReleaseFrame, Inbound
<1>2. n \in Nat /\ 1 <= n /\ n <= peerRefs[c]
  BY <1>1, CapsAssumption DEF TypeOK
<1>3. n <= refCount[c] /\ refCount[c] # 0
  BY <1>1, <1>2, Covered
<1>4. c \in registered
  BY <1>1, <1>3 DEF CountInv
<1>. QED
  BY <1>1, <1>2, <1>3, <1>4 DEF ReleaseFrame, TypeOK

LEMMA CountStepCounts ==
    ASSUME TypeOK, FinishInv, CountInv, BalanceInv, NEW c \in Caps, Counts(c)
    PROVE  CountInv'
<1>1. \A x \in Caps : /\ refCount[x] \in Nat /\ peerRefs[x] \in Int /\ pregrant[x] \in Int
                      /\ peerRefs[x] >= 0 /\ pregrant[x] >= 0
  BY DEF TypeOK, CountInv
<1>2. ASSUME NEW n \in 0 .. 1, ExportCapability(c, n)
      PROVE  CountInv'
  BY <1>1, <1>2, CapsAssumption DEF ExportCapability, CountInv, TypeOK
<1>3. CASE RetainCapability(c)
  BY <1>1, <1>3, CapsAssumption DEF RetainCapability, CountInv, TypeOK
<1>4. CASE HandOver(c)
  BY <1>1, <1>4, CapsAssumption DEF HandOver, registry, CountInv, TypeOK
<1>5. ASSUME NEW n \in 1 .. MaxReferenceCount, ReleaseFrame(c, n)
      PROVE  CountInv'
  <2>1. DropReferences(c, n) /\ n \in Nat
    BY <1>5, ReleaseDrops, CapsAssumption
  <2>2. \A x \in Caps : peerRefs'[x] >= 0
    BY <1>1, <1>5, CapsAssumption DEF ReleaseFrame, TypeOK
  <2>3. UNCHANGED <<closed, pregrant>>
    BY <1>5 DEF ReleaseFrame
  <2>. QED
    BY <1>1, <2>1, <2>2, <2>3, CountKept DEF DropReferences, TypeOK
<1>6. CASE ReleaseOwn(c)
  <2>1. DropReferences(c, 1) /\ pregrant[c] > 0 /\ (c # Root \/ Root \in claimed)
        /\ pregrant' = [pregrant EXCEPT ![c] = @ - 1] /\ UNCHANGED <<closed, peerRefs>>
    BY <1>6 DEF ReleaseOwn
  <2>2. \A x \in Caps : pregrant'[x] >= 0 /\ peerRefs'[x] >= 0
    BY <1>1, <2>1 DEF TypeOK
  <2>3. ASSUME Root \in registered', Root \notin claimed'
        PROVE  pregrant'[Root] >= 1
    BY <1>1, <2>1, <2>3, CapsAssumption DEF DropReferences, CountInv, TypeOK
  <2>4. ~closed' => \A x \in Caps \ registered' : refCount'[x] = 0
    BY <1>1, <2>1 DEF DropReferences, CountInv, TypeOK
  <2>. QED
    BY <2>2, <2>3, <2>4 DEF CountInv
<1>. QED
  BY <1>2, <1>3, <1>4, <1>5, <1>6 DEF Counts

LEMMA CountStep ==
    ASSUME NameBooks, GrantInv, CountInv, BalanceInv, [Next]_vars
    PROVE  CountInv'
<1>0. TypeOK /\ EntryShape /\ FinishInv
  BY DEF NameBooks, AnswerInv
<1>1. \A c \in Caps : /\ refCount[c] \in Nat /\ peerRefs[c] \in Int /\ pregrant[c] \in Int
                      /\ peerRefs[c] >= 0 /\ pregrant[c] >= 0
  BY <1>0 DEF TypeOK, CountInv
<1>2. ASSUME UNCHANGED <<closed, registered, refCount, claimed, pregrant>>,
             \A c \in Caps : peerRefs'[c] = peerRefs[c]
      PROVE  CountInv'
  BY <1>2 DEF CountInv
<1>3. ASSUME NEW q \in Questions, NEW rel \in BOOLEAN, BridgeFinish(q, rel),
             UNCHANGED <<closed, pregrant>>, \A c \in Caps : peerRefs'[c] >= 0
      PROVE  CountInv'
  <2>1. CASE answerTable[q] = None
    BY <1>0, <1>1, <1>3, <2>1, CountKept DEF BridgeFinish, registry
  <2>2. CASE answerTable[q] # None
    <3>1. answerTable[q] \in Entries /\ ReleaseAnswerHeldCapabilities(answerTable[q], rel)
      BY <1>0, <1>3, <2>2 DEF BridgeFinish, TypeOK
    <3>2. /\ \A c \in Caps : /\ refCount'[c] \in Nat /\ refCount'[c] <= refCount[c]
                             /\ c \in registered \ registered' => refCount'[c] = 0
          /\ registered' \subseteq registered
          /\ claimed \cap registered' \subseteq claimed'
      BY <1>0, <3>1, ReleaseEffect, CapsAssumption
    <3>. QED
      BY <1>0, <1>3, <3>2, CountKept
  <2>. QED
    BY <2>1, <2>2
<1>4. ASSUME NEW q \in Questions, NEW rel \in BOOLEAN, FinishFrame(q, rel)
      PROVE  CountInv'
  <2>1. SendFinish(q, rel) /\ BridgeFinish(q, rel) /\ UNCHANGED <<closed, pregrant>>
    BY <1>4 DEF FinishFrame, SendFinish
  <2>2. \A c \in Caps : GivenBack(q, c) \in Nat
    BY <1>0, OccurrencesNat, NoneAssumption DEF GivenBack, TypeOK
  <2>3. ASSUME NEW c \in Caps
        PROVE  peerRefs'[c] >= 0
    <3>1. CASE ~rel
      BY <1>1, <2>1, <3>1 DEF SendFinish
    <3>2. CASE rel
      <4>1. GivenBack(q, c) <= peerRefs[c] /\ peerRefs'[c] = peerRefs[c] - GivenBack(q, c)
        BY <2>1, <3>2 DEF SendFinish
      <4>2. GivenBack(q, c) \in Int /\ peerRefs[c] \in Int
        BY <1>1, <2>2
      <4>. QED
        BY <4>1, <4>2
    <3>. QED
      BY <3>1, <3>2
  <2>. QED
    BY <1>3, <2>1, <2>3
<1>5. CASE ForwardFinish
  <2>1. finishing[1] \in Questions /\ finishing[2] \in BOOLEAN
        /\ BridgeFinish(finishing[1], finishing[2]) /\ UNCHANGED <<closed, peer>>
    BY <1>0, <1>5 DEF ForwardFinish, TypeOK
  <2>. QED
    BY <1>1, <1>3, <2>1 DEF peer
<1>6. ASSUME NEW e \in Entries, EvictionTimer(e)
      PROVE  CountInv'
  <2>1. UNCHANGED <<closed, peer>> /\ (UNCHANGED registry \/ ReleaseAnswerHeldCapabilities(e, FALSE))
    BY <1>6 DEF EvictionTimer
  <2>2. CASE UNCHANGED registry
    BY <1>2, <2>1, <2>2 DEF registry, peer
  <2>3. CASE ReleaseAnswerHeldCapabilities(e, FALSE)
    <3>1. /\ \A c \in Caps : /\ refCount'[c] \in Nat /\ refCount'[c] <= refCount[c]
                             /\ c \in registered \ registered' => refCount'[c] = 0
          /\ registered' \subseteq registered
          /\ claimed \cap registered' \subseteq claimed'
      BY <1>0, <2>3, ReleaseEffect, CapsAssumption
    <3>. QED
      BY <1>0, <1>1, <2>1, <3>1, CountKept DEF peer
  <2>. QED
    BY <2>1, <2>2, <2>3
<1>7. ASSUME NEW e \in Entries, Answers(e)
      PROVE  CountInv'
  <2>1. PICK taken, kept : AnswerSettles(e, taken, kept)
    BY <1>7, AnswersSettled
  <2>. QED
    BY <1>0, <2>1, CountSettled DEF AnswerSettles
<1>8. ASSUME NEW e \in Entries, BootstrapSettles(e)
      PROVE  CountInv'
  BY <1>0, <1>2, <1>8, BootstrapSettledOpen, CountSettled, BootstrapSettlesClosed
<1>9. ASSUME NEW q \in Questions, NEW e \in Entries, ObserveBootstrapResponse(q, e)
      PROVE  CountInv'
  BY <1>0, <1>9, BootstrapObserved, CountSettled
<1>10. CASE \E q \in Questions, e \in Entries : Asks(q, e)
  BY <1>2, <1>10, AsksEffect DEF Ask, registry
<1>11. CASE \/ UNCHANGED vars
            \/ \E q \in Questions : \E n : RejectCall(q, n)
            \/ \E q \in Questions, rel \in BOOLEAN : AnswerFinishedEvent(q, rel)
            \/ \E e \in Entries : BootstrapFails(e) \/ \E i : WakePipelinedCall(e, i)
  <2>1. UNCHANGED <<closed, registered, refCount, claimed, pregrant, peerRefs>>
    BY <1>11 DEF vars, registry, peer, RejectCall, AnswerFinishedEvent, BootstrapFails,
                 WakePipelinedCall
  <2>. QED
    BY <1>2, <2>1
<1>12. CASE CloseBridge /\ UNCHANGED peer
  BY <1>1, <1>12 DEF CloseBridge, peer, CountInv
<1>. QED
  BY <1>0, <1>4, <1>5, <1>6, <1>7, <1>8, <1>9, <1>10, <1>11, <1>12, CountStepCounts, Kinds

(***************************************************************************)
(* A direct bridge.                                                        *)
(***************************************************************************)
\* The question a caller finishes: what else it owns holds nothing, and what the
\* table has of another is not shared.
LEMMA FinishOwner ==
    ASSUME NameBooks, HoldInv, GrantInv, ~closed, NEW q \in Questions
    PROVE  /\ owner[q] # None /\ owner[q] # answerTable[q] => held[owner[q]] = {}
           /\ answerTable[q] # None /\ owner[q] # answerTable[q]
                  => held[answerTable[q]] \cap granted[answerTable[q]] = {}
<1>0. TypeOK /\ NamesInv /\ SharedInv
  BY DEF NameBooks, AnswerInv, GrantInv
<1>1. ASSUME owner[q] # None, owner[q] # answerTable[q]
      PROVE  held[owner[q]] = {}
  <2>1. owner[q] \in Entries /\ question[owner[q]] = q
    BY <1>0, <1>1 DEF NamesInv, TypeOK
  <2>. QED
    BY <1>1, <2>1 DEF HoldInv, HoldsExact, Live
<1>2. ASSUME answerTable[q] # None, owner[q] # answerTable[q]
      PROVE  held[answerTable[q]] \cap granted[answerTable[q]] = {}
  <2>1. answerTable[q] \in Entries /\ question[answerTable[q]] = q
    BY <1>0, <1>2 DEF NamesInv, TypeOK
  <2>. QED
    BY <1>0, <1>2, <2>1 DEF SharedInv
<1>. QED
  BY <1>1, <1>2

\* With the same books on both sides a Finish takes the same from both.
LEMMA DirectFinish ==
    ASSUME NameBooks, HoldInv, GrantInv, ~closed, granted = held,
           NEW q \in Questions, NEW rel, SendFinish(q, rel), BridgeFinish(q, rel)
    PROVE  granted' = held'
<1>0. TypeOK
  BY DEF NameBooks, AnswerInv
<1>1. /\ owner[q] # None /\ owner[q] # answerTable[q] => held[owner[q]] = {}
      /\ answerTable[q] # None /\ owner[q] # answerTable[q] => held[answerTable[q]] = {}
  BY FinishOwner
<1>2. /\ granted' = IF owner[q] = None THEN granted ELSE [granted EXCEPT ![owner[q]] = {}]
      /\ held' = IF answerTable[q] = None THEN held ELSE [held EXCEPT ![answerTable[q]] = {}]
  BY DEF SendFinish, BridgeFinish, ReleaseAnswerHeldCapabilities
<1>3. /\ granted' \in [Entries -> SUBSET Slots] /\ held' \in [Entries -> SUBSET Slots]
  BY <1>0, <1>2 DEF TypeOK
<1>4. ASSUME NEW x \in Entries
      PROVE  granted'[x] = held'[x]
  <2>1. /\ granted'[x] = IF x = owner[q] THEN {} ELSE held[x]
        /\ held'[x] = IF x = answerTable[q] THEN {} ELSE held[x]
    BY <1>0, <1>2, NoneAssumption DEF TypeOK
  <2>. QED
    BY <1>1, <2>1, NoneAssumption
<1>. QED
  BY <1>3, <1>4

LEMMA DirectStep ==
    ASSUME NameBooks, HoldInv, GrantInv, CountInv, BalanceInv, DirectInv,
           ~NoFinishReturns, [Next]_vars
    PROVE  DirectInv'
<1>1. SUFFICES ASSUME Direct
               PROVE  /\ timer' = {}
                      /\ ~closed' => granted' = held'
                      /\ ~closed' => \A q \in Questions : caller'[q] = "free" => answerTable'[q] = None
  BY DEF DirectInv
<1>2. /\ TypeOK /\ AnswerInv /\ ~WasmHost /\ ~EvictionEnabled /\ timer = {}
      /\ closed => closed'
      /\ ~closed => granted = held /\ \A q \in Questions : caller[q] = "free" => answerTable[q] = None
      /\ granted \in [Entries -> SUBSET Slots] /\ held \in [Entries -> SUBSET Slots]
  BY <1>1, ClosedStep DEF DirectInv, NameBooks, AnswerInv, Direct, TypeOK
<1>3. timer' = {}
  <2>1. \A e \in Entries : ~EvictionTimer(e)
    BY <1>2 DEF EvictionTimer
  <2>2. ASSUME NEW e, ScheduleEviction(e)
        PROVE  UNCHANGED timer
    BY <1>2, <2>2 DEF ScheduleEviction
  <2>3. ASSUME NEW e \in Entries, Answers(e) \/ BootstrapSettles(e)
        PROVE  UNCHANGED timer
    BY <2>2, <2>3 DEF Answers, CallSettles, ReturnAnswer, DiscardAnswer, BootstrapSettles
  <2>4. CASE \E q \in Questions, e \in Entries : ObserveBootstrapResponse(q, e)
    BY <1>2, <2>4 DEF ObserveBootstrapResponse
  <2>5. ASSUME NEW q, NEW rel, BridgeFinish(q, rel)
        PROVE  timer' = {}
    BY <1>2, <2>5 DEF BridgeFinish
  <2>6. CASE ForwardFinish \/ \E q \in Questions, rel \in BOOLEAN : FinishFrame(q, rel)
    BY <2>5, <2>6 DEF ForwardFinish, FinishFrame
  <2>7. CASE \E q \in Questions, e \in Entries : Asks(q, e)
    BY <1>2, <2>7, AsksEffect DEF eviction
  <2>8. CASE CloseBridge
    BY <1>2, <2>8 DEF CloseBridge
  <2>9. CASE \/ UNCHANGED vars
             \/ \E q \in Questions : \E n : RejectCall(q, n)
             \/ \E q \in Questions, rel \in BOOLEAN : AnswerFinishedEvent(q, rel)
             \/ \E e \in Entries : BootstrapFails(e) \/ \E i : WakePipelinedCall(e, i)
             \/ \E c \in Caps : Counts(c)
    <3>1. UNCHANGED timer
      BY <2>9 DEF vars, eviction, RejectCall, AnswerFinishedEvent, BootstrapFails,
                  WakePipelinedCall, Counts, ExportCapability, RetainCapability,
                  HandOver, ReleaseFrame, ReleaseOwn
    <3>. QED
      BY <1>2, <3>1
  <2>. QED
    BY <1>2, <2>1, <2>3, <2>4, <2>6, <2>7, <2>8, <2>9, Kinds
<1>4. SUFFICES ASSUME ~closed, ~closed'
               PROVE  /\ granted' = held'
                      /\ \A q \in Questions : caller'[q] = "free" => answerTable'[q] = None
  BY <1>2, <1>3
<1>5. /\ granted = held
      /\ \A q \in Questions : caller[q] = "free" => answerTable[q] = None
  BY <1>2, <1>4
<1>6. ASSUME NEW e, NEW taken, NEW first, Settled(e, taken, taken, first),
             held' \in [Entries -> SUBSET Slots], granted' \in [Entries -> SUBSET Slots]
      PROVE  granted' = held'
  <2>1. \A x \in Entries : granted'[x] = held'[x]
    BY <1>5, <1>6 DEF Settled
  <2>. QED
    BY <1>6, <2>1
<1>7. /\ held' \in [Entries -> SUBSET Slots] /\ granted' \in [Entries -> SUBSET Slots]
  <2>1. TypeOK'
    BY <1>2, AnswerInvStep DEF AnswerInv
  <2>. QED
    BY <2>1 DEF TypeOK
<1>8. ASSUME NEW e \in Entries, Answers(e)
      PROVE  /\ granted' = held'
             /\ \A q \in Questions : caller'[q] = "free" => answerTable'[q] = None
  <2>1. PICK taken, kept : AnswerSettles(e, taken, kept)
    BY <1>8, AnswersSettled
  <2>2. granted' = held'
    BY <1>1, <1>4, <1>6, <1>7, <2>1 DEF AnswerSettles
  <2>3. ASSUME NEW q \in Questions, caller'[q] = "free"
        PROVE  answerTable'[q] = None
    <3>1. UNCHANGED answerTable
      BY <1>8 DEF Answers, CallSettles
    <3>2. PICK table, nf, relayed :
              CallSettles(e, table, nf, relayed) /\ (~relayed => WasmHost) /\ (nf => NoFinishReturns)
      BY <1>8 DEF Answers
    <3>3. CASE UNCHANGED peer
      BY <1>5, <2>3, <3>1, <3>3 DEF peer
    <3>4. CASE ~UNCHANGED peer
      <4>1. Live(e) /\ Deliver(e, table, Tracked(table), nf) /\ (nf => NoFinishReturns)
        BY <1>2, <3>2, <3>4 DEF CallSettles, ReturnAnswer, DiscardAnswer
      <4>2. /\ caller[question[e]] = "open" \/ answerTable[question[e]] = None
            /\ question[e] \in Questions
        BY <1>2, <1>4, <3>4, <4>1 DEF GrantInv, Asked, Deliver, TypeOK, CallerStates, Live
      <4>3. caller[question[e]] = "open"
        BY <4>1, <4>2, NoneAssumption DEF Live
      <4>. QED
        BY <1>2, <1>5, <2>3, <3>1, <4>1, <4>2, <4>3 DEF Deliver, TypeOK
    <3>. QED
      BY <3>3, <3>4
  <2>. QED
    BY <2>2, <2>3
<1>9. ASSUME NEW e \in Entries, BootstrapSettles(e)
      PROVE  /\ granted' = held'
             /\ \A q \in Questions : caller'[q] = "free" => answerTable'[q] = None
  <2>1. Settled(e, RootSlots, RootSlots, FirstGrant)
    BY <1>4, <1>9, BootstrapSettledOpen
  <2>2. granted' = held'
    BY <1>6, <1>7, <2>1
  <2>3. /\ question[e] \in Questions /\ caller[question[e]] = "open" /\ UNCHANGED answerTable
        /\ DeliverBootstrap(question[e], e)
    BY <1>2, <1>4, <1>9 DEF BootstrapSettles, AnswerInv, EntryShape, NameBooks, BootInv
  <2>4. \A q \in Questions : caller'[q] = "free" => answerTable'[q] = None
    BY <1>2, <1>5, <2>3 DEF DeliverBootstrap, TypeOK
  <2>. QED
    BY <2>2, <2>4
<1>10. ASSUME NEW q \in Questions, NEW rel \in BOOLEAN, FinishFrame(q, rel)
       PROVE  /\ granted' = held'
              /\ \A r \in Questions : caller'[r] = "free" => answerTable'[r] = None
  <2>1. SendFinish(q, rel) /\ BridgeFinish(q, rel)
    BY <1>10 DEF FinishFrame
  <2>2. granted' = held'
    BY <1>4, <1>5, <2>1, DirectFinish
  <2>3. \A r \in Questions : caller'[r] = "free" => answerTable'[r] = None
    BY <1>2, <1>5, <2>1 DEF SendFinish, BridgeFinish, TypeOK
  <2>. QED
    BY <2>2, <2>3
<1>11. ASSUME NEW q \in Questions, NEW e \in Entries, Asks(q, e)
       PROVE  /\ granted' = held'
              /\ \A r \in Questions : caller'[r] = "free" => answerTable'[r] = None
  <2>1. PICK n, p : Register(q, e, n, p)
    BY <1>11, AsksEffect DEF Registers
  <2>2. Ask(q, e) /\ UNCHANGED <<held, granted>>
    BY <1>11, AsksEffect DEF Ask
  <2>. QED
    BY <1>2, <1>5, <2>1, <2>2 DEF Register, Ask, TypeOK
<1>12. ASSUME NEW q \in Questions, NEW n, RejectCall(q, n)
       PROVE  /\ granted' = held'
              /\ \A r \in Questions : caller'[r] = "free" => answerTable'[r] = None
  BY <1>2, <1>5, <1>12 DEF RejectCall, TypeOK
<1>13. ASSUME NEW e \in Entries, BootstrapFails(e)
       PROVE  /\ granted' = held'
              /\ \A r \in Questions : caller'[r] = "free" => answerTable'[r] = None
  BY <1>2, <1>5, <1>13 DEF BootstrapFails, peer, TypeOK
<1>14. CASE \/ UNCHANGED vars
            \/ \E e \in Entries : \E i : WakePipelinedCall(e, i)
            \/ \E c \in Caps : Counts(c)
  <2>1. UNCHANGED <<granted, held, caller, answerTable>>
    BY <1>14 DEF vars, peer, WakePipelinedCall, Counts, ExportCapability,
                 RetainCapability, HandOver, ReleaseFrame, ReleaseOwn
  <2>. QED
    BY <1>5, <2>1
<1>15. /\ ~CloseBridge /\ ~ForwardFinish
       /\ \A q \in Questions : \A rel \in BOOLEAN : ~AnswerFinishedEvent(q, rel)
       /\ \A q \in Questions : \A e \in Entries : ~ObserveBootstrapResponse(q, e)
       /\ \A e \in Entries : ~EvictionTimer(e)
  BY <1>2, <1>4 DEF CloseBridge, ForwardFinish, AnswerFinishedEvent, ReportsFinish,
                    ObserveBootstrapResponse, EvictionTimer, NameBooks, FinishInv
<1>. QED
  BY <1>8, <1>9, <1>10, <1>11, <1>12, <1>13, <1>14, <1>15, Kinds

(***************************************************************************)
(* The balance.                                                            *)
(***************************************************************************)
\* Giving an answer's holds up, without its references.
LEMMA BalanceReleased ==
    ASSUME TypeOK, NEW e \in Entries, NEW rel \in BOOLEAN,
           ReleaseAnswerHeldCapabilities(e, rel), UNCHANGED <<capTable, pregrant>>,
           \A x \in Entries \ {e} : held[x] \ granted'[x] = held[x] \ granted[x],
           NEW c \in Caps, peerRefs'[c] \in Int,
           NEW given \in Int, peerRefs'[c] = peerRefs[c] - given,
           IF rel THEN Occurrences(capTable[e], held[e], c)
                           <= Occurrences(capTable[e], held[e] \ granted[e], c) + given
                  ELSE given = 0
    PROVE  Balance(c)' >= Balance(c)
<1>. DEFINE taken == Occurrences(capTable[e], held[e], c)
            lost == Occurrences(capTable[e], held[e] \ granted[e], c)
<1>1. /\ held'[e] = {} /\ \A x \in Entries \ {e} : held'[x] = held[x]
  BY DEF ReleaseAnswerHeldCapabilities, TypeOK
<1>2. \A x \in Entries \ {e} : held'[x] \ granted'[x] = held[x] \ granted[x]
  BY <1>1
<1>3. held'[e] \ granted'[e] = {}
  BY <1>1
<1>4. Cardinality(Ungranted(c)') = Cardinality(Ungranted(c)) - lost
  BY <1>2, <1>3, UngrantedDropped
<1>5. taken \in Nat /\ lost \in Nat
  BY OccurrencesNat DEF TypeOK
<1>6. refCount'[c] = IF rel THEN Monus(refCount[c], taken) ELSE refCount[c]
  BY ReleaseEffect
<1>7. IF rel THEN taken <= lost + given ELSE given = 0
  OBVIOUS
<1>8. /\ refCount[c] \in Int /\ peerRefs[c] \in Int /\ pregrant[c] \in Int
      /\ Cardinality(Ungranted(c)) \in Int
  BY UngrantedFinite DEF TypeOK
<1>. HIDE DEF taken, lost
<1>9. refCount'[c] \in Int /\ refCount'[c] + lost + given >= refCount[c]
  BY <1>5, <1>6, <1>7, <1>8 DEF Monus
<1>10. Balance(c)' = refCount'[c] - (peerRefs[c] - given) - pregrant[c]
                          - (Cardinality(Ungranted(c)) - lost)
  BY <1>4 DEF Balance
<1>. QED
  BY <1>5, <1>8, <1>9, <1>10 DEF Balance

\* Nothing is given back twice: what the answer in the table still held of its
\* references is what its caller gives back, or was never granted.
LEMMA FinishShares ==
    ASSUME NameBooks, HoldInv, GrantInv, ~closed, NEW q \in Questions,
           answerTable[q] # None, NEW c \in Caps
    PROVE  LET e == answerTable[q] IN
           /\ GivenBack(q, c) \in Nat
           /\ Occurrences(capTable[e], held[e], c)
                  <= Occurrences(capTable[e], held[e] \ granted[e], c) + GivenBack(q, c)
           /\ granted = held => Occurrences(capTable[e], held[e], c) = GivenBack(q, c)
<1>. DEFINE e == answerTable[q]
            T == capTable[e]
            H == held[e]
            G == granted[e]
<1>0. TypeOK /\ e \in Entries /\ H \in SUBSET Slots /\ G \in SUBSET Slots
  BY DEF NameBooks, AnswerInv, TypeOK
<1>1. /\ owner[q] # None /\ owner[q] # e => held[owner[q]] = {}
      /\ owner[q] # e => H \cap G = {}
      /\ owner[q] \in Entries \cup {None}
  BY <1>0, FinishOwner DEF TypeOK
<1>2. GivenBack(q, c) \in Nat
  BY <1>0, <1>1, OccurrencesNat, NoneAssumption DEF GivenBack, TypeOK
<1>3. /\ Occurrences(T, H \ G, c) \in Nat /\ Occurrences(T, H, c) \in Nat
      /\ Occurrences(T, H \cap G, c) \in Nat /\ Occurrences(T, G \ H, c) \in Nat
  <2>1. /\ H \ G \in SUBSET Slots /\ H \cap G \in SUBSET Slots /\ G \ H \in SUBSET Slots
    BY <1>0
  <2>. QED
    BY ONLY <1>0, <2>1, OccurrencesNat
<1>4. Occurrences(T, H, c) = Occurrences(T, H \cap G, c) + Occurrences(T, H \ G, c)
  <2>1. H = (H \cap G) \cup (H \ G) /\ (H \cap G) \cap (H \ G) = {}
    OBVIOUS
  <2>. HIDE DEF H, G, T
  <2>. QED
    BY <1>0, <2>1, OccurrencesSplit
<1>5. CASE owner[q] = e
  <2>1. GivenBack(q, c) = Occurrences(T, G, c)
    BY <1>0, <1>5, NoneAssumption DEF GivenBack
  <2>2. Occurrences(T, G, c) = Occurrences(T, H \cap G, c) + Occurrences(T, G \ H, c)
    <3>1. G = (H \cap G) \cup (G \ H) /\ (H \cap G) \cap (G \ H) = {}
      OBVIOUS
    <3>. HIDE DEF H, G, T
    <3>. QED
      BY <1>0, <3>1, OccurrencesSplit
  <2>3. granted = held => G = H
    OBVIOUS
  <2>. HIDE DEF H, G, T
  <2>4. Occurrences(T, H, c) <= Occurrences(T, H \ G, c) + GivenBack(q, c)
    BY <1>3, <1>4, <2>1, <2>2
  <2>. QED
    BY <1>2, <2>1, <2>3, <2>4 DEF H, G, T
<1>6. CASE owner[q] # e
  <2>1. H \ G = H
    BY <1>1, <1>6
  <2>2. granted = held => Occurrences(T, H, c) = 0 /\ GivenBack(q, c) = 0
    <3>1. ASSUME granted = held
          PROVE  H = {} /\ (owner[q] = None \/ granted[owner[q]] = {})
      BY <1>1, <1>6, <3>1
    <3>2. \A t : Occurrences(t, {}, c) = 0
      BY OccurrencesNone
    <3>. QED
      BY <3>1, <3>2 DEF GivenBack
  <2>. QED
    BY <1>2, <1>3, <2>1, <2>2
<1>. QED
  BY <1>5, <1>6

\* A Finish leaves the balance, or raises it by what was granted and not held.
LEMMA BalanceFinish ==
    ASSUME NameBooks, HoldInv, GrantInv, CountInv, BalanceInv, DirectInv, ~closed,
           NEW q \in Questions, NEW rel \in BOOLEAN, FinishFrame(q, rel), NEW c \in Caps
    PROVE  Balance(c)' >= Balance(c) /\ (Direct => Balance(c)' = Balance(c))
<1>0. TypeOK /\ (Direct => granted = held) /\ TypeOK'
  <2>1. [Next]_vars
    BY DEF Next
  <2>. QED
    BY <2>1, AnswerInvStep DEF NameBooks, AnswerInv, DirectInv
<1>1. /\ SendFinish(q, rel) /\ BridgeFinish(q, rel) /\ UNCHANGED <<capTable, pregrant>>
  BY DEF FinishFrame, SendFinish, entries
<1>2. /\ refCount[c] \in Nat /\ peerRefs[c] \in Nat /\ pregrant[c] \in Nat
      /\ Cardinality(Ungranted(c)) \in Nat /\ peerRefs[c] <= refCount[c]
      /\ peerRefs'[c] \in Int /\ refCount'[c] \in Int
  BY <1>0, Covered DEF TypeOK
<1>. DEFINE e == answerTable[q]
            o == owner[q]
            given == IF rel THEN GivenBack(q, c) ELSE 0
<1>3. GivenBack(q, c) \in Nat
  BY <1>0, OccurrencesNat, NoneAssumption DEF GivenBack, TypeOK
<1>4. /\ given \in Nat /\ given <= peerRefs[c] /\ peerRefs'[c] = peerRefs[c] - given
  BY <1>1, <1>2, <1>3 DEF SendFinish
<1>5. /\ o # None /\ o # e => held[o] = {}
  BY FinishOwner
<1>6. /\ granted' = IF o = None THEN granted ELSE [granted EXCEPT ![o] = {}]
      /\ \A x \in Entries : x # e => held[x] \ granted'[x] = held[x] \ granted[x]
  BY <1>0, <1>1, <1>5 DEF SendFinish, TypeOK
<1>7. CASE e = None
  <2>1. /\ UNCHANGED <<registry, held>> /\ \A x \in Entries : x # e
    BY <1>1, <1>7, NoneAssumption DEF BridgeFinish
  <2>2. Ungranted(c)' = Ungranted(c)
    BY <1>1, <1>6, <2>1, UngrantedKept
  <2>3. Balance(c)' = refCount[c] - (peerRefs[c] - given) - pregrant[c] - Cardinality(Ungranted(c))
    BY <1>1, <1>4, <2>1, <2>2 DEF Balance, registry
  <2>4. Direct => given = 0
    <3>1. \A t : Occurrences(t, {}, c) = 0
      BY OccurrencesNone
    <3>. QED
      BY <1>0, <1>5, <1>7, <3>1 DEF GivenBack
  <2>. HIDE DEF given
  <2>. QED
    BY <1>2, <1>4, <2>3, <2>4 DEF Balance
<1>8. CASE e # None
  <2>1. e \in Entries /\ ReleaseAnswerHeldCapabilities(e, rel)
    BY <1>0, <1>1, <1>8 DEF BridgeFinish, TypeOK
  <2>2. /\ Occurrences(capTable[e], held[e], c)
               <= Occurrences(capTable[e], held[e] \ granted[e], c) + GivenBack(q, c)
        /\ granted = held => Occurrences(capTable[e], held[e], c) = GivenBack(q, c)
    BY <1>8, FinishShares
  <2>3. IF rel THEN Occurrences(capTable[e], held[e], c)
                        <= Occurrences(capTable[e], held[e] \ granted[e], c) + given
               ELSE given = 0
    BY <2>2
  <2>4. given \in Int
    BY <1>4
  <2>5. Balance(c)' >= Balance(c)
    <3>. HIDE DEF given, e
    <3>. QED
      BY <1>0, <1>1, <1>2, <1>4, <1>6, <2>1, <2>3, <2>4, BalanceReleased
  <2>6. ASSUME Direct
        PROVE  Balance(c)' = Balance(c)
    <3>1. granted = held /\ Occurrences(capTable[e], held[e], c) = GivenBack(q, c)
      BY <1>0, <2>2, <2>6
    <3>2. refCount'[c] = IF rel THEN Monus(refCount[c], GivenBack(q, c)) ELSE refCount[c]
      BY <1>0, <2>1, <3>1, ReleaseEffect
    <3>3. refCount'[c] = refCount[c] - given
      BY <1>2, <1>3, <1>4, <3>2 DEF Monus
    <3>4. Ungranted(c)' = Ungranted(c)
      <4>1. granted' = held'
        BY <1>1, <3>1, DirectFinish
      <4>2. \A x \in Entries : held'[x] \ granted'[x] = held[x] \ granted[x]
        BY <3>1, <4>1
      <4>. QED
        BY <1>1, <4>2, UngrantedKept
    <3>. HIDE DEF given
    <3>. QED
      BY <1>1, <1>2, <1>4, <3>3, <3>4 DEF Balance
  <2>. QED
    BY <2>5, <2>6
<1>. QED
  BY <1>7, <1>8

\* What is exported, retained or dropped is counted on both sides.
LEMMA BalanceCounts ==
    ASSUME NameBooks, CountInv, BalanceInv, ~closed,
           NEW x \in Caps, Counts(x), NEW c \in Caps
    PROVE  Balance(c)' = Balance(c) \/ Balance(c)' = 0
<1>0. TypeOK /\ FinishInv
  BY DEF NameBooks, AnswerInv
<1>1. /\ \A y \in Caps : refCount[y] \in Int /\ peerRefs[y] \in Int /\ pregrant[y] \in Int
      /\ refCount \in [Caps -> Int] /\ peerRefs \in [Caps -> Int] /\ pregrant \in [Caps -> Int]
  BY <1>0 DEF TypeOK
<1>2. Ungranted(c)' = Ungranted(c) /\ Cardinality(Ungranted(c)) \in Int
  <2>1. UNCHANGED <<held, granted, capTable>>
    BY DEF Counts, ExportCapability, RetainCapability, HandOver, ReleaseFrame,
           ReleaseOwn, entries
  <2>. QED
    BY <2>1, UngrantedKept, UngrantedFinite
<1>3. ASSUME NEW n \in 0 .. 1, ExportCapability(x, n)
      PROVE  Balance(c)' = Balance(c) \/ Balance(c)' = 0
  <2>1. CASE UNCHANGED <<refCount, pregrant>>
    BY <1>2, <1>3, <2>1 DEF ExportCapability, Balance
  <2>2. CASE x \notin registered
    <3>1. /\ refCount' = [refCount EXCEPT ![x] = n] /\ pregrant' = [pregrant EXCEPT ![x] = n]
          /\ UNCHANGED peerRefs /\ n \in Int
      BY <1>3, <2>2 DEF ExportCapability
    <3>2. CASE c # x
      BY <1>1, <1>2, <3>1, <3>2 DEF Balance
    <3>3. CASE c = x
      <4>1. peerRefs[c] = 0 /\ Cardinality(Ungranted(c)) = 0
        <5>1. refCount[c] = 0
          BY <2>2, <3>3 DEF CountInv
        <5>. QED
          BY <1>0, <5>1, Covered
      <4>. QED
        BY <1>1, <1>2, <3>1, <3>3, <4>1 DEF Balance
    <3>. QED
      BY <3>2, <3>3
  <2>. QED
    BY <1>3, <2>1, <2>2 DEF ExportCapability
<1>4. CASE RetainCapability(x)
  <2>1. /\ refCount' = [refCount EXCEPT ![x] = @ + 1] /\ pregrant' = [pregrant EXCEPT ![x] = @ + 1]
        /\ UNCHANGED peerRefs
    BY <1>4 DEF RetainCapability
  <2>. QED
    BY <1>1, <1>2, <2>1 DEF Balance
<1>5. CASE HandOver(x)
  <2>1. /\ pregrant' = [pregrant EXCEPT ![x] = @ - 1] /\ peerRefs' = [peerRefs EXCEPT ![x] = @ + 1]
        /\ UNCHANGED refCount
    BY <1>5 DEF HandOver, registry
  <2>. QED
    BY <1>1, <1>2, <2>1 DEF Balance
<1>6. ASSUME NEW n \in 1 .. MaxReferenceCount, ReleaseFrame(x, n)
      PROVE  Balance(c)' = Balance(c)
  <2>1. DropReferences(x, n) /\ n \in Int
    BY <1>0, <1>6, ReleaseDrops, CapsAssumption
  <2>2. /\ refCount' = [refCount EXCEPT ![x] = @ - n] /\ peerRefs' = [peerRefs EXCEPT ![x] = @ - n]
        /\ UNCHANGED pregrant
    BY <1>6, <2>1 DEF ReleaseFrame, DropReferences
  <2>. QED
    BY <1>1, <1>2, <2>1, <2>2 DEF Balance
<1>7. CASE ReleaseOwn(x)
  <2>1. /\ refCount' = [refCount EXCEPT ![x] = @ - 1] /\ pregrant' = [pregrant EXCEPT ![x] = @ - 1]
        /\ UNCHANGED peerRefs
    BY <1>7 DEF ReleaseOwn, DropReferences
  <2>. QED
    BY <1>1, <1>2, <2>1 DEF Balance
<1>. QED
  BY <1>3, <1>4, <1>5, <1>6, <1>7 DEF Counts

LEMMA BalanceStep ==
    ASSUME NameBooks, HoldInv, GrantInv, CountInv, BalanceInv, DirectInv, [Next]_vars
    PROVE  BalanceInv'
<1>0. /\ TypeOK /\ TypeOK' /\ FinishInv
      /\ closed => closed'
  BY AnswerInvStep, ClosedStep DEF NameBooks, AnswerInv
<1>1. SUFFICES ASSUME ~closed, ~closed', NEW c \in Caps
               PROVE  Balance(c)' >= 0 /\ (Direct => Balance(c)' = 0)
  BY <1>0 DEF BalanceInv, Direct
<1>2. /\ Balance(c) >= 0 /\ (Direct => Balance(c) = 0)
      /\ Balance(c) \in Int /\ Balance(c)' \in Int
  <2>1. /\ refCount[c] \in Int /\ peerRefs[c] \in Int /\ pregrant[c] \in Int
        /\ Cardinality(Ungranted(c)) \in Int
    BY <1>0, UngrantedFinite DEF TypeOK
  <2>2. (refCount[c] \in Int /\ peerRefs[c] \in Int /\ pregrant[c] \in Int)'
    BY <1>0 DEF TypeOK
  <2>3. Cardinality(Ungranted(c)') \in Int
    <3>1. IsFiniteSet(Entries \X Slots)
      BY SetsAssumption, FS_Product
    <3>2. Ungranted(c)' \in SUBSET (Entries \X Slots)
      BY DEF Ungranted
    <3>. QED
      BY <3>1, <3>2, FS_Subset, FS_CardinalityType
  <2>. QED
    BY <1>1, <2>1, <2>2, <2>3 DEF Balance, BalanceInv
<1>3. ASSUME Balance(c)' = Balance(c) \/ Balance(c)' = 0
      PROVE  Balance(c)' >= 0 /\ (Direct => Balance(c)' = 0)
  BY <1>2, <1>3
<1>4. ASSUME NEW e \in Entries, Answers(e)
      PROVE  Balance(c)' = Balance(c)
  <2>1. PICK taken, kept : AnswerSettles(e, taken, kept)
    BY <1>4, AnswersSettled
  <2>. QED
    BY <1>0, <2>1, BalanceSettled DEF AnswerSettles
<1>5. ASSUME NEW e \in Entries, BootstrapSettles(e)
      PROVE  Balance(c)' = Balance(c)
  BY <1>0, <1>1, <1>5, BootstrapSettledOpen, BalanceSettled
<1>6. ASSUME NEW q \in Questions, NEW e \in Entries, ObserveBootstrapResponse(q, e)
      PROVE  Balance(c)' = Balance(c)
  BY <1>0, <1>6, BootstrapObserved, BalanceSettled
<1>7. ASSUME NEW q \in Questions, NEW rel \in BOOLEAN, FinishFrame(q, rel)
      PROVE  Balance(c)' >= 0 /\ (Direct => Balance(c)' = 0)
  <2>1. Balance(c)' >= Balance(c) /\ (Direct => Balance(c)' = Balance(c))
    BY <1>1, <1>7, BalanceFinish
  <2>. QED
    BY <1>2, <2>1
<1>8. ASSUME NEW e \in Entries, NEW rel \in BOOLEAN, ReleaseAnswerHeldCapabilities(e, rel),
             UNCHANGED <<capTable, peer>>, rel => granted[e] = {}
      PROVE  Balance(c)' >= Balance(c)
  <2>1. /\ UNCHANGED <<capTable, pregrant, granted, peerRefs>>
        /\ peerRefs'[c] \in Int /\ 0 \in Int /\ peerRefs'[c] = peerRefs[c] - 0
    BY <1>0, <1>8 DEF peer, TypeOK
  <2>2. Occurrences(capTable[e], held[e], c) \in Nat
    BY <1>0, OccurrencesNat DEF TypeOK
  <2>3. rel => held[e] \ granted[e] = held[e]
    BY <1>8
  <2>4. IF rel THEN Occurrences(capTable[e], held[e], c)
                        <= Occurrences(capTable[e], held[e] \ granted[e], c) + 0
               ELSE 0 = 0
    BY <2>2, <2>3
  <2>. QED
    BY <1>0, <1>8, <2>1, <2>4, BalanceReleased
<1>9. ASSUME UNCHANGED <<refCount, peerRefs, pregrant, held, granted>>,
             \A x \in Entries : held[x] # {} => capTable'[x] = capTable[x]
      PROVE  Balance(c)' = Balance(c)
  <2>1. Ungranted(c)' = Ungranted(c)
    BY <1>9, UngrantedKept
  <2>. QED
    BY <1>9, <2>1 DEF Balance
<1>10. CASE ForwardFinish
  <2>1. /\ finishing[1] \in Questions /\ finishing[2] \in BOOLEAN
        /\ BridgeFinish(finishing[1], finishing[2]) /\ UNCHANGED <<capTable, peer>>
        /\ WasmHost /\ caller[finishing[1]] = "free"
    BY <1>0, <1>10 DEF ForwardFinish, TypeOK, entries, FinishInv
  <2>2. CASE answerTable[finishing[1]] = None
    <3>1. Balance(c)' = Balance(c)
      BY <1>9, <2>1, <2>2 DEF BridgeFinish, registry, peer
    <3>. QED
      BY <1>3, <3>1
  <2>3. CASE answerTable[finishing[1]] # None
    <3>1. /\ answerTable[finishing[1]] \in Entries
          /\ ReleaseAnswerHeldCapabilities(answerTable[finishing[1]], finishing[2])
          /\ granted[answerTable[finishing[1]]] = {}
      BY <1>0, <1>1, <2>1, <2>3 DEF BridgeFinish, TypeOK, GrantInv, Asked, Pending
    <3>2. Balance(c)' >= Balance(c)
      BY <1>8, <2>1, <3>1
    <3>. QED
      BY <1>2, <2>1, <3>2 DEF Direct
  <2>. QED
    BY <2>2, <2>3
<1>11. ASSUME NEW e \in Entries, EvictionTimer(e)
       PROVE  Balance(c)' >= 0 /\ (Direct => Balance(c)' = 0)
  <2>1. /\ UNCHANGED <<capTable, peer>> /\ ~Direct
        /\ UNCHANGED <<registry, held>> \/ ReleaseAnswerHeldCapabilities(e, FALSE)
    BY <1>11 DEF EvictionTimer, DirectInv, entries
  <2>2. CASE UNCHANGED <<registry, held>>
    <3>1. Balance(c)' = Balance(c)
      BY <1>9, <2>1, <2>2 DEF registry, peer
    <3>. QED
      BY <1>3, <3>1
  <2>3. CASE ReleaseAnswerHeldCapabilities(e, FALSE)
    <3>1. Balance(c)' >= Balance(c)
      BY <1>8, <2>1, <2>3
    <3>. QED
      BY <1>2, <2>1, <3>1
  <2>. QED
    BY <2>1, <2>2, <2>3
<1>12. CASE \/ UNCHANGED vars
            \/ \E q \in Questions : \E n : RejectCall(q, n)
            \/ \E q \in Questions, e \in Entries : Asks(q, e)
            \/ \E q \in Questions, rel \in BOOLEAN : AnswerFinishedEvent(q, rel)
            \/ \E e \in Entries : BootstrapFails(e)
            \/ \E e \in Entries : \E i : WakePipelinedCall(e, i)
  <2>1. /\ UNCHANGED <<refCount, peerRefs, pregrant, held, granted>>
        /\ \A x \in Entries : held[x] # {} => capTable'[x] = capTable[x]
    <3>1. CASE \E q \in Questions, e \in Entries : Asks(q, e)
      BY <3>1, AsksEffect DEF Ask, registry
    <3>2. ASSUME NEW e \in Entries, BootstrapFails(e)
          PROVE  /\ UNCHANGED <<refCount, peerRefs, pregrant, held, granted, capTable>>
      BY <3>2 DEF BootstrapFails, registry, peer
    <3>3. CASE \/ UNCHANGED vars
               \/ \E q \in Questions : \E n : RejectCall(q, n)
               \/ \E q \in Questions, rel \in BOOLEAN : AnswerFinishedEvent(q, rel)
               \/ \E e \in Entries : \E i : WakePipelinedCall(e, i)
      BY <3>3 DEF vars, RejectCall, AnswerFinishedEvent, WakePipelinedCall, registry,
                  peer, entries
    <3>. QED
      BY <1>12, <3>1, <3>2, <3>3
  <2>. QED
    BY <1>3, <1>9, <2>1
<1>13. ASSUME NEW x \in Caps, Counts(x)
       PROVE  Balance(c)' >= 0 /\ (Direct => Balance(c)' = 0)
  BY <1>1, <1>3, <1>13, BalanceCounts
<1>14. ~CloseBridge
  BY <1>1 DEF CloseBridge
<1>. QED
  BY <1>3, <1>4, <1>5, <1>6, <1>7, <1>10, <1>11, <1>12, <1>13, <1>14, Kinds

(***************************************************************************)
(* The books agree.                                                        *)
(***************************************************************************)
Books == NameBooks /\ HoldInv /\ GrantInv /\ CountInv /\ BalanceInv /\ DirectInv

LEMMA BooksInit == Init => Books
<1>1. SUFFICES ASSUME Init PROVE Books
  OBVIOUS
<1>2. AnswerInv /\ HoldInv
  BY <1>1, AnswerInit
<1>3. NamesInv /\ FinishInv /\ BootInv /\ TimerInv /\ DirectInv
  BY <1>1 DEF Init, NamesInv, FinishInv, BootInv, TimerInv, DirectInv
<1>4. GrantInv
  BY <1>1 DEF Init, GrantInv, DoneInv, Asked, SharedInv, Pending
<1>5. CountInv
  BY <1>1, CapsAssumption DEF Init, CountInv
<1>6. ASSUME NEW c \in Caps
      PROVE  Balance(c) = 0
  <2>1. Ungranted(c) = {}
    BY <1>1 DEF Init, Ungranted
  <2>2. refCount[c] = pregrant[c] /\ peerRefs[c] = 0 /\ pregrant[c] \in Int
    BY <1>1 DEF Init
  <2>. QED
    BY <2>1, <2>2, FS_EmptySet DEF Balance
<1>7. BalanceInv
  BY <1>6 DEF BalanceInv
<1>. QED
  BY <1>2, <1>3, <1>4, <1>5, <1>7 DEF Books, NameBooks

LEMMA BooksStep ==
    ASSUME Protocol, Books, [Next]_vars
    PROVE  Books'
<1>1. /\ ~EarlyBootstrapFinish /\ ~NoFinishReturns /\ NameBooks
      /\ AnswerInv /\ NamesInv /\ FinishInv /\ BootInv /\ TimerInv /\ TypeOK /\ EntryShape
      /\ HoldInv /\ GrantInv /\ CountInv /\ BalanceInv /\ DirectInv
  BY DEF Protocol, Books, NameBooks, AnswerInv
<1>2. NameBooks'
  BY <1>1, AnswerInvStep, NamesStep, FinishStep, BootStep, TimerStep DEF NameBooks
<1>3. HoldInv' /\ GrantInv' /\ CountInv'
  BY <1>1, HoldInvStep, GrantStep, CountStep
<1>4. BalanceInv' /\ DirectInv'
  BY <1>1, BalanceStep, DirectStep
<1>. QED
  BY <1>2, <1>3, <1>4 DEF Books

LEMMA BooksHold == ASSUME Protocol PROVE Spec => []Books
BY BooksInit, BooksStep, PTL DEF Spec

\* The bridge never drops the registration of a capability its caller holds a
\* reference to: not in a Release or a Finish, not when an answer is evicted.  The
\* two hypotheses are what the caller and the handlers keep to: a Bootstrap is not
\* finished before its answer, no Return says that it needs no Finish.
THEOREM HeldCapabilitiesStay == ASSUME Protocol PROVE Spec => []NoPrematureDrop
<1>1. Books => NoPrematureDrop
  <2>1. SUFFICES ASSUME Books, ~closed, NEW c \in Caps, peerRefs[c] > 0
                 PROVE  c \in registered
    BY DEF NoPrematureDrop
  <2>2. TypeOK /\ CountInv /\ BalanceInv
    BY <2>1 DEF Books, NameBooks, AnswerInv
  <2>3. refCount[c] # 0
    BY <2>1, <2>2, Covered
  <2>. QED
    BY <2>1, <2>2, <2>3 DEF CountInv
<1>. QED
  BY <1>1, BooksHold, PTL

\* On the direct path, without evictions, the registry counts exactly the
\* references its caller can still give back and those granted out of band, and a
\* question its caller has retired has no entry.
THEOREM BooksAgree ==
    ASSUME Protocol, Direct
    PROVE  Spec => []CallerMirrored
<1>1. Books => CallerMirrored
  <2>1. SUFFICES ASSUME Books, ~closed PROVE CallerMirrored
    BY DEF CallerMirrored, WireMirror, RetiredQuestionsLeaveNoEntry
  <2>2. /\ TypeOK /\ CountInv /\ BalanceInv /\ granted = held
        /\ \A q \in Questions : caller[q] = "free" => answerTable[q] = None
    BY <2>1 DEF Books, NameBooks, AnswerInv, DirectInv
  <2>3. ASSUME NEW c \in Caps
        PROVE  refCount[c] = peerRefs[c] + pregrant[c]
    <3>1. Ungranted(c) = {}
      BY <2>2 DEF Ungranted
    <3>2. Cardinality(Ungranted(c)) = 0
      BY <3>1, FS_EmptySet
    <3>. QED
      BY <2>1, <2>2, <3>2, Covered
  <2>. QED
    BY <2>2, <2>3 DEF CallerMirrored, WireMirror, RetiredQuestionsLeaveNoEntry
<1>. QED
  BY <1>1, BooksHold, PTL
=============================================================================
