-------------------------- MODULE RpcClientProofs --------------------------
(* Theorems about RpcClient: its tables of questions and its record of the     *)
(* references that calls granted.                                              *)
EXTENDS RpcClient, SequenceTheorems, TLAPS

(***************************************************************************)
(* The invariant.                                                          *)
(***************************************************************************)
\* A call has no outcome before it is sent.
Fresh ==
    \A q \in Calls : phase[q] \in {"idle", "queued", "opening", "sending"}
                         => outcome[q] = "none"

\* callRaw() holds the chain until it is done.
HoldsChain ==
    \A q \in RawCalls : phase[q] \in {"waiting", "finishing"} => AtHead(q)

\* The peer has only what was sent, and answers only what it has.
Heard ==
    /\ \A q \in asked : phase[q] \notin {"idle", "queued", "opening"}
    /\ \A i \in DOMAIN frames : frames[i] # Callback =>
           frames[i].answerId \in asked /\ returns[frames[i].answerId] >= 1

\* Before a call is sent nothing is given back, and its grants are on record while
\* it is on its way.
OnRecord ==
    \A q \in WithCaps :
        /\ phase[q] \in {"idle", "queued", "opening"} => spent[q] = 0
        /\ ~closed /\ phase[q] = "sending" /\ q \notin asked => q \in grants

Inv == TablesExact /\ Fresh /\ HoldsChain /\ Heard /\ OnRecord /\ GrantsSettleOnce

(***************************************************************************)
(* Frames.                                                                 *)
(***************************************************************************)
LEMMA FrameRead ==
    ASSUME TypeOK, Heard, frames # <<>>, NEW f, f = Head(frames), f # Callback
    PROVE  /\ f \in ReturnFrames
           /\ f.answerId \in asked /\ returns[f.answerId] >= 1
<1>1. frames[1] = f /\ 1 \in DOMAIN frames /\ f \in ReturnFrames \cup {Callback}
  BY DEF TypeOK
<1>. QED
  BY <1>1 DEF Heard

LEMMA FramesShrink ==
    ASSUME TypeOK, Heard, frames # <<>>, frames' = Tail(frames), UNCHANGED <<asked, returns>>,
           \A q \in asked : phase'[q] = phase[q]
    PROVE  frames' \in Seq(ReturnFrames \cup {Callback}) /\ Heard'
<1>1. frames' \in Seq(ReturnFrames \cup {Callback})
  BY DEF TypeOK
<1>2. \A i \in DOMAIN frames' : i + 1 \in DOMAIN frames /\ frames'[i] = frames[i + 1]
  BY DEF TypeOK
<1>. QED
  BY <1>1, <1>2 DEF Heard

LEMMA FramesGrow ==
    ASSUME TypeOK, Heard, NEW f \in ReturnFrames \cup {Callback},
           frames' = Append(frames, f), UNCHANGED <<asked, phase>>,
           \A q \in Calls : returns'[q] >= returns[q] /\ returns'[q] \in 0 .. 2,
           f # Callback => f.answerId \in asked /\ returns'[f.answerId] >= 1
    PROVE  frames' \in Seq(ReturnFrames \cup {Callback}) /\ Heard'
<1>1. frames' \in Seq(ReturnFrames \cup {Callback})
  BY DEF TypeOK
<1>2. \A i \in DOMAIN frames' : (i \in DOMAIN frames /\ frames'[i] = frames[i]) \/ frames'[i] = f
  BY DEF TypeOK
<1>3. ASSUME NEW i \in DOMAIN frames', frames'[i] # Callback
      PROVE  frames'[i].answerId \in asked' /\ returns'[frames'[i].answerId] >= 1
  <2>1. CASE frames'[i] = f
    BY <1>3, <2>1
  <2>2. CASE i \in DOMAIN frames /\ frames'[i] = frames[i]
    <3>1. frames[i].answerId \in asked /\ returns[frames[i].answerId] >= 1
      BY <1>3, <2>2 DEF Heard
    <3>2. asked \subseteq Calls /\ returns \in [Calls -> 0 .. 2]
      BY DEF TypeOK
    <3>3. frames[i].answerId \in Calls /\ returns[frames[i].answerId] \in Int
          /\ returns'[frames[i].answerId] >= returns[frames[i].answerId]
          /\ returns'[frames[i].answerId] \in Int
      BY <3>1, <3>2
    <3>. QED
      BY <2>2, <3>1, <3>3
  <2>. QED
    BY <1>2, <2>1, <2>2
<1>. QED
  BY <1>1, <1>3 DEF Heard

(***************************************************************************)
(* Operations.                                                             *)
(***************************************************************************)
\* The sets the tables are made of.
LEMMA Sets ==
    /\ Calls \subseteq Ops /\ OneWays \subseteq Ops /\ WithCaps \subseteq Calls
    /\ RawCalls \subseteq Calls /\ PipelinedCalls \subseteq Calls
    /\ Ops = Calls \cup OneWays
    /\ Calls = RawCalls \cup PipelinedCalls
    /\ RawCalls \cap PipelinedCalls = {} /\ Calls \cap OneWays = {}
BY ClientAssumption DEF Calls, Ops

LEMMA ChainGrows ==
    ASSUME NEW q \in Ops, chain \in Seq(Ops), chain' = Append(chain, q)
    PROVE  /\ chain' \in Seq(Ops)
           /\ chain # <<>> => chain' # <<>> /\ Head(chain') = Head(chain)
<1>1. chain' \in Seq(Ops)
  OBVIOUS
<1>2. ASSUME chain # <<>>
      PROVE  chain' # <<>> /\ Head(chain') = Head(chain)
  <2>1. Len(chain) \in Nat /\ Len(chain) > 0 /\ Len(chain') = Len(chain) + 1
    BY <1>2
  <2>2. chain'[1] = chain[1]
    BY <2>1
  <2>3. chain' # <<>>
    BY <2>1
  <2>. QED
    BY <2>2, <2>3
<1>. QED
  BY <1>1, <1>2

LEMMA SubmitKeeps ==
    ASSUME Inv, NEW q \in Ops, Submit(q)
    PROVE  Inv'
<1>1. /\ phase[q] = "idle"
      /\ \E p \in {"queued", "done"} : phase' = [phase EXCEPT ![q] = p]
      /\ chain' = chain \/ chain' = Append(chain, q)
      /\ UNCHANGED <<closed, open, waitVars, grantVars, pumpVars, frames, peerVars>>
  BY DEF Submit
<1>2. chain' \in Seq(Ops) /\ (chain # <<>> => chain' # <<>> /\ Head(chain') = Head(chain))
  <2>1. chain \in Seq(Ops)
    BY DEF Inv, TablesExact, TypeOK
  <2>. QED
    BY <1>1, <2>1, ChainGrows
<1>3. TablesExact'
  BY <1>1, <1>2 DEF Inv, TablesExact, TypeOK, waitVars, grantVars, pumpVars, peerVars
<1>4. Fresh' /\ HoldsChain' /\ Heard' /\ OnRecord' /\ GrantsSettleOnce'
  BY <1>1, <1>2 DEF Inv, TablesExact, TypeOK, waitVars, grantVars, pumpVars, peerVars,
     Fresh, HoldsChain, Heard, OnRecord, GrantsSettleOnce, AtHead
<1>. QED
  BY <1>3, <1>4 DEF Inv

\* Who leaves the chain held it alone.
LEMMA Leaves ==
    ASSUME Inv, NEW q \in Ops, AtHead(q), NEW p, phase' = [phase EXCEPT ![q] = p],
           p = "done" \/ q \notin RawCalls, chain' = Tail(chain)
    PROVE  chain' \in Seq(Ops) /\ HoldsChain'
<1>1. chain \in Seq(Ops) /\ phase = [r \in Ops |-> phase[r]] /\ chain # <<>>
  BY DEF Inv, TablesExact, TypeOK, AtHead
<1>2. chain' \in Seq(Ops)
  BY <1>1
<1>3. ASSUME NEW r \in RawCalls, phase'[r] \in {"waiting", "finishing"}
      PROVE  FALSE
  <2>1. r # q /\ phase'[r] = phase[r]
    BY <1>1, <1>3, Sets
  <2>2. AtHead(r)
    BY <1>3, <2>1 DEF Inv, HoldsChain
  <2>. QED
    BY <2>1, <2>2 DEF AtHead
<1>. QED
  BY <1>2, <1>3 DEF HoldsChain

LEMMA OpBeginsKeeps ==
    ASSUME Inv, NEW q \in Ops, OpBegins(q)
    PROVE  Inv'
<1>1. /\ AtHead(q) /\ phase[q] = "queued"
      /\ \/ Leave(q, "done")
         \/ phase' = [phase EXCEPT ![q] = "opening"] /\ UNCHANGED chain
      /\ UNCHANGED <<closed, open, waitVars, grantVars, pumpVars, frames, peerVars>>
  BY DEF OpBegins
<1>2. chain' \in Seq(Ops) /\ HoldsChain'
  <2>1. CASE Leave(q, "done")
    BY <1>1, <2>1, Leaves DEF Leave
  <2>2. CASE phase' = [phase EXCEPT ![q] = "opening"] /\ UNCHANGED chain
    BY <2>2, Sets DEF Inv, TablesExact, TypeOK, HoldsChain, AtHead
  <2>. QED
    BY <1>1, <2>1, <2>2
<1>3. \E p \in {"opening", "done"} : phase' = [phase EXCEPT ![q] = p]
  BY <1>1 DEF Leave
<1>4. TablesExact'
  BY <1>1, <1>2, <1>3 DEF Inv, TablesExact, TypeOK, waitVars, grantVars, pumpVars, peerVars
<1>5. Fresh' /\ Heard' /\ OnRecord' /\ GrantsSettleOnce'
  BY <1>1, <1>3 DEF Inv, TablesExact, TypeOK, waitVars, grantVars, pumpVars, peerVars,
     Fresh, Heard, OnRecord, GrantsSettleOnce
<1>. QED
  BY <1>2, <1>4, <1>5 DEF Inv

LEMMA OpSendsKeeps ==
    ASSUME Inv, NEW q \in Ops, OpSends(q)
    PROVE  Inv'
<1>1. /\ AtHead(q) /\ phase[q] = "opening"
      /\ grants' = grants \cup ({q} \cap WithCaps)
      /\ UNCHANGED <<closed, open, outcome, pending, queued, spent, exported,
                     pumpVars, frames, peerVars>>
  BY DEF OpSends
<1>2. CASE closed
  <2>1. Leave(q, "done") /\ UNCHANGED expected
    BY <1>2 DEF OpSends
  <2>2. chain' \in Seq(Ops) /\ HoldsChain' /\ phase' = [phase EXCEPT ![q] = "done"]
    BY <1>1, <2>1, Leaves DEF Leave
  <2>3. TablesExact'
    BY <1>1, <1>2, <2>1, <2>2 DEF Inv, TablesExact, TypeOK, pumpVars, peerVars
  <2>4. Fresh' /\ Heard' /\ OnRecord' /\ GrantsSettleOnce'
    BY <1>1, <1>2, <2>2 DEF Inv, TablesExact, TypeOK, pumpVars, peerVars,
       Fresh, Heard, OnRecord, GrantsSettleOnce
  <2>. QED
    BY <2>2, <2>3, <2>4 DEF Inv
<1>3. CASE ~closed
  <2>1. /\ phase' = [phase EXCEPT ![q] = "sending"]
        /\ expected' = expected \cup ({q} \cap Calls)
        /\ UNCHANGED chain
    BY <1>3 DEF OpSends
  <2>2. HoldsChain'
    BY <2>1, Sets DEF Inv, TablesExact, TypeOK, HoldsChain, AtHead
  <2>3. q \in Calls => outcome[q] = "none"
    BY <1>1 DEF Inv, Fresh
  <2>4. TypeOK'
    BY <1>1, <2>1 DEF Inv, TablesExact, TypeOK, pumpVars, peerVars
  <2>5. TablesExact'
    BY <1>1, <1>3, <2>1, <2>3, <2>4, Sets DEF Inv, TablesExact, TypeOK
  <2>6. Fresh' /\ Heard' /\ OnRecord' /\ GrantsSettleOnce'
    BY <1>1, <1>3, <2>1, <2>3 DEF Inv, TablesExact, TypeOK, pumpVars, peerVars,
       Fresh, Heard, OnRecord, GrantsSettleOnce
  <2>. QED
    BY <2>2, <2>5, <2>6 DEF Inv
<1>. QED
  BY <1>2, <1>3

LEMMA SendFailsKeeps ==
    ASSUME Inv, NEW q \in Ops, SendFails(q)
    PROVE  Inv'
<1>1. /\ AtHead(q) /\ phase[q] = "sending"
      /\ expected' = expected \ {q} /\ queued' = queued \ {q}
      /\ outcome' = [c \in Calls |-> IF c = q THEN "failed" ELSE outcome[c]]
      /\ UNCHANGED <<closed, open, pending, spent, exported, pumpVars, frames, peerVars>>
      /\ \/ q \notin asked /\ grants' = grants \ {q} /\ Leave(q, "done")
         \/ UNCHANGED grants /\ Leave(q, "done")
         \/ /\ q \in RawCalls /\ UNCHANGED <<grants, chain>>
            /\ phase' = [phase EXCEPT ![q] = "finishing"]
  BY DEF SendFails
<1>2. chain' \in Seq(Ops) /\ HoldsChain'
  <2>1. CASE Leave(q, "done")
    BY <1>1, <2>1, Leaves DEF Leave
  <2>2. CASE phase' = [phase EXCEPT ![q] = "finishing"] /\ UNCHANGED chain
    BY <1>1, <2>2, Sets DEF Inv, TablesExact, TypeOK, HoldsChain, AtHead
  <2>. QED
    BY <1>1, <2>1, <2>2
<1>3. /\ \E p \in {"finishing", "done"} : phase' = [phase EXCEPT ![q] = p]
      /\ grants' = grants \/ (grants' = grants \ {q} /\ q \notin asked)
  BY <1>1 DEF Leave
<1>4. q \notin pending
  BY <1>1 DEF Inv, TablesExact
<1>5. TypeOK'
  BY <1>1, <1>2, <1>3 DEF Inv, TablesExact, TypeOK, pumpVars, peerVars
<1>6. TablesExact'
  BY <1>1, <1>3, <1>4, <1>5, Sets DEF Inv, TablesExact, TypeOK
<1>7. Fresh' /\ Heard' /\ OnRecord' /\ GrantsSettleOnce'
  BY <1>1, <1>3, Sets DEF Inv, TablesExact, TypeOK, pumpVars, peerVars,
     Fresh, Heard, OnRecord, GrantsSettleOnce
<1>. QED
  BY <1>2, <1>6, <1>7 DEF Inv

LEMMA SendEndsKeeps ==
    ASSUME Inv, NEW q \in Ops, SendEnds(q)
    PROVE  Inv'
<1>1. /\ AtHead(q) /\ phase[q] = "sending"
      /\ UNCHANGED <<closed, open, grantVars, stopped, frames, peerVars>>
  BY DEF SendEnds
<1>2. CASE q \in OneWays
  <2>1. Leave(q, "done") /\ UNCHANGED <<waitVars, pump>>
    BY <1>2 DEF SendEnds
  <2>2. chain' \in Seq(Ops) /\ HoldsChain' /\ phase' = [phase EXCEPT ![q] = "done"]
    BY <1>1, <2>1, Leaves DEF Leave
  <2>3. TypeOK'
    BY <1>1, <2>1, <2>2 DEF Inv, TablesExact, TypeOK, waitVars, grantVars, peerVars
  <2>4. TablesExact'
    BY <1>1, <1>2, <2>1, <2>2, <2>3, Sets DEF Inv, TablesExact, TypeOK, waitVars
  <2>5. Fresh' /\ Heard' /\ OnRecord' /\ GrantsSettleOnce'
    BY <1>1, <2>1, <2>2 DEF Inv, TablesExact, TypeOK, waitVars, grantVars, peerVars,
       Fresh, Heard, OnRecord, GrantsSettleOnce
  <2>. QED
    BY <2>2, <2>4, <2>5 DEF Inv
<1>3. CASE q \notin OneWays
  <2>1. /\ q \in asked /\ phase' = [phase EXCEPT ![q] = "waiting"]
        /\ chain' = IF q \in PipelinedCalls THEN Tail(chain) ELSE chain
        /\ AwaitReturn(q) /\ q \in Calls
    BY <1>3, Sets DEF SendEnds
  <2>2. chain' \in Seq(Ops) /\ HoldsChain'
    <3>1. CASE q \in PipelinedCalls
      BY <1>1, <2>1, <3>1, Leaves, Sets
    <3>2. CASE q \notin PipelinedCalls
      BY <1>1, <2>1, <3>2, Sets DEF Inv, TablesExact, TypeOK, HoldsChain, AtHead
    <3>. QED
      BY <3>1, <3>2
  <2>3. outcome[q] = "none" /\ (~closed => q \in expected) /\ q \notin pending
    BY <1>1, <2>1 DEF Inv, Fresh, TablesExact
  <2>4. pump' \in {"off", "reading", "aborted", "callback", "ending"}
    BY <2>1 DEF AwaitReturn, EnsurePump, PumpLoops, Inv, TablesExact, TypeOK
  <2>5. \/ /\ \E o \in {"failed", "returned", "canceled"} : outcome' = [outcome EXCEPT ![q] = o]
           /\ expected' = expected \ {q} /\ queued' = queued \ {q} /\ UNCHANGED pending
        \/ /\ q \in expected /\ q \notin queued
           /\ pending' = pending \cup {q} /\ UNCHANGED <<outcome, expected, queued>>
    BY <2>1 DEF AwaitReturn, Inv, TablesExact, TypeOK
  <2>6. TypeOK'
    BY <1>1, <2>1, <2>2, <2>4, <2>5 DEF Inv, TablesExact, TypeOK, grantVars, peerVars
  <2>7. TablesExact'
    <3>1. \A c \in Calls : phase'[c] = IF c = q THEN "waiting" ELSE phase[c]
      BY <2>1, Sets DEF Inv, TablesExact, TypeOK
    <3>2. CASE /\ \E o \in {"failed", "returned", "canceled"} : outcome' = [outcome EXCEPT ![q] = o]
               /\ expected' = expected \ {q} /\ queued' = queued \ {q} /\ UNCHANGED pending
      <4>1. outcome'[q] # "none" /\ \A c \in Calls \ {q} : outcome'[c] = outcome[c]
        BY <2>1, <3>2 DEF Inv, TablesExact, TypeOK
      <4>. QED
        BY <1>1, <2>1, <2>3, <2>6, <3>1, <3>2, <4>1 DEF Inv, TablesExact
    <3>3. CASE /\ q \in expected /\ q \notin queued
               /\ pending' = pending \cup {q} /\ UNCHANGED <<outcome, expected, queued>>
      BY <1>1, <2>1, <2>3, <2>6, <3>1, <3>3 DEF Inv, TablesExact
    <3>. QED
      BY <2>5, <3>2, <3>3
  <2>8. Fresh' /\ Heard' /\ OnRecord' /\ GrantsSettleOnce'
    BY <1>1, <2>1, <2>5 DEF Inv, TablesExact, TypeOK, grantVars, peerVars,
       Fresh, Heard, OnRecord, GrantsSettleOnce
  <2>. QED
    BY <2>2, <2>7, <2>8 DEF Inv
<1>. QED
  BY <1>2, <1>3

LEMMA WaitEndsKeeps ==
    ASSUME Inv, NEW q \in Ops, WaitEnds(q)
    PROVE  Inv'
<1>1. /\ q \in Calls /\ phase[q] = "waiting" /\ outcome[q] # "none"
      /\ UNCHANGED <<closed, open, waitVars, grantVars, pumpVars, frames, peerVars>>
      /\ \/ q \in PipelinedCalls /\ phase' = [phase EXCEPT ![q] = "done"] /\ UNCHANGED chain
         \/ q \in RawCalls /\ phase' = [phase EXCEPT ![q] = "finishing"] /\ UNCHANGED chain
         \/ q \in RawCalls /\ Leave(q, "done")
  BY DEF WaitEnds
<1>2. chain' \in Seq(Ops) /\ HoldsChain'
  <2>1. CASE q \in RawCalls /\ Leave(q, "done")
    <3>1. AtHead(q)
      BY <1>1, <2>1 DEF Inv, HoldsChain
    <3>. QED
      BY <2>1, <3>1, Leaves DEF Leave
  <2>2. CASE UNCHANGED chain
    BY <1>1, <2>2, Sets DEF Inv, TablesExact, TypeOK, HoldsChain, AtHead, Leave
  <2>. QED
    BY <1>1, <2>1, <2>2
<1>3. \E p \in {"finishing", "done"} : phase' = [phase EXCEPT ![q] = p]
  BY <1>1 DEF Leave
<1>4. TypeOK'
  BY <1>1, <1>2, <1>3 DEF Inv, TablesExact, TypeOK, waitVars, grantVars, pumpVars, peerVars
<1>5. TablesExact'
  BY <1>1, <1>3, <1>4, Sets DEF Inv, TablesExact, TypeOK, waitVars
<1>6. Fresh' /\ Heard' /\ OnRecord' /\ GrantsSettleOnce'
  BY <1>1, <1>3 DEF Inv, TablesExact, TypeOK, waitVars, grantVars, pumpVars, peerVars,
     Fresh, Heard, OnRecord, GrantsSettleOnce
<1>. QED
  BY <1>2, <1>5, <1>6 DEF Inv

LEMMA FinishEndsKeeps ==
    ASSUME Inv, NEW q \in Ops, FinishEnds(q)
    PROVE  Inv'
<1>1. /\ q \in RawCalls /\ phase[q] = "finishing" /\ Leave(q, "done")
      /\ outcome' = outcome \/ outcome' = [outcome EXCEPT ![q] = IF @ = "returned" THEN "failed" ELSE @]
      /\ UNCHANGED <<closed, open, expected, pending, queued, grantVars, pumpVars, frames, peerVars>>
  BY DEF FinishEnds
<1>2. chain' \in Seq(Ops) /\ HoldsChain' /\ phase' = [phase EXCEPT ![q] = "done"]
  <2>1. AtHead(q)
    BY <1>1 DEF Inv, HoldsChain
  <2>. QED
    BY <1>1, <2>1, Leaves DEF Leave
<1>3. TypeOK'
  BY <1>1, <1>2 DEF Inv, TablesExact, TypeOK, grantVars, pumpVars, peerVars
<1>4. TablesExact'
  BY <1>1, <1>2, <1>3, Sets DEF Inv, TablesExact, TypeOK
<1>5. Fresh' /\ Heard' /\ OnRecord' /\ GrantsSettleOnce'
  BY <1>1, <1>2 DEF Inv, TablesExact, TypeOK, grantVars, pumpVars, peerVars,
     Fresh, Heard, OnRecord, GrantsSettleOnce
<1>. QED
  BY <1>2, <1>4, <1>5 DEF Inv

(***************************************************************************)
(* What happens meanwhile.                                                 *)
(***************************************************************************)
LEMMA CallArrivesKeeps ==
    ASSUME Inv, NEW q \in Calls, CallArrives(q)
    PROVE  Inv'
<1>1. /\ phase[q] = "sending" /\ asked' = asked \cup {q}
      /\ UNCHANGED <<closed, open, opVars, waitVars, grantVars, pumpVars, frames,
                     returns, callbacks>>
  BY DEF CallArrives
<1>2. TablesExact'
  BY <1>1 DEF Inv, TablesExact, TypeOK, opVars, waitVars, grantVars, pumpVars
<1>3. Fresh' /\ HoldsChain' /\ Heard' /\ OnRecord' /\ GrantsSettleOnce'
  BY <1>1 DEF Inv, TablesExact, TypeOK, opVars, waitVars, grantVars, pumpVars,
     Fresh, HoldsChain, Heard, OnRecord, GrantsSettleOnce, AtHead
<1>. QED
  BY <1>2, <1>3 DEF Inv

LEMMA CancelKeeps ==
    ASSUME Inv, NEW q \in Calls, Cancel(q)
    PROVE  Inv'
<1>1. /\ q \in pending /\ pending' = pending \ {q}
      /\ expected' = expected \ {q} /\ queued' = queued \ {q}
      /\ outcome' = [outcome EXCEPT ![q] = "canceled"]
      /\ UNCHANGED <<closed, open, opVars, grantVars, stopped, frames, peerVars>>
      /\ pump' \in {pump, "aborted"}
  BY DEF Cancel, AbortReadIfIdle
<1>2. phase[q] = "waiting"
  BY <1>1 DEF Inv, TablesExact
<1>3. TypeOK'
  BY <1>1 DEF Inv, TablesExact, TypeOK, opVars, grantVars, peerVars
<1>4. TablesExact'
  BY <1>1, <1>3 DEF Inv, TablesExact, TypeOK, opVars
<1>5. Fresh' /\ HoldsChain' /\ Heard' /\ OnRecord' /\ GrantsSettleOnce'
  BY <1>1, <1>2 DEF Inv, TablesExact, TypeOK, opVars, grantVars, peerVars,
     Fresh, HoldsChain, Heard, OnRecord, GrantsSettleOnce, AtHead
<1>. QED
  BY <1>4, <1>5 DEF Inv

LEMMA ReturnKeeps ==
    ASSUME Inv, NEW q \in Calls, NEW b \in BOOLEAN, Return(q, b)
    PROVE  Inv'
<1>. DEFINE f == [answerId |-> q, releaseParamCaps |-> b]
<1>1. /\ q \in asked /\ returns[q] < (IF q \in Repeated THEN 2 ELSE 1)
      /\ returns' = [returns EXCEPT ![q] = @ + 1] /\ frames' = Append(frames, f)
      /\ UNCHANGED <<closed, open, opVars, waitVars, grantVars, pumpVars, asked, callbacks>>
  BY DEF Return
<1>2. /\ f \in ReturnFrames /\ f.answerId = q
      /\ \A c \in Calls : returns'[c] >= returns[c] /\ returns'[c] \in 0 .. 2
      /\ returns'[q] >= 1 /\ returns' \in [Calls -> 0 .. 2]
  BY <1>1 DEF ReturnFrames, Inv, TablesExact, TypeOK
<1>. HIDE DEF f
<1>3. frames' \in Seq(ReturnFrames \cup {Callback}) /\ Heard'
  BY <1>1, <1>2, FramesGrow DEF Inv, TablesExact, opVars
<1>4. TablesExact'
  BY <1>1, <1>2, <1>3 DEF Inv, TablesExact, TypeOK, opVars, waitVars, grantVars, pumpVars
<1>5. \A c \in Calls : returns'[c] = 0 => returns[c] = 0
  BY <1>2 DEF Inv, TablesExact, TypeOK
<1>6. Fresh' /\ HoldsChain' /\ OnRecord' /\ GrantsSettleOnce'
  BY <1>1, <1>5, Sets DEF Inv, opVars, waitVars, grantVars,
     Fresh, HoldsChain, OnRecord, GrantsSettleOnce, AtHead
<1>. QED
  BY <1>3, <1>4, <1>6 DEF Inv

LEMMA CallsBackKeeps ==
    ASSUME Inv, CallsBack
    PROVE  Inv'
<1>1. /\ callbacks < MaxCallbacks /\ callbacks' = callbacks + 1
      /\ frames' = Append(frames, Callback)
      /\ UNCHANGED <<closed, open, opVars, waitVars, grantVars, pumpVars, asked, returns>>
  BY DEF CallsBack
<1>2. \A c \in Calls : returns'[c] >= returns[c] /\ returns'[c] \in 0 .. 2
  BY <1>1 DEF Inv, TablesExact, TypeOK
<1>3. frames' \in Seq(ReturnFrames \cup {Callback}) /\ Heard'
  BY <1>1, <1>2, FramesGrow DEF Inv, TablesExact, opVars
<1>4. callbacks' \in 0 .. MaxCallbacks
  BY <1>1, ClientAssumption DEF Inv, TablesExact, TypeOK
<1>5. TablesExact'
  BY <1>1, <1>3, <1>4 DEF Inv, TablesExact, TypeOK, opVars, waitVars, grantVars, pumpVars
<1>6. Fresh' /\ HoldsChain' /\ OnRecord' /\ GrantsSettleOnce'
  BY <1>1 DEF Inv, opVars, waitVars, grantVars,
     Fresh, HoldsChain, OnRecord, GrantsSettleOnce, AtHead
<1>. QED
  BY <1>3, <1>5, <1>6 DEF Inv

(***************************************************************************)
(* The pump.                                                               *)
(***************************************************************************)
\* The first Return of a call gives its references back, or the peer does.
LEMMA SettlesOnce ==
    ASSUME Inv, NEW f \in ReturnFrames, f.answerId \in asked, returns[f.answerId] >= 1,
           SettleGrants(f), UNCHANGED <<closed, phase, asked, returns>>
    PROVE  /\ grants' \subseteq WithCaps /\ spent' \in [WithCaps -> Nat]
           /\ OnRecord' /\ GrantsSettleOnce'
<1>1. PICK q \in Calls : q = f.answerId
  BY DEF ReturnFrames
<1>2. /\ q \in asked /\ returns[q] # 0 /\ phase[q] \notin {"idle", "queued", "opening"}
  BY <1>1 DEF Inv, Heard, TablesExact, TypeOK
<1>3. /\ grants' = grants \ {q}
      /\ \A c \in WithCaps : spent'[c] = spent[c] \/ (c = q /\ c \in grants /\ spent'[c] = spent[c] + 1)
      /\ spent' = [c \in WithCaps |-> spent'[c]]
  BY <1>1 DEF SettleGrants
<1>4. /\ grants \subseteq WithCaps /\ spent \in [WithCaps -> Nat]
      /\ \A c \in WithCaps : /\ spent[c] \in Nat /\ spent[c] <= 1
                             /\ c \in grants => spent[c] = 0
  BY DEF Inv, TablesExact, TypeOK, GrantsSettleOnce
<1>5. /\ grants' \subseteq WithCaps /\ spent' \in [WithCaps -> Nat]
      /\ \A c \in WithCaps : spent'[c] <= 1 /\ (spent'[c] = 1 => c \notin grants')
  BY <1>3, <1>4 DEF Inv, GrantsSettleOnce
<1>6. OnRecord'
  BY <1>2, <1>3, <1>4 DEF Inv, OnRecord
<1>7. GrantsSettleOnce'
  BY <1>2, <1>3, <1>5 DEF Inv, GrantsSettleOnce
<1>. QED
  BY <1>5, <1>6, <1>7

LEMMA PumpReadsKeeps ==
    ASSUME Inv, PumpReads
    PROVE  Inv'
<1>1. /\ frames # <<>> /\ frames' = Tail(frames)
      /\ UNCHANGED <<closed, open, opVars, exported, stopped, peerVars>>
  BY DEF PumpReads
<1>2. frames' \in Seq(ReturnFrames \cup {Callback}) /\ Heard'
  BY <1>1, FramesShrink DEF Inv, TablesExact, peerVars, opVars
<1>3. HoldsChain'
  BY <1>1 DEF Inv, HoldsChain, AtHead, opVars
<1>4. pump' \in {"reading", "ending", "callback"}
  BY DEF PumpReads, PumpLoops
<1>5. CASE Head(frames) = Callback
  <2>1. UNCHANGED <<waitVars, grants, spent>>
    BY <1>5 DEF PumpReads
  <2>2. TablesExact'
    BY <1>1, <1>2, <1>4, <2>1 DEF Inv, TablesExact, TypeOK, opVars, waitVars, peerVars
  <2>3. Fresh' /\ OnRecord' /\ GrantsSettleOnce'
    BY <1>1, <2>1 DEF Inv, opVars, waitVars, peerVars, Fresh, OnRecord, GrantsSettleOnce
  <2>. QED
    BY <1>2, <1>3, <2>2, <2>3 DEF Inv
<1>6. CASE Head(frames) # Callback
  <2>1. PICK f \in ReturnFrames : f = Head(frames) /\ f.answerId \in asked /\ returns[f.answerId] >= 1
    BY <1>1, <1>6, FrameRead DEF Inv, TablesExact
  <2>2. /\ SettleGrants(f)
        /\ IF f.answerId \in expected THEN TakeReturn(f.answerId) ELSE UNCHANGED waitVars
    BY <1>6, <2>1 DEF PumpReads
  <2>3. /\ grants' \subseteq WithCaps /\ spent' \in [WithCaps -> Nat]
        /\ OnRecord' /\ GrantsSettleOnce'
    BY <1>1, <2>1, <2>2, SettlesOnce DEF opVars, peerVars
  <2>4. PICK q \in Calls : q = f.answerId
    BY DEF ReturnFrames
  <2>5. \/ UNCHANGED waitVars
        \/ /\ q \in pending /\ pending' = pending \ {q}
           /\ expected' = expected \ {q} /\ queued' = queued \ {q}
           /\ outcome' = [outcome EXCEPT ![q] = "returned"]
        \/ /\ q \notin pending /\ q \in expected /\ queued' = queued \cup {q}
           /\ UNCHANGED <<pending, expected, outcome>>
    BY <2>2, <2>4 DEF TakeReturn
  <2>6. q \in pending => phase[q] = "waiting"
    BY DEF Inv, TablesExact
  <2>7. TypeOK'
    BY <1>1, <1>2, <1>4, <2>3, <2>5 DEF Inv, TablesExact, TypeOK, opVars, waitVars, peerVars
  <2>8. TablesExact'
    BY <1>1, <2>5, <2>7 DEF Inv, TablesExact, TypeOK, opVars, waitVars
  <2>9. Fresh'
    BY <1>1, <2>5, <2>6 DEF Inv, TablesExact, TypeOK, opVars, waitVars, Fresh
  <2>. QED
    BY <1>2, <1>3, <2>3, <2>8, <2>9 DEF Inv
<1>. QED
  BY <1>5, <1>6

LEMMA PumpReadFailsKeeps ==
    ASSUME Inv, PumpReadFails
    PROVE  Inv'
<1>1. /\ stopped' \in BOOLEAN /\ pump' = "ending"
      /\ UNCHANGED <<closed, open, opVars, grantVars, frames, peerVars>>
      /\ \/ UNCHANGED waitVars
         \/ /\ \E result \in {"aborted", "failed"} : RejectAllPendingReturns(result)
            /\ expected' = expected \ pending /\ queued' = queued \ pending
  BY DEF PumpReadFails, Inv, TablesExact, TypeOK
<1>2. HoldsChain' /\ Heard' /\ OnRecord' /\ GrantsSettleOnce'
  BY <1>1 DEF Inv, opVars, grantVars, peerVars, HoldsChain, AtHead, Heard, OnRecord,
     GrantsSettleOnce
<1>3. TypeOK'
  BY <1>1 DEF Inv, TablesExact, TypeOK, opVars, waitVars, grantVars, peerVars,
     RejectAllPendingReturns
<1>4. TablesExact'
  BY <1>1, <1>3 DEF Inv, TablesExact, TypeOK, opVars, waitVars, RejectAllPendingReturns
<1>5. Fresh'
  BY <1>1 DEF Inv, TablesExact, Fresh, opVars, waitVars, RejectAllPendingReturns
<1>. QED
  BY <1>2, <1>4, <1>5 DEF Inv

LEMMA CloseKeeps ==
    ASSUME Inv, Close
    PROVE  Inv'
<1>1. /\ closed' = TRUE /\ stopped' = TRUE /\ exported' = FALSE
      /\ RejectAllPendingReturns("failed")
      /\ expected' = {} /\ queued' = {} /\ grants' = {}
      /\ pump' \in {pump, "aborted"}
      /\ UNCHANGED <<open, opVars, spent, frames, peerVars>>
  BY DEF Close
<1>2. TablesExact'
  BY <1>1 DEF Inv, TablesExact, TypeOK, opVars, peerVars, RejectAllPendingReturns
<1>3. Fresh' /\ HoldsChain' /\ Heard' /\ OnRecord' /\ GrantsSettleOnce'
  BY <1>1 DEF Inv, TablesExact, opVars, peerVars, RejectAllPendingReturns,
     Fresh, HoldsChain, AtHead, Heard, OnRecord, GrantsSettleOnce
<1>. QED
  BY <1>2, <1>3 DEF Inv

\* The other steps change neither tables nor grants.
LEMMA OthersKeep ==
    ASSUME Inv,
           \/ UNCHANGED clientVars
           \/ ExportCapability \/ CallbackEnds \/ PumpEnds \/ TransportCloses
    PROVE  Inv'
<1>1. UNCHANGED <<closed, opVars, waitVars, grants, spent, frames, peerVars>>
  BY DEF clientVars, ExportCapability, CallbackEnds, PumpEnds, TransportCloses, grantVars
<1>2. /\ {open', exported', stopped'} \subseteq BOOLEAN
      /\ pump' \in {"off", "reading", "aborted", "callback", "ending"}
  BY DEF clientVars, ExportCapability, CallbackEnds, PumpEnds, TransportCloses, grantVars,
     pumpVars, PumpLoops, Inv, TablesExact, TypeOK
<1>3. TablesExact'
  BY <1>1, <1>2 DEF Inv, TablesExact, TypeOK, opVars, waitVars, peerVars
<1>4. Fresh' /\ HoldsChain' /\ Heard' /\ OnRecord' /\ GrantsSettleOnce'
  BY <1>1 DEF Inv, opVars, waitVars, peerVars,
     Fresh, HoldsChain, AtHead, Heard, OnRecord, GrantsSettleOnce
<1>. QED
  BY <1>3, <1>4 DEF Inv

(***************************************************************************)
(* The theorems.                                                           *)
(***************************************************************************)
LEMMA InvHolds == Spec => []Inv
<1>1. Init => Inv
  <2>1. SUFFICES ASSUME Init PROVE Inv
    OBVIOUS
  <2>2. TypeOK
    <3>1. MaxCallbacks \in Nat /\ callbacks \in 0 .. MaxCallbacks
      BY <2>1, ClientAssumption DEF Init
    <3>2. chain \in Seq(Ops) /\ frames \in Seq(ReturnFrames \cup {Callback})
      BY <2>1 DEF Init
    <3>3. /\ phase \in [Ops -> {"idle", "queued", "opening", "sending", "waiting",
                                "finishing", "done"}]
          /\ outcome \in [Calls -> {"none", "returned", "canceled", "failed", "aborted"}]
          /\ spent \in [WithCaps -> Nat] /\ returns \in [Calls -> 0 .. 2]
      BY <2>1 DEF Init
    <3>. QED
      BY <2>1, <3>1, <3>2, <3>3 DEF Init, TypeOK
  <2>4. TablesExact
    BY <2>1, <2>2, Sets DEF Init, TablesExact
  <2>3. Fresh /\ HoldsChain /\ Heard /\ OnRecord /\ GrantsSettleOnce
    BY <2>1, Sets DEF Init, Fresh, HoldsChain, Heard, OnRecord, GrantsSettleOnce
  <2>. QED
    BY <2>4, <2>3 DEF Inv
<1>2. Inv /\ [Next]_clientVars => Inv'
  BY SubmitKeeps, OpBeginsKeeps, OpSendsKeeps, SendEndsKeeps, SendFailsKeeps,
     WaitEndsKeeps, FinishEndsKeeps, CallArrivesKeeps, CancelKeeps, ReturnKeeps,
     CallsBackKeeps, PumpReadsKeeps, PumpReadFailsKeeps, CloseKeeps, OthersKeep
  DEF Next, OpStep, PumpStep
<1>. QED
  BY <1>1, <1>2, PTL DEF Spec

\* The waiters are those of the calls that wait, and a Return is expected exactly for
\* the calls that are being sent or wait, whatever times out, aborts or fails.
THEOREM ClientTables == Spec => []TablesExact
<1>1. Inv => TablesExact
  BY DEF Inv
<1>. QED
  BY <1>1, InvHolds, PTL

\* The references a call granted are given back once at most, and stay on record
\* until the peer has answered, or the client was closed.
THEOREM ClientGrants == Spec => []GrantsSettleOnce
<1>1. Inv => GrantsSettleOnce
  BY DEF Inv
<1>. QED
  BY <1>1, InvHolds, PTL
=============================================================================
