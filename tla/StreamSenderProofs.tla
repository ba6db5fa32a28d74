--------------------------- MODULE StreamSenderProofs ---------------------------
(* Theorems about StreamSender, for any number of operations and any limits:   *)
(* the byte account is exact, responses are handed over in the order of the    *)
(* sends, and cancel() leaves nothing in flight.                               *)
EXTENDS StreamSender, FiniteSetTheorems, SequenceTheorems, TLAPS

(***************************************************************************)
(* Sequences in the order of a relation.                                   *)
(***************************************************************************)
InLine(s, R) == \A i, j \in 1 .. Len(s) : i < j => <<s[i], s[j]>> \in R
AllBefore(A, B, R) == \A a \in A, b \in B : <<a, b>> \in R
Once(s) == \A i, j \in 1 .. Len(s) : s[i] = s[j] => i = j

LEMMA EmptyFacts == ASSUME NEW S
                    PROVE  /\ <<>> \in Seq(S) /\ Range(<<>>) = {} /\ Once(<<>>)
                           /\ \A R : InLine(<<>>, R)
<1>1. <<>> \in Seq(S) /\ Len(<<>>) = 0
  BY EmptySeq
<1>2. Range(<<>>) = {}
  <2>1. Range(<<>>) = {<<>>[i] : i \in 1 .. Len(<<>>)}
    BY <1>1, RangeEquality
  <2>2. 1 .. Len(<<>>) = {}
    BY <1>1
  <2> QED BY <2>1, <2>2
<1>3. Once(<<>>) /\ \A R : InLine(<<>>, R)
  BY <1>1 DEF Once, InLine
<1> QED BY <1>1, <1>2, <1>3

LEMMA AppendRange ==
    ASSUME NEW S, NEW s \in Seq(S), NEW e \in S
    PROVE  Range(Append(s, e)) = Range(s) \cup {e}
<1> DEFINE q == Append(s, e)
<1>1. /\ q \in Seq(S) /\ Len(q) = Len(s) + 1 /\ Len(s) \in Nat
      /\ \A i \in 1 .. Len(s) : q[i] = s[i]
      /\ q[Len(s) + 1] = e
  BY AppendProperties, LenProperties
<1>2. Range(q) = {q[i] : i \in 1 .. Len(q)} /\ Range(s) = {s[i] : i \in 1 .. Len(s)}
  BY <1>1, RangeEquality
<1> HIDE DEF q
<1>4. Range(q) = Range(s) \cup {e}
  <2>1. ASSUME NEW x PROVE x \in Range(q) <=> x \in Range(s) \cup {e}
    <3>1. ASSUME x \in Range(q) PROVE x \in Range(s) \cup {e}
      <4>1. PICK i \in 1 .. Len(q) : x = q[i]
        BY <1>2, <3>1
      <4>2. i \in 1 .. Len(s) \/ i = Len(s) + 1
        BY <1>1
      <4> QED BY <1>1, <1>2, <4>1, <4>2
    <3>2. ASSUME x \in Range(s) PROVE x \in Range(q)
      <4>1. PICK i \in 1 .. Len(s) : x = s[i]
        BY <1>2, <3>2
      <4>2. i \in 1 .. Len(q) /\ x = q[i]
        BY <1>1, <4>1
      <4> QED BY <1>2, <4>2
    <3>3. e \in Range(q)
      <4>1. Len(s) + 1 \in 1 .. Len(q)
        BY <1>1
      <4> QED BY <1>1, <1>2, <4>1
    <3> QED BY <3>1, <3>2, <3>3
  <2> QED BY <2>1
<1> QED BY <1>4 DEF q

LEMMA AppendFacts ==
    ASSUME NEW S, NEW s \in Seq(S), NEW e \in S
    PROVE  /\ Append(s, e) \in Seq(S) /\ Append(s, e) # <<>> /\ Len(Append(s, e)) = Len(s) + 1
           /\ Range(Append(s, e)) = Range(s) \cup {e}
           /\ Once(s) /\ e \notin Range(s) => Once(Append(s, e))
           /\ s # <<>> => Head(Append(s, e)) = Head(s)
<1> DEFINE q == Append(s, e)
<1>1. /\ q \in Seq(S) /\ q # <<>> /\ Len(q) = Len(s) + 1 /\ Len(s) \in Nat
      /\ \A i \in 1 .. Len(s) : q[i] = s[i]
      /\ q[Len(s) + 1] = e
  BY AppendProperties, LenProperties
<1>2. Range(q) = {q[i] : i \in 1 .. Len(q)} /\ Range(s) = {s[i] : i \in 1 .. Len(s)}
  BY <1>1, RangeEquality
<1>3. s # <<>> => Head(q) = Head(s)
  BY HeadTailAppend
<1> HIDE DEF q
<1>4. Range(q) = Range(s) \cup {e}
  BY AppendRange DEF q
<1>5. ASSUME Once(s), e \notin Range(s) PROVE Once(q)
  <2> SUFFICES ASSUME NEW i \in 1 .. Len(q), NEW j \in 1 .. Len(q), q[i] = q[j] PROVE i = j
    BY DEF Once
  <2>1. \A k \in 1 .. Len(q) : k \in 1 .. Len(s) \/ k = Len(s) + 1
    BY <1>1
  <2>2. \A k \in 1 .. Len(s) : q[k] # e
    BY <1>1, <1>2, <1>5
  <2> QED BY <1>1, <1>5, <2>1, <2>2 DEF Once
<1> QED BY <1>1, <1>3, <1>4, <1>5 DEF q

LEMMA AppendInLine ==
    ASSUME NEW S, NEW s \in Seq(S), NEW e \in S, NEW R,
           InLine(s, R), AllBefore(Range(s), {e}, R)
    PROVE  InLine(Append(s, e), R)
<1> DEFINE q == Append(s, e)
<1>1. /\ q \in Seq(S) /\ Len(q) = Len(s) + 1 /\ Len(s) \in Nat
      /\ \A i \in 1 .. Len(s) : q[i] = s[i]
      /\ q[Len(s) + 1] = e
  BY AppendProperties, LenProperties
<1>2. Range(s) = {s[i] : i \in 1 .. Len(s)}
  BY <1>1, RangeEquality
<1> HIDE DEF q
<1>6. InLine(q, R)
  <2> SUFFICES ASSUME NEW i \in 1 .. Len(q), NEW j \in 1 .. Len(q), i < j
               PROVE  <<q[i], q[j]>> \in R
    BY DEF InLine
  <2>1. i \in 1 .. Len(s) /\ q[i] = s[i]
    BY <1>1
  <2>2. CASE j \in 1 .. Len(s)
    BY <1>1, <2>1, <2>2 DEF InLine
  <2>3. CASE j = Len(s) + 1
    <3>1. s[i] \in Range(s)
      BY <1>2, <2>1
    <3> QED BY <1>1, <2>1, <2>3, <3>1 DEF AllBefore
  <2> QED BY <1>1, <2>2, <2>3
<1> QED BY <1>6 DEF q

LEMMA TailFacts ==
    ASSUME NEW S, NEW s \in Seq(S), s # <<>>
    PROVE  /\ Tail(s) \in Seq(S) /\ Head(s) \in S
           /\ Range(s) = Range(Tail(s)) \cup {Head(s)}
           /\ Once(s) => Once(Tail(s)) /\ Head(s) \notin Range(Tail(s))
<1> DEFINE q == Tail(s)
<1>1. /\ q \in Seq(S) /\ Len(q) = Len(s) - 1 /\ Len(s) \in Nat \ {0} /\ Head(s) = s[1]
      /\ \A i \in 1 .. Len(q) : q[i] = s[i + 1]
      /\ Head(s) \in S
  BY HeadTailProperties, EmptySeq, LenProperties
<1>2. Range(q) = {q[i] : i \in 1 .. Len(q)} /\ Range(s) = {s[i] : i \in 1 .. Len(s)}
  BY <1>1, RangeEquality
<1> HIDE DEF q
<1>3. \A i \in 1 .. Len(q) : i + 1 \in 1 .. Len(s) /\ q[i] = s[i + 1] /\ i + 1 # 1
  BY <1>1
<1>4. \A j \in 1 .. Len(s) : j = 1 \/ (j - 1 \in 1 .. Len(q) /\ s[j] = q[j - 1])
  BY <1>1
<1>5. 1 \in 1 .. Len(s)
  BY <1>1
<1>6. Range(s) = Range(q) \cup {Head(s)}
  <2>1. \A x \in Range(s) : x \in Range(q) \cup {Head(s)}
    BY <1>1, <1>2, <1>4
  <2>2. \A x \in Range(q) : x \in Range(s)
    BY <1>2, <1>3
  <2>3. Head(s) \in Range(s)
    BY <1>1, <1>2, <1>5
  <2> QED BY <2>1, <2>2, <2>3
<1>7. ASSUME Once(s) PROVE Once(q) /\ Head(s) \notin Range(q)
  BY <1>1, <1>2, <1>3, <1>5, <1>7 DEF Once
<1> QED BY <1>1, <1>6, <1>7 DEF q

LEMMA TailInLine ==
    ASSUME NEW S, NEW s \in Seq(S), s # <<>>, NEW R, InLine(s, R)
    PROVE  InLine(Tail(s), R) /\ AllBefore({Head(s)}, Range(Tail(s)), R)
<1> DEFINE q == Tail(s)
<1>1. /\ q \in Seq(S) /\ Len(q) = Len(s) - 1 /\ Len(s) \in Nat \ {0} /\ Head(s) = s[1]
      /\ \A i \in 1 .. Len(q) : q[i] = s[i + 1]
  BY HeadTailProperties, EmptySeq, LenProperties
<1>2. Range(q) = {q[i] : i \in 1 .. Len(q)}
  BY <1>1, RangeEquality
<1> HIDE DEF q
<1>3. \A i \in 1 .. Len(q) : i + 1 \in 1 .. Len(s) /\ q[i] = s[i + 1] /\ i + 1 # 1
  BY <1>1
<1>5. 1 \in 1 .. Len(s)
  BY <1>1
<1>8. InLine(q, R) /\ AllBefore({Head(s)}, Range(q), R)
  <2>1. \A i, j \in 1 .. Len(q) : i < j => i + 1 < j + 1
    OBVIOUS
  <2>2. InLine(q, R)
    BY <1>3, <2>1 DEF InLine
  <2>3. \A i \in 1 .. Len(q) : 1 < i + 1
    OBVIOUS
  <2>4. AllBefore({Head(s)}, Range(q), R)
    BY <1>1, <1>2, <1>3, <1>5, <2>3 DEF InLine, AllBefore
  <2> QED BY <2>2, <2>4
<1> QED BY <1>8 DEF q

LEMMA RemovedIs ==
    ASSUME NEW S, NEW s \in Seq(S), NEW k \in 1 .. Len(s), Once(s)
    PROVE  /\ RemoveFirst(s, s[k]) \in Seq(S) /\ Len(RemoveFirst(s, s[k])) = Len(s) - 1
           /\ \A i \in 1 .. Len(s) - 1 :
                  RemoveFirst(s, s[k])[i] = IF i < k THEN s[i] ELSE s[i + 1]
<1> DEFINE q == RemoveFirst(s, s[k])
<1>0. Len(s) \in Nat /\ \A i \in 1 .. Len(s) : s[i] \in S
  BY LenProperties, ElementOfSeq
<1>1. {i \in 1 .. Len(s) : s[i] = s[k]} = {k}
  BY DEF Once
<1>2. Min({k}) = k
  BY <1>0 DEF Min
<1>3. SelectInSeq(s, LAMBDA v : v = s[k]) = k
  BY <1>1, <1>2 DEF SelectInSeq
<1>4. q = SubSeq(s, 1, k - 1) \o SubSeq(s, k + 1, Len(s))
  BY <1>3 DEF RemoveFirst, RemoveAt
<1> DEFINE a == SubSeq(s, 1, k - 1)
           b == SubSeq(s, k + 1, Len(s))
<1>5. /\ a \in Seq(S) /\ Len(a) = k - 1 /\ \A i \in 1 .. k - 1 : a[i] = s[i]
  <2>1. /\ a \in Seq(S) /\ Len(a) = IF 1 <= k - 1 THEN k - 1 - 1 + 1 ELSE 0
        /\ \A i \in 1 .. (k - 1) - 1 + 1 : a[i] = s[1 + i - 1]
    BY <1>0, SubSeqProperties
  <2> QED BY <1>0, <2>1
<1>6. /\ b \in Seq(S) /\ Len(b) = Len(s) - k
      /\ \A i \in 1 .. Len(s) - k : b[i] = s[i + k]
  <2>1. \A i \in (k + 1) .. Len(s) : s[i] \in S
    BY <1>0
  <2>2. k + 1 \in Int /\ Len(s) \in Int
    BY <1>0
  <2>3. /\ b \in Seq(S) /\ Len(b) = IF k + 1 <= Len(s) THEN Len(s) - (k + 1) + 1 ELSE 0
        /\ \A i \in 1 .. Len(s) - (k + 1) + 1 : b[i] = s[(k + 1) + i - 1]
    BY <2>1, <2>2, SubSeqProperties
  <2> QED BY <1>0, <2>3
<1> HIDE DEF a, b
<1>7. /\ a \o b \in Seq(S) /\ Len(a \o b) = Len(a) + Len(b)
      /\ \A i \in 1 .. Len(a) + Len(b) : (a \o b)[i] = IF i <= Len(a) THEN a[i] ELSE b[i - Len(a)]
  BY <1>5, <1>6, ConcatProperties
<1>8. q = a \o b
  BY <1>4 DEF a, b
<1> HIDE DEF q
<1>9. /\ q \in Seq(S) /\ Len(q) = Len(s) - 1
      /\ \A i \in 1 .. Len(q) : q[i] = IF i < k THEN s[i] ELSE s[i + 1]
  <2>1. q \in Seq(S) /\ Len(q) = Len(s) - 1
    BY <1>0, <1>5, <1>6, <1>7, <1>8
  <2>2. ASSUME NEW i \in 1 .. Len(q) PROVE q[i] = IF i < k THEN s[i] ELSE s[i + 1]
    <3>1. i \in 1 .. Len(a) + Len(b) /\ q[i] = IF i <= Len(a) THEN a[i] ELSE b[i - Len(a)]
      BY <1>7, <1>8
    <3>2. CASE i < k
      BY <1>0, <1>5, <3>1, <3>2
    <3>3. CASE ~(i < k)
      <4>1. ~(i <= Len(a)) /\ i - Len(a) \in 1 .. Len(s) - k /\ (i - Len(a)) + k = i + 1
        BY <1>0, <1>5, <2>1, <3>3
      <4> QED BY <1>6, <3>1, <3>3, <4>1
    <3> QED BY <3>2, <3>3
  <2> QED BY <2>1, <2>2
<1> QED BY <1>9 DEF q

LEMMA RemovedFacts ==
    ASSUME NEW S, NEW s \in Seq(S), NEW c, Once(s)
    PROVE  /\ RemoveFirst(s, c) \in Seq(S) /\ Len(RemoveFirst(s, c)) <= Len(s)
           /\ Range(RemoveFirst(s, c)) = Range(s) \ {c}
           /\ Once(RemoveFirst(s, c))
           /\ s # <<>> /\ Head(s) # c => RemoveFirst(s, c) # <<>> /\ Head(RemoveFirst(s, c)) = Head(s)
<1> DEFINE q == RemoveFirst(s, c)
<1>0. Len(s) \in Nat /\ Range(s) = {s[i] : i \in 1 .. Len(s)} /\ \A i \in 1 .. Len(s) : s[i] \in S
  BY LenProperties, RangeEquality, ElementOfSeq
<1>1. CASE ~\E i \in 1 .. Len(s) : s[i] = c
  <2>1. q = s
    BY <1>1 DEF RemoveFirst
  <2>2. c \notin Range(s)
    BY <1>0, <1>1
  <2> HIDE DEF q
  <2>3. q \in Seq(S) /\ Len(q) <= Len(s) /\ Range(q) = Range(s) \ {c}
    BY <1>0, <2>1, <2>2
  <2> QED BY <2>1, <2>3 DEF q
<1>2. CASE \E i \in 1 .. Len(s) : s[i] = c
  <2>0. PICK k \in 1 .. Len(s) : s[k] = c
    BY <1>2
  <2>9. /\ q \in Seq(S) /\ Len(q) = Len(s) - 1
        /\ \A i \in 1 .. Len(q) : q[i] = IF i < k THEN s[i] ELSE s[i + 1]
    BY <2>0, RemovedIs
  <2> HIDE DEF q
  <2>10. Range(q) = {q[i] : i \in 1 .. Len(q)}
    BY <2>9, RangeEquality
  <2>11. /\ \A i \in 1 .. Len(q) : \E m \in 1 .. Len(s) : m # k /\ q[i] = s[m]
         /\ \A m \in 1 .. Len(s) : m # k => \E i \in 1 .. Len(q) : q[i] = s[m]
    <3>1. ASSUME NEW i \in 1 .. Len(q) PROVE \E m \in 1 .. Len(s) : m # k /\ q[i] = s[m]
      BY <1>0, <2>9
    <3>2. ASSUME NEW m \in 1 .. Len(s), m # k PROVE \E i \in 1 .. Len(q) : q[i] = s[m]
      <4>1. CASE m < k
        BY <1>0, <2>9, <4>1
      <4>2. CASE m > k
        <5>1. m - 1 \in 1 .. Len(q) /\ ~(m - 1 < k) /\ (m - 1) + 1 = m
          BY <1>0, <2>9, <4>2
        <5> QED BY <2>9, <5>1
      <4> QED BY <1>0, <3>2, <4>1, <4>2
    <3> QED BY <3>1, <3>2
  <2>12. \A m \in 1 .. Len(s) : s[m] = c <=> m = k
    BY <2>0 DEF Once
  <2>13. Range(q) = Range(s) \ {c}
    <3>1. ASSUME NEW x \in Range(q) PROVE x \in Range(s) \ {c}
      BY <1>0, <2>10, <2>11, <2>12
    <3>2. ASSUME NEW x \in Range(s) \ {c} PROVE x \in Range(q)
      BY <1>0, <2>10, <2>11, <2>12
    <3> QED BY <3>1, <3>2
  <2>14. Once(q)
    <3> SUFFICES ASSUME NEW i \in 1 .. Len(q), NEW j \in 1 .. Len(q), q[i] = q[j] PROVE i = j
      BY DEF Once
    <3>1. \A x \in 1 .. Len(q) : x \in 1 .. Len(s) /\ x + 1 \in 1 .. Len(s)
      BY <1>0, <2>9
    <3> QED BY <1>0, <2>9, <3>1 DEF Once
  <2>16. ASSUME s # <<>>, Head(s) # c PROVE q # <<>> /\ Head(q) = Head(s)
    <3>1. Head(s) = s[1] /\ k # 1
      BY <2>0, <2>16
    <3>2. 1 \in 1 .. Len(q) /\ q[1] = s[1]
      BY <1>0, <2>9, <3>1
    <3>3. q # <<>> /\ Head(q) = q[1]
      BY <2>9, <3>2, EmptySeq
    <3> QED BY <3>1, <3>2, <3>3
  <2> QED BY <1>0, <2>9, <2>13, <2>14, <2>16 DEF q
<1> QED BY <1>1, <1>2

LEMMA RemovedInLine ==
    ASSUME NEW S, NEW s \in Seq(S), NEW c, Once(s), NEW R, InLine(s, R)
    PROVE  InLine(RemoveFirst(s, c), R)
<1> DEFINE q == RemoveFirst(s, c)
<1>0. Len(s) \in Nat
  BY LenProperties
<1>1. CASE ~\E i \in 1 .. Len(s) : s[i] = c
  BY <1>1 DEF RemoveFirst
<1>2. CASE \E i \in 1 .. Len(s) : s[i] = c
  <2>0. PICK k \in 1 .. Len(s) : s[k] = c
    BY <1>2
  <2>9. /\ q \in Seq(S) /\ Len(q) = Len(s) - 1
        /\ \A i \in 1 .. Len(q) : q[i] = IF i < k THEN s[i] ELSE s[i + 1]
    BY <2>0, RemovedIs
  <2> HIDE DEF q
  <2>15. InLine(q, R)
    <3> SUFFICES ASSUME NEW i \in 1 .. Len(q), NEW j \in 1 .. Len(q), i < j
                 PROVE  <<q[i], q[j]>> \in R
      BY DEF InLine
    <3> DEFINE a == IF i < k THEN i ELSE i + 1
               b == IF j < k THEN j ELSE j + 1
    <3>1. a \in 1 .. Len(s) /\ b \in 1 .. Len(s) /\ a < b
      BY <1>0, <2>9
    <3>2. q[i] = s[a] /\ q[j] = s[b]
      BY <2>9
    <3> HIDE DEF a, b
    <3> QED BY <3>1, <3>2 DEF InLine
  <2> QED BY <2>15 DEF q
<1> QED BY <1>1, <1>2

(***************************************************************************)
(* The line of responses, from the window to the application.              *)
(***************************************************************************)
\* Where responses stand: handed over, ready, taken out of the window, the one the
\* holder of the lock waits for (which may have left the window), in the window.
LineUp(d, y, t, o, w, R) ==
    /\ InLine(d, R) /\ InLine(y, R) /\ InLine(t, R) /\ InLine(w, R)
    /\ AllBefore(Range(d), Range(y) \cup Range(t) \cup o \cup Range(w), R)
    /\ AllBefore(Range(y), Range(t) \cup o \cup Range(w), R)
    /\ AllBefore(Range(t), o \cup Range(w), R)
    /\ AllBefore(o, Range(w) \ o, R)

\* The line moves on: a response is handed over, put among the ready ones, taken.
LEMMA LineDelivers ==
    ASSUME NEW S, NEW R, NEW d \in Seq(S), NEW y \in Seq(S), NEW t \in Seq(S), NEW o,
           NEW w \in Seq(S), LineUp(d, y, t, o, w, R), y # <<>>
    PROVE  LineUp(Append(d, Head(y)), Tail(y), t, o, w, R)
<1>1. /\ Head(y) \in S /\ Tail(y) \in Seq(S) /\ Range(y) = Range(Tail(y)) \cup {Head(y)}
      /\ InLine(Tail(y), R) /\ AllBefore({Head(y)}, Range(Tail(y)), R)
  BY TailFacts, TailInLine DEF LineUp
<1>2. /\ Range(Append(d, Head(y))) = Range(d) \cup {Head(y)}
      /\ InLine(d, R) /\ AllBefore(Range(d), {Head(y)}, R) => InLine(Append(d, Head(y)), R)
  BY <1>1, AppendRange, AppendInLine
<1> DEFINE q == Append(d, Head(y))
           v == Tail(y)
           h == Head(y)
<1> HIDE DEF q, v, h
<1>3. /\ Range(y) = Range(v) \cup {h} /\ InLine(v, R) /\ AllBefore({h}, Range(v), R)
      /\ Range(q) = Range(d) \cup {h}
      /\ InLine(d, R) /\ AllBefore(Range(d), {h}, R) => InLine(q, R)
  BY <1>1, <1>2 DEF q, v, h
<1>4. LineUp(q, v, t, o, w, R)
  BY <1>3 DEF LineUp, AllBefore
<1> QED BY <1>4 DEF q, v

LEMMA LineReadies ==
    ASSUME NEW S, NEW R, NEW d \in Seq(S), NEW y \in Seq(S), NEW t \in Seq(S), NEW o,
           NEW w \in Seq(S), LineUp(d, y, t, o, w, R), t # <<>>
    PROVE  LineUp(d, Append(y, Head(t)), Tail(t), o, w, R)
<1>1. /\ Head(t) \in S /\ Tail(t) \in Seq(S) /\ Range(t) = Range(Tail(t)) \cup {Head(t)}
      /\ InLine(Tail(t), R) /\ AllBefore({Head(t)}, Range(Tail(t)), R)
  BY TailFacts, TailInLine DEF LineUp
<1>2. /\ Range(Append(y, Head(t))) = Range(y) \cup {Head(t)}
      /\ InLine(y, R) /\ AllBefore(Range(y), {Head(t)}, R) => InLine(Append(y, Head(t)), R)
  BY <1>1, AppendRange, AppendInLine
<1> DEFINE q == Append(y, Head(t))
           v == Tail(t)
           h == Head(t)
<1> HIDE DEF q, v, h
<1>3. /\ Range(t) = Range(v) \cup {h} /\ InLine(v, R) /\ AllBefore({h}, Range(v), R)
      /\ Range(q) = Range(y) \cup {h}
      /\ InLine(y, R) /\ AllBefore(Range(y), {h}, R) => InLine(q, R)
  BY <1>1, <1>2 DEF q, v, h
<1>4. LineUp(d, q, v, o, w, R)
  BY <1>3 DEF LineUp, AllBefore
<1> QED BY <1>4 DEF q, v

LEMMA LineTakes ==
    ASSUME NEW S, NEW R, NEW d \in Seq(S), NEW y \in Seq(S), NEW t \in Seq(S), NEW c \in S,
           NEW w \in Seq(S), LineUp(d, y, t, {c}, w, R), Once(w)
    PROVE  LineUp(d, y, Append(t, c), {}, RemoveFirst(w, c), R)
<1> DEFINE q == Append(t, c)
           v == RemoveFirst(w, c)
<1>1. /\ Range(q) = Range(t) \cup {c}
      /\ InLine(t, R) /\ AllBefore(Range(t), {c}, R) => InLine(q, R)
  BY AppendRange, AppendInLine
<1>2. Range(v) = Range(w) \ {c} /\ (InLine(w, R) => InLine(v, R))
  BY RemovedFacts, RemovedInLine
<1> HIDE DEF q, v
<1>3. LineUp(d, y, q, {}, v, R)
  BY <1>1, <1>2 DEF LineUp, AllBefore
<1> QED BY <1>3 DEF q, v

\* The holder of the lock looks at the oldest call, or gives up; a call leaves.
LEMMA LineLooks ==
    ASSUME NEW S, NEW R, NEW d, NEW y, NEW t, NEW w \in Seq(S),
           LineUp(d, y, t, {}, w, R), w # <<>>
    PROVE  LineUp(d, y, t, {Head(w)}, w, R)
<1>1. Range(w) = Range(Tail(w)) \cup {Head(w)}
  BY TailFacts
<1>2. InLine(w, R) => AllBefore({Head(w)}, Range(Tail(w)), R)
  BY TailInLine
<1> QED BY <1>1, <1>2 DEF LineUp, AllBefore

LEMMA LineStopsLooking ==
    ASSUME NEW R, NEW d, NEW y, NEW t, NEW o, NEW w, LineUp(d, y, t, o, w, R)
    PROVE  LineUp(d, y, t, {}, w, R)
BY DEF LineUp, AllBefore

LEMMA LineLoses ==
    ASSUME NEW S, NEW R, NEW d, NEW y, NEW t, NEW o, NEW w \in Seq(S), NEW c,
           LineUp(d, y, t, o, w, R), Once(w)
    PROVE  LineUp(d, y, t, o, RemoveFirst(w, c), R)
<1>1. Range(RemoveFirst(w, c)) = Range(w) \ {c}
  BY RemovedFacts
<1>2. InLine(w, R) => InLine(RemoveFirst(w, c), R)
  BY RemovedInLine
<1> QED BY <1>1, <1>2 DEF LineUp, AllBefore

\* A call joins the line at its end, or nobody does and the relation grows.
LEMMA LineGrows ==
    ASSUME NEW R, NEW Q, NEW d, NEW y, NEW t, NEW o, NEW w,
           LineUp(d, y, t, o, w, R), R \subseteq Q
    PROVE  LineUp(d, y, t, o, w, Q)
<1>1. \A s : InLine(s, R) => InLine(s, Q)
  BY DEF InLine
<1>2. \A A, B : AllBefore(A, B, R) => AllBefore(A, B, Q)
  BY DEF AllBefore
<1> QED BY <1>1, <1>2 DEF LineUp

LEMMA LineJoined ==
    ASSUME NEW S, NEW R, NEW d, NEW y, NEW t, NEW o, NEW w \in Seq(S), NEW c \in S,
           LineUp(d, y, t, o, w, R),
           AllBefore(Range(d) \cup Range(y) \cup Range(t) \cup o \cup Range(w), {c}, R)
    PROVE  LineUp(d, y, t, o, Append(w, c), R)
<1>1. Range(Append(w, c)) = Range(w) \cup {c}
  BY AppendRange
<1>2. AllBefore(Range(w), {c}, R)
  BY DEF AllBefore
<1>3. InLine(w, R)
  BY DEF LineUp
<1>4. InLine(Append(w, c), R)
  BY <1>2, <1>3, AppendInLine
<1> QED BY <1>1, <1>4 DEF LineUp, AllBefore

\* What the takers have taken.
Firsts(t) == [i \in 1 .. Len(t) |-> t[i][1]]
Takers(t) == [i \in 1 .. Len(t) |-> t[i][2]]

LEMMA PairSeqs ==
    ASSUME NEW t \in Seq(Ops \X Agents)
    PROVE  /\ Firsts(t) \in Seq(Ops) /\ Takers(t) \in Seq(Agents)
           /\ Len(Firsts(t)) = Len(t) /\ Len(Takers(t)) = Len(t) /\ Len(t) \in Nat
           /\ \A i \in 1 .. Len(t) : Firsts(t)[i] = t[i][1] /\ Takers(t)[i] = t[i][2]
<1>1. Len(t) \in Nat /\ \A i \in 1 .. Len(t) : t[i] \in Ops \X Agents
  BY LenProperties, ElementOfSeq
<1>2. Firsts(t) \in [1 .. Len(t) -> Ops] /\ Takers(t) \in [1 .. Len(t) -> Agents]
  BY <1>1 DEF Firsts, Takers
<1>3. Firsts(t) \in Seq(Ops) /\ Takers(t) \in Seq(Agents)
  <2>1. \E n \in Nat : Firsts(t) \in [1 .. n -> Ops] /\ Takers(t) \in [1 .. n -> Agents]
    BY <1>1, <1>2
  <2>2. Firsts(t) \in UNION {[1 .. n -> Ops] : n \in Nat}
    BY <2>1
  <2>3. Takers(t) \in UNION {[1 .. n -> Agents] : n \in Nat}
    BY <2>1
  <2> QED BY <2>2, <2>3, SeqDef
<1>4. Len(Firsts(t)) = Len(t) /\ Len(Takers(t)) = Len(t)
  BY <1>1, <1>2, <1>3, LenProperties
<1> QED BY <1>1, <1>3, <1>4 DEF Firsts, Takers

LEMMA PairAppend ==
    ASSUME NEW t \in Seq(Ops \X Agents), NEW a \in Ops, NEW b \in Agents
    PROVE  /\ Append(t, <<a, b>>) \in Seq(Ops \X Agents)
           /\ Firsts(Append(t, <<a, b>>)) = Append(Firsts(t), a)
           /\ Takers(Append(t, <<a, b>>)) = Append(Takers(t), b)
<1> DEFINE q == Append(t, <<a, b>>)
<1>1. /\ q \in Seq(Ops \X Agents) /\ Len(q) = Len(t) + 1 /\ q[Len(t) + 1] = <<a, b>>
      /\ \A i \in 1 .. Len(t) : q[i] = t[i]
  BY AppendProperties
<1> HIDE DEF q
<1>2. /\ Firsts(q) \in Seq(Ops) /\ Takers(q) \in Seq(Agents) /\ Len(Firsts(q)) = Len(q)
      /\ Len(Takers(q)) = Len(q) /\ Len(q) \in Nat
      /\ \A i \in 1 .. Len(q) : Firsts(q)[i] = q[i][1] /\ Takers(q)[i] = q[i][2]
  BY <1>1, PairSeqs
<1>3. /\ Firsts(t) \in Seq(Ops) /\ Takers(t) \in Seq(Agents) /\ Len(Firsts(t)) = Len(t)
      /\ Len(Takers(t)) = Len(t) /\ Len(t) \in Nat
      /\ \A i \in 1 .. Len(t) : Firsts(t)[i] = t[i][1] /\ Takers(t)[i] = t[i][2]
  BY PairSeqs
<1> DEFINE x == Append(Firsts(t), a)
           z == Append(Takers(t), b)
<1>4. /\ x \in Seq(Ops) /\ Len(x) = Len(t) + 1 /\ x[Len(t) + 1] = a
      /\ \A i \in 1 .. Len(t) : x[i] = Firsts(t)[i]
  BY <1>3, AppendProperties
<1>5. /\ z \in Seq(Agents) /\ Len(z) = Len(t) + 1 /\ z[Len(t) + 1] = b
      /\ \A i \in 1 .. Len(t) : z[i] = Takers(t)[i]
  BY <1>3, AppendProperties
<1> HIDE DEF x, z
<1>6. \A i \in 1 .. Len(q) : i \in 1 .. Len(t) \/ i = Len(t) + 1
  BY <1>1, <1>3
<1>7. \A i \in 1 .. Len(q) : Firsts(q)[i] = x[i] /\ Takers(q)[i] = z[i]
  BY <1>1, <1>2, <1>3, <1>4, <1>5, <1>6
<1>8. Firsts(q) = x
  BY <1>1, <1>2, <1>4, <1>7, SeqEqual
<1>9. Takers(q) = z
  BY <1>1, <1>2, <1>5, <1>7, SeqEqual
<1> QED BY <1>1, <1>8, <1>9 DEF q, x, z

LEMMA PairTail ==
    ASSUME NEW t \in Seq(Ops \X Agents), t # <<>>
    PROVE  /\ Tail(t) \in Seq(Ops \X Agents) /\ Head(t) \in Ops \X Agents
           /\ Firsts(t) # <<>> /\ Head(Firsts(t)) = Head(t)[1]
           /\ Takers(t) # <<>> /\ Head(Takers(t)) = Head(t)[2]
           /\ Firsts(Tail(t)) = Tail(Firsts(t)) /\ Takers(Tail(t)) = Tail(Takers(t))
<1> DEFINE q == Tail(t)
<1>1. /\ q \in Seq(Ops \X Agents) /\ Len(q) = Len(t) - 1 /\ Len(t) \in Nat \ {0}
      /\ \A i \in 1 .. Len(q) : q[i] = t[i + 1]
      /\ Head(t) \in Ops \X Agents /\ Head(t) = t[1]
  BY HeadTailProperties, EmptySeq
<1> HIDE DEF q
<1>2. /\ Firsts(q) \in Seq(Ops) /\ Takers(q) \in Seq(Agents) /\ Len(Firsts(q)) = Len(q)
      /\ Len(Takers(q)) = Len(q) /\ Len(q) \in Nat
      /\ \A i \in 1 .. Len(q) : Firsts(q)[i] = q[i][1] /\ Takers(q)[i] = q[i][2]
  BY <1>1, PairSeqs
<1>3. /\ Firsts(t) \in Seq(Ops) /\ Takers(t) \in Seq(Agents) /\ Len(Firsts(t)) = Len(t)
      /\ Len(Takers(t)) = Len(t)
      /\ \A i \in 1 .. Len(t) : Firsts(t)[i] = t[i][1] /\ Takers(t)[i] = t[i][2]
  BY PairSeqs
<1>4. Firsts(t) # <<>> /\ Takers(t) # <<>>
  BY <1>1, <1>3, EmptySeq
<1> DEFINE x == Tail(Firsts(t))
           z == Tail(Takers(t))
<1>5. /\ x \in Seq(Ops) /\ Len(x) = Len(t) - 1
      /\ \A i \in 1 .. Len(x) : x[i] = Firsts(t)[i + 1]
      /\ Head(Firsts(t)) = Firsts(t)[1]
  BY <1>3, <1>4, HeadTailProperties
<1>6. /\ z \in Seq(Agents) /\ Len(z) = Len(t) - 1
      /\ \A i \in 1 .. Len(z) : z[i] = Takers(t)[i + 1]
      /\ Head(Takers(t)) = Takers(t)[1]
  BY <1>3, <1>4, HeadTailProperties
<1> HIDE DEF x, z
<1>7. \A i \in 1 .. Len(q) : i + 1 \in 1 .. Len(t)
  BY <1>1
<1>8. \A i \in 1 .. Len(q) : Firsts(q)[i] = x[i] /\ Takers(q)[i] = z[i]
  BY <1>1, <1>2, <1>3, <1>5, <1>6, <1>7
<1>9. Firsts(q) = x
  BY <1>1, <1>2, <1>5, <1>8, SeqEqual
<1>10. Takers(q) = z
  <2>1. /\ Takers(q) \in Seq(Agents) /\ z \in Seq(Agents) /\ Len(Takers(q)) = Len(z)
        /\ \A i \in 1 .. Len(Takers(q)) : Takers(q)[i] = z[i]
    BY <1>1, <1>2, <1>6, <1>8
  <2> QED BY <2>1, SeqEqual
<1>11. 1 \in 1 .. Len(t)
  BY <1>1
<1>12. Head(Firsts(t)) = Head(t)[1] /\ Head(Takers(t)) = Head(t)[2]
  BY <1>1, <1>3, <1>5, <1>6, <1>11
<1> QED BY <1>1, <1>4, <1>9, <1>10, <1>12 DEF q, x, z

(***************************************************************************)
(* The invariant of the stream sender, and the bytes of its window.        *)
(***************************************************************************)
\* Which of two calls was made first.
SentBefore == {e \in Ops \X Ops :
    \E m, n \in 1 .. Len(sent) : m < n /\ sent[m] = e[1] /\ sent[n] = e[2]}

Drained == {oldest} \ {NoOp}
Lined == Range(delivered) \cup Range(ready) \cup Range(Firsts(taken)) \cup Drained
             \cup Range(window)

\* Responses move along one line in the order of the sends.
LineKept ==
    /\ LineUp(delivered, ready, Firsts(taken), Drained, window, SentBefore)
    /\ Once(sent) /\ Lined \subseteq Range(sent)

InWindow == {"prepare", "encode", "reserve", "lock", "taken", "failing", "remote"}
Owning == {"encode", "reserve", "lock", "taken"}

\* A call is in the window until it has settled, is charged once, and asks for the
\* lock once; the one the holder waits for leaves by itself only uncharged.
CallsKept ==
    /\ \A c \in Ops : phase[c] # "none" => c \in Range(sent)
    /\ \A c \in Ops : phase[c] \in InWindow => c \in Range(window)
    /\ \A c \in Ops : settled[c] # "no" <=> phase[c] = "over"
    /\ \A c \in Ops : Encodes /\ phase[c] \in {"none", "prepare"} \cup Owning
                          => byteLength[c] = 0
    /\ \A c \in Ops : phase[c] \in {"reserve", "lock", "taken"} => Encodes
    /\ \A c \in Ops : Call(c) \in Range(locks) => phase[c] = "lock"
    /\ \A c \in Ops : Call(c) \in Range(Takers(taken)) => phase[c] = "taken"
    /\ oldest # NoOp /\ oldest \notin Range(window)
           => byteLength[oldest] = 0 /\ phase[oldest] = "over"

\* One candidate at a time has passed prepare(), and it is the first with a ticket.
TicketsKept ==
    /\ Once(tickets) /\ Range(tickets) \subseteq Range(sent)
    /\ Encodes => \A c \in Ops :
           /\ phase[c] = "prepare" => c \in Range(tickets)
           /\ phase[c] \in Owning => tickets # <<>> /\ Head(tickets) = c

\* An operation sends once and asks for the lock once; cancel() closes the stream
\* before anything else, and ends when the window is empty.
OpsKept ==
    /\ \A p \in Ops : kind[p] = "send" /\ at[p] \in {"idle", "loop", "lock", "taken"}
                          => p \notin Range(sent)
    /\ \A p \in Ops : Op(p) \in Range(locks) => at[p] = "lock"
    /\ \A p \in Ops : Op(p) \in Range(Takers(taken)) => at[p] = "taken"
    /\ \A p \in Ops : kind[p] = "cancel" /\ at[p] # "idle" => streamClosed
    /\ \A p \in Ops : at[p] = "admission" => kind[p] = "send"
    /\ CancelEmpties

LocksKept ==
    /\ Once(locks) /\ Once(Takers(taken))
    /\ oldest # NoOp => locks # <<>>

\* The account is the number of the bytes in the window.
WindowKept ==
    /\ Len(window) <= MaxInFlight
    /\ IsFiniteSet(WindowBytes) /\ inFlightBytes = Cardinality(WindowBytes)
    /\ Limited => inFlightBytes <= options.bytes

StreamInv ==
    /\ StreamTypeOK /\ LineKept /\ CallsKept /\ TicketsKept /\ OpsKept /\ LocksKept
    /\ WindowKept

LEMMA OpsNumbers == NoOp \notin Ops /\ IsFiniteSet(Ops)
BY StreamAssumption DEF NoOp

LEMMA AgentFacts ==
    /\ \A p \in Ops : /\ Op(p) \in Agents /\ Op(p)[1] = p /\ Op(p)[2] = "op"
                      /\ Call(p) \in Agents /\ Call(p)[1] = p /\ Call(p)[2] = "call"
    /\ \A p, q \in Ops : /\ Op(p) = Op(q) => p = q
                         /\ Call(p) = Call(q) => p = q
                         /\ Op(p) # Call(q)
    /\ \A agent \in Agents : \E p \in Ops : agent = Op(p) \/ agent = Call(p)
BY DEF Agents, Op, Call

(***************************************************************************)
(* The bytes of the window.                                                *)
(***************************************************************************)
Bytes(A, f) == UNION {{<<c, b>> : b \in 1 .. f[c]} : c \in A}

LEMMA BytesIn == ASSUME NEW A, NEW f, NEW e
                 PROVE  e \in Bytes(A, f) <=> \E c \in A : \E b \in 1 .. f[c] : e = <<c, b>>
BY DEF Bytes

LEMMA BytesMore ==
    ASSUME NEW A, NEW f, NEW c, c \notin A, f[c] \in Nat, IsFiniteSet(Bytes(A, f))
    PROVE  /\ IsFiniteSet(Bytes(A \cup {c}, f))
           /\ Cardinality(Bytes(A \cup {c}, f)) = Cardinality(Bytes(A, f)) + f[c]
<1> DEFINE n == f[c]
           new == {c} \X (1 .. n)
           old == Bytes(A, f)
<1>1. IsFiniteSet(1 .. n) /\ Cardinality(1 .. n) = n
  <2>1. 1 \in Int /\ n \in Int /\ n \in Nat
    OBVIOUS
  <2> HIDE DEF n
  <2> QED BY <2>1, FS_Interval
<1>2. IsFiniteSet({c}) /\ Cardinality({c}) = 1
  BY FS_Singleton
<1>3. IsFiniteSet(new) /\ Cardinality(new) = 1 * n
  <2> HIDE DEF n
  <2> DEFINE T == 1 .. n
             S == {c}
  <2>0. /\ IsFiniteSet(S) /\ IsFiniteSet(T) /\ Cardinality(S) = 1 /\ Cardinality(T) = n
    BY <1>1, <1>2
  <2> HIDE DEF S, T
  <2>1. IsFiniteSet(S \X T) /\ Cardinality(S \X T) = 1 * n
    BY <2>0, FS_Product
  <2> USE DEF S, T
  <2> QED BY <2>1
<1>4. Bytes(A \cup {c}, f) = old \cup new
  <2>1. ASSUME NEW e PROVE e \in Bytes(A \cup {c}, f) <=> e \in old \cup new
    <3>1. e \in new <=> \E b \in 1 .. f[c] : e = <<c, b>>
      OBVIOUS
    <3>2. e \in old <=> \E d \in A : \E b \in 1 .. f[d] : e = <<d, b>>
      BY BytesIn
    <3>3. e \in Bytes(A \cup {c}, f) <=> \E d \in A \cup {c} : \E b \in 1 .. f[d] : e = <<d, b>>
      BY BytesIn
    <3> HIDE DEF new, old
    <3> QED BY <3>1, <3>2, <3>3
  <2> QED BY <2>1
<1>5. old \cap new = {}
  <2> SUFFICES ASSUME NEW e \in old, e \in new PROVE FALSE
    OBVIOUS
  <2>1. PICK d \in A : \E b \in 1 .. f[d] : e = <<d, b>>
    BY BytesIn
  <2> QED BY <2>1
<1>6. Cardinality(old \cap new) = 0
  BY <1>5, FS_EmptySet
<1>7. IsFiniteSet(old \cup new)
      /\ Cardinality(old \cup new) = Cardinality(old) + Cardinality(new) - Cardinality(old \cap new)
  BY <1>3, FS_Union
<1>8. Cardinality(old) \in Nat /\ n \in Nat
  BY FS_CardinalityType
<1> HIDE DEF old, new, n
<1>9. Cardinality(old \cup new) = Cardinality(old) + n
  BY <1>3, <1>6, <1>7, <1>8
<1> QED BY <1>4, <1>7, <1>9 DEF old, n

LEMMA BytesLess ==
    ASSUME NEW A, NEW f, NEW c \in A, f[c] \in Nat, IsFiniteSet(Bytes(A, f))
    PROVE  /\ IsFiniteSet(Bytes(A \ {c}, f))
           /\ Cardinality(Bytes(A \ {c}, f)) \in Nat
           /\ Cardinality(Bytes(A \ {c}, f)) = Cardinality(Bytes(A, f)) - f[c]
<1> DEFINE B == A \ {c}
<1>1. Bytes(B, f) \subseteq Bytes(A, f)
  BY DEF Bytes
<1>2. IsFiniteSet(Bytes(B, f)) /\ Cardinality(Bytes(B, f)) \in Nat
  BY <1>1, FS_Subset, FS_CardinalityType
<1>3. c \notin B /\ A = B \cup {c}
  OBVIOUS
<1> HIDE DEF B
<1>4. Cardinality(Bytes(B \cup {c}, f)) = Cardinality(Bytes(B, f)) + f[c]
  BY <1>2, <1>3, BytesMore
<1>5. Cardinality(Bytes(A, f)) = Cardinality(Bytes(B, f)) + f[c]
  BY <1>3, <1>4
<1> QED BY <1>2, <1>5 DEF B

LEMMA BytesSame ==
    ASSUME NEW A, NEW f, NEW g, \A c \in A : f[c] = g[c]
    PROVE  Bytes(A, f) = Bytes(A, g)
BY DEF Bytes

LEMMA WindowBytesAre == WindowBytes = Bytes(Range(window), byteLength)
BY DEF WindowBytes, Bytes

(***************************************************************************)
(* It holds at first; steps that only move an operation.                   *)
(***************************************************************************)
AtStates == Over \cup {"idle", "loop", "lock", "taken", "deliver", "callback", "admission"}

LEMMA StreamInvInit == StreamInit => StreamInv
<1> SUFFICES ASSUME StreamInit PROVE StreamInv
  OBVIOUS
<1>1. /\ <<>> \in Seq(Ops) /\ <<>> \in Seq(Agents) /\ <<>> \in Seq(Ops \X Agents)
      /\ Range(<<>>) = {} /\ Once(<<>>) /\ \A R : InLine(<<>>, R)
  BY EmptyFacts
<1>2. Len(<<>>) = 0
  BY EmptySeq
<1>3. Firsts(<<>>) = <<>> /\ Takers(<<>>) = <<>>
  BY <1>2 DEF Firsts, Takers
<1>4. StreamTypeOK
  <2>1. /\ {window, ready, tickets, sent, delivered} \subseteq Seq(Ops)
        /\ taken \in Seq(Ops \X Agents) /\ locks \in Seq(Agents)
    BY <1>1 DEF StreamInit
  <2>2. byteLength \in [Ops -> Nat]
    <3>1. byteLength \in [Ops -> Sizes \cup {0}]
      BY DEF StreamInit
    <3>2. Sizes \cup {0} \subseteq Nat
      BY StreamAssumption
    <3> QED BY <3>1, <3>2
  <2>3. /\ at \in [Ops -> AtStates] /\ child \in [Ops -> Ops \cup {NoOp}]
        /\ failedOnce \in [Ops -> BOOLEAN]
    BY DEF StreamInit, AtStates
  <2>4. /\ phase \in [Ops -> {"none", "prepare", "encode", "reserve", "lock", "taken",
                             "failing", "remote", "over"}]
        /\ settled \in [Ops -> {"no", "ok", "failed"}]
    BY DEF StreamInit
  <2> QED BY <2>1, <2>2, <2>3, <2>4 DEF StreamInit, StreamTypeOK, AtStates
<1>5. LineKept
  <2>1. Drained = {} /\ Lined = {}
    BY <1>1, <1>3 DEF StreamInit, Drained, Lined
  <2> QED BY <1>1, <1>3, <2>1 DEF StreamInit, LineKept, LineUp, AllBefore
<1>6. CallsKept
  BY <1>1, <1>3, StreamAssumption DEF StreamInit, CallsKept, InWindow, Owning, Encodes
<1>7. TicketsKept
  BY <1>1 DEF StreamInit, TicketsKept, Owning
<1>8. OpsKept
  BY <1>1, <1>3 DEF StreamInit, OpsKept, CancelEmpties, Over
<1>9. LocksKept
  BY <1>1, <1>3 DEF StreamInit, LocksKept
<1>10. WindowKept
  <2>1. WindowBytes = {}
    BY <1>1 DEF StreamInit, WindowBytes
  <2>2. options.bytes \in Nat
    BY StreamAssumption DEF StreamInit
  <2> QED BY <1>2, <2>1, <2>2, FS_EmptySet, StreamAssumption DEF StreamInit, WindowKept
<1> QED BY <1>4, <1>5, <1>6, <1>7, <1>8, <1>9, <1>10 DEF StreamInv

\* Parts that a step leaves alone.
LEMMA LineStays == ASSUME LineKept, UNCHANGED <<delivered, ready, taken, oldest, window, sent>>
                   PROVE  LineKept'
BY DEF LineKept, Drained, Lined, SentBefore

LEMMA WindowStays == ASSUME WindowKept, UNCHANGED <<options, window, byteLength, inFlightBytes>>
                     PROVE  WindowKept'
BY DEF WindowKept, WindowBytes, Limited

LEMMA LocksStay == ASSUME LocksKept, UNCHANGED <<locks, taken, oldest>> PROVE LocksKept'
BY DEF LocksKept

LEMMA TicketsStay == ASSUME TicketsKept, UNCHANGED <<options, tickets, sent, phase>>
                     PROVE  TicketsKept'
BY DEF TicketsKept, Encodes, Limited

LEMMA OpsStay == ASSUME OpsKept, UNCHANGED <<kind, at, sent, locks, taken, streamClosed, window>>
                 PROVE  OpsKept'
BY DEF OpsKept, CancelEmpties

LEMMA CallsStay == ASSUME CallsKept,
                          UNCHANGED <<options, phase, sent, window, settled, byteLength, oldest,
                                      locks, taken>>
                   PROVE  CallsKept'
BY DEF CallsKept, Encodes, Limited

\* A step of one operation outside of the drain lock.
LEMMA OpMoves ==
    ASSUME StreamInv, UNCHANGED <<options, kind, callVars, drainVars, sent, delivered>>,
           NEW p \in Ops, NEW x \in AtStates, at' = [at EXCEPT ![p] = x],
           at[p] \notin {"lock", "taken"}, x \notin {"lock", "taken"},
           child' \in [Ops -> Ops \cup {NoOp}], failedOnce' \in [Ops -> BOOLEAN],
           hasError' \in BOOLEAN, streamClosed' \in BOOLEAN, streamClosed => streamClosed',
           kind[p] = "send" /\ x \in {"idle", "loop"} => p \notin Range(sent),
           kind[p] = "cancel" => streamClosed',
           x = "admission" => kind[p] = "send",
           kind[p] = "cancel" /\ x \in Over => window = <<>>
    PROVE  StreamInv'
<1>1. LineKept' /\ CallsKept' /\ TicketsKept' /\ LocksKept' /\ WindowKept'
  BY LineStays, CallsStay, TicketsStay, LocksStay, WindowStays DEF StreamInv, callVars, drainVars
<1>2. StreamTypeOK'
  BY DEF StreamInv, StreamTypeOK, callVars, drainVars, AtStates
<1>3. OpsKept'
  BY DEF StreamInv, StreamTypeOK, OpsKept, CancelEmpties, callVars, drainVars, AtStates
<1> QED BY <1>1, <1>2, <1>3 DEF StreamInv

LEMMA ClosingStep == ASSUME StreamInv, NEW p \in Ops, Close(p) PROVE StreamInv'
<1>1. /\ at[p] = "idle" /\ kind[p] \in {"cancel", "abort"} /\ streamClosed' = TRUE
      /\ at' = [at EXCEPT ![p] = IF kind[p] = "cancel" THEN "loop" ELSE "done"]
      /\ UNCHANGED <<options, kind, child, failedOnce, callVars, drainVars, hasError, sent,
                     delivered>>
  BY DEF Close, Called, CloseStream
<1>2. child \in [Ops -> Ops \cup {NoOp}] /\ failedOnce \in [Ops -> BOOLEAN] /\ hasError \in BOOLEAN
  BY DEF StreamInv, StreamTypeOK
<1> DEFINE x == IF kind[p] = "cancel" THEN "loop" ELSE "done"
<1>3. x \in AtStates /\ x \notin {"lock", "taken", "admission"} /\ (kind[p] = "cancel" => x \notin Over)
  BY DEF AtStates, Over
<1> QED BY <1>1, <1>2, <1>3, OpMoves

LEMMA NestStep == ASSUME StreamInv, NEW p \in Ops, NEW parent \in Ops, Nest(p, parent)
                  PROVE  StreamInv'
<1>1. /\ at[p] = "idle" /\ child' = [child EXCEPT ![parent] = p]
      /\ UNCHANGED <<options, kind, failedOnce, callVars, drainVars, hasError, sent, delivered>>
  BY DEF Nest, Called
<1>2. /\ child \in [Ops -> Ops \cup {NoOp}] /\ failedOnce \in [Ops -> BOOLEAN]
      /\ hasError \in BOOLEAN /\ streamClosed \in BOOLEAN /\ kind[p] \in Kinds
  BY DEF StreamInv, StreamTypeOK
<1>3. child' \in [Ops -> Ops \cup {NoOp}]
  BY <1>1, <1>2
<1>4. PICK x \in {"loop", "done"} : /\ at' = [at EXCEPT ![p] = x]
                                    /\ kind[p] = "cancel" => x = "loop"
                                    /\ streamClosed' \in {TRUE, streamClosed}
                                    /\ kind[p] = "cancel" => streamClosed' = TRUE
  BY DEF Nest, CloseStream
<1>5. x \in AtStates /\ x \notin {"lock", "taken", "admission"} /\ (kind[p] = "cancel" => x \notin Over)
  BY <1>4 DEF AtStates, Over
<1>6. kind[p] = "send" => p \notin Range(sent)
  BY <1>1 DEF StreamInv, OpsKept
<1>7. streamClosed' \in BOOLEAN /\ (streamClosed => streamClosed')
  <2>1. streamClosed' = TRUE \/ streamClosed' = streamClosed
    BY <1>4
  <2> QED BY <1>2, <2>1
<1>8. kind[p] = "cancel" => streamClosed'
  BY <1>4
<1> QED BY <1>1, <1>2, <1>3, <1>4, <1>5, <1>6, <1>7, <1>8, OpMoves

\* The steps of an operation that only move it.
Moves(p) == Refuse(p) \/ AdmissionEnds(p) \/ CapacityFound(p) \/ FlushEnds(p)
                \/ FlushDelivers(p) \/ DeliveryEnds(p)

LEMMA MovesStep == ASSUME StreamInv, NEW p \in Ops, Moves(p) PROVE StreamInv'
<1>1. UNCHANGED <<options, kind, child, failedOnce, callVars, drainVars, hasError, streamClosed,
                  sent, delivered>>
  BY DEF Moves, Refuse, AdmissionEnds, CapacityFound, FlushEnds, FlushDelivers, DeliveryEnds
<1>2. /\ child \in [Ops -> Ops \cup {NoOp}] /\ failedOnce \in [Ops -> BOOLEAN]
      /\ hasError \in BOOLEAN /\ streamClosed \in BOOLEAN /\ kind[p] \in Kinds
  BY DEF StreamInv, StreamTypeOK
<1>3. PICK x \in {"loop", "done", "threw", "deliver"} :
          /\ at' = [at EXCEPT ![p] = x] /\ at[p] \notin {"lock", "taken"}
          /\ kind[p] = "cancel" => at[p] # "idle"
          /\ x = "loop" /\ kind[p] = "send" => p \notin Range(sent)
          /\ kind[p] = "cancel" /\ x \in Over => window = <<>>
  <2>1. CASE Refuse(p)
    BY <2>1 DEF Refuse, Looping, Called, Over
  <2>2. CASE AdmissionEnds(p)
    BY <2>2 DEF AdmissionEnds, StreamInv, OpsKept, Over
  <2>3. CASE CapacityFound(p)
    BY <2>3 DEF CapacityFound, Looping, Called, Over
  <2>4. CASE FlushEnds(p)
    BY <2>4 DEF FlushEnds, Looping, Called, Over
  <2>5. CASE FlushDelivers(p)
    BY <2>5 DEF FlushDelivers, Looping, Called, Over
  <2>6. CASE DeliveryEnds(p)
    BY <2>6 DEF DeliveryEnds, Over
  <2> QED BY <2>1, <2>2, <2>3, <2>4, <2>5, <2>6 DEF Moves
<1>4. kind[p] = "cancel" => streamClosed
  BY <1>3 DEF StreamInv, OpsKept
<1>5. x \in AtStates /\ x \notin {"idle", "lock", "taken", "admission"}
  BY <1>3 DEF AtStates, Over
<1> QED BY <1>1, <1>2, <1>3, <1>4, <1>5, OpMoves

LEMMA CallbackStep == ASSUME StreamInv, NEW p \in Ops, CallbackEnds(p) PROVE StreamInv'
<1>1. /\ at[p] = "callback" /\ child' = [child EXCEPT ![p] = NoOp]
      /\ UNCHANGED <<options, kind, callVars, drainVars, streamClosed, sent, delivered>>
  BY DEF CallbackEnds
<1>2. /\ child \in [Ops -> Ops \cup {NoOp}] /\ failedOnce \in [Ops -> BOOLEAN]
      /\ hasError \in BOOLEAN /\ streamClosed \in BOOLEAN /\ kind[p] \in Kinds
  BY DEF StreamInv, StreamTypeOK
<1>3. child' \in [Ops -> Ops \cup {NoOp}]
  BY <1>1, <1>2
<1>4. PICK x \in {"loop", "threw", "deliver"} :
          /\ at' = [at EXCEPT ![p] = x]
          /\ x = "loop" => kind[p] # "send"
          /\ x = "threw" => kind[p] # "cancel"
  BY DEF CallbackEnds, Throw
<1>5. failedOnce' \in [Ops -> BOOLEAN] /\ hasError' \in BOOLEAN
  BY <1>2 DEF CallbackEnds, Throw
<1>6. kind[p] = "cancel" => streamClosed
  BY <1>1 DEF StreamInv, OpsKept
<1>7. x \in AtStates /\ x \notin {"idle", "lock", "taken", "admission"}
      /\ (kind[p] = "cancel" => x \notin Over)
  BY <1>4 DEF AtStates, Over
<1> QED BY <1>1, <1>2, <1>3, <1>4, <1>5, <1>6, <1>7, OpMoves

(***************************************************************************)
(* Admission, delivery, and asking for the drain lock.                     *)
(***************************************************************************)
\* What is sent joins those sent before.
LEMMA SentJoined ==
    ASSUME sent \in Seq(Ops), NEW p \in Ops, sent' = Append(sent, p)
    PROVE  /\ sent' \in Seq(Ops) /\ Range(sent') = Range(sent) \cup {p}
           /\ Once(sent) /\ p \notin Range(sent) => Once(sent')
           /\ SentBefore \subseteq SentBefore'
           /\ AllBefore(Range(sent), {p}, SentBefore')
<1>1. /\ sent' \in Seq(Ops) /\ Len(sent') = Len(sent) + 1 /\ Len(sent) \in Nat
      /\ \A i \in 1 .. Len(sent) : sent'[i] = sent[i]
      /\ sent'[Len(sent) + 1] = p
  BY AppendProperties, LenProperties
<1>2. Range(sent') = Range(sent) \cup {p} /\ (Once(sent) /\ p \notin Range(sent) => Once(sent'))
  BY AppendFacts
<1>3. \A i \in 1 .. Len(sent) : i \in 1 .. Len(sent') /\ i < Len(sent) + 1
  BY <1>1
<1>4. SentBefore \subseteq SentBefore'
  BY <1>1, <1>3 DEF SentBefore
<1>5. AllBefore(Range(sent), {p}, SentBefore')
  <2> SUFFICES ASSUME NEW a \in Range(sent) PROVE <<a, p>> \in SentBefore'
    BY DEF AllBefore
  <2>1. PICK i \in 1 .. Len(sent) : a = sent[i]
    BY RangeEquality
  <2>2. a \in Ops
    BY <2>1, ElementOfSeq
  <2>3. Len(sent) + 1 \in 1 .. Len(sent')
    BY <1>1
  <2>4. i \in 1 .. Len(sent') /\ i < Len(sent) + 1 /\ sent'[i] = a
    BY <1>1, <1>3, <2>1
  <2> QED BY <1>1, <2>2, <2>3, <2>4 DEF SentBefore
<1> QED BY <1>1, <1>2, <1>4, <1>5

LEMMA StreamTypesOpen ==
    ASSUME StreamInv
    PROVE  /\ options \in Streams /\ options.bytes \in Nat
           /\ at \in [Ops -> AtStates] /\ kind \in [Ops -> Kinds]
           /\ phase \in [Ops -> {"none", "prepare", "encode", "reserve", "lock", "taken",
                                 "failing", "remote", "over"}]
           /\ byteLength \in [Ops -> Nat] /\ settled \in [Ops -> {"no", "ok", "failed"}]
           /\ window \in Seq(Ops) /\ ready \in Seq(Ops) /\ tickets \in Seq(Ops)
           /\ sent \in Seq(Ops) /\ delivered \in Seq(Ops)
           /\ taken \in Seq(Ops \X Agents) /\ locks \in Seq(Agents)
           /\ inFlightBytes \in Nat /\ pendingEncodedBytes \in Nat
<1>1. options.bytes \in Nat
  BY StreamAssumption DEF StreamInv, StreamTypeOK
<1> QED BY <1>1 DEF StreamInv, StreamTypeOK, AtStates

\* No call is twice in the window.
LEMMA WindowOnce == ASSUME StreamInv PROVE Once(window) /\ Range(window) \subseteq Range(sent)
<1>0. window \in Seq(Ops) /\ sent \in Seq(Ops)
  BY StreamTypesOpen
<1>1. InLine(window, SentBefore) /\ Once(sent)
  BY DEF StreamInv, LineKept, LineUp
<1>2. \A a : <<a, a>> \notin SentBefore
  <2> SUFFICES ASSUME NEW a, <<a, a>> \in SentBefore PROVE FALSE
    OBVIOUS
  <2>1. PICK m \in 1 .. Len(sent), n \in 1 .. Len(sent) : m < n /\ sent[m] = a /\ sent[n] = a
    BY DEF SentBefore
  <2> QED BY <1>1, <2>1 DEF Once
<1>3. Once(window)
  <2> SUFFICES ASSUME NEW i \in 1 .. Len(window), NEW j \in 1 .. Len(window),
                      window[i] = window[j], i < j
               PROVE  FALSE
    <3>1. Len(window) \in Nat
      BY <1>0, LenProperties
    <3> QED BY <3>1 DEF Once
  <2>1. <<window[i], window[j]>> \in SentBefore
    BY <1>1 DEF InLine
  <2> QED BY <1>2, <2>1
<1>4. Range(window) \subseteq Range(sent)
  BY DEF StreamInv, LineKept, Lined
<1> QED BY <1>3, <1>4

LEMMA AdmitStep == ASSUME StreamInv, NEW p \in Ops, Admit(p) PROVE StreamInv'
<1>0. StreamInv /\ LineKept /\ CallsKept /\ TicketsKept /\ OpsKept /\ LocksKept /\ WindowKept
  BY DEF StreamInv
<1>1. /\ kind[p] = "send" /\ at[p] \in {"idle", "loop"} /\ ~streamClosed
      /\ HasCapacity(byteLength[p])
      /\ sent' = Append(sent, p) /\ window' = Append(window, p)
      /\ inFlightBytes' = inFlightBytes + byteLength[p]
      /\ tickets' = IF Encodes THEN Append(tickets, p) ELSE tickets
      /\ UNCHANGED <<options, kind, child, failedOnce, byteLength, settled,
                     pendingEncodedBytes, taken, ready, locks, oldest, hasError,
                     streamClosed, delivered>>
  BY DEF Admit, Looping, Called, MaySend
<1>2. PICK x \in {"prepare", "remote"} : /\ phase' = [phase EXCEPT ![p] = x]
                                         /\ Encodes => x = "prepare"
  BY DEF Admit, Encodes
<1>3. PICK y \in {"admission", "done"} : at' = [at EXCEPT ![p] = y]
  BY DEF Admit
<1>4. p \notin Range(sent) /\ phase[p] = "none" /\ settled[p] = "no" /\ p \notin Range(window)
      /\ p \notin Range(tickets)
  BY <1>0, <1>1, WindowOnce DEF OpsKept, CallsKept, TicketsKept
<1>5. /\ sent' \in Seq(Ops) /\ Range(sent') = Range(sent) \cup {p} /\ Once(sent')
      /\ SentBefore \subseteq SentBefore' /\ AllBefore(Range(sent), {p}, SentBefore')
  BY <1>0, <1>1, <1>4, StreamTypesOpen, SentJoined DEF LineKept
<1>6. /\ window' \in Seq(Ops) /\ Range(window') = Range(window) \cup {p}
      /\ Len(window') = Len(window) + 1
  BY <1>0, <1>1, StreamTypesOpen, AppendFacts
<1>7. /\ tickets' \in Seq(Ops)
      /\ Encodes => Range(tickets') = Range(tickets) \cup {p} /\ tickets' # <<>>
                    /\ (tickets # <<>> => Head(tickets') = Head(tickets)) /\ Once(tickets')
      /\ ~Encodes => tickets' = tickets
  <2>1. tickets \in Seq(Ops) /\ Once(tickets)
    BY <1>0, StreamTypesOpen DEF TicketsKept
  <2>2. /\ Append(tickets, p) \in Seq(Ops) /\ Append(tickets, p) # <<>>
        /\ Range(Append(tickets, p)) = Range(tickets) \cup {p}
        /\ tickets # <<>> => Head(Append(tickets, p)) = Head(tickets)
        /\ Once(Append(tickets, p))
    BY <1>4, <2>1, AppendFacts
  <2>3. CASE Encodes
    BY <1>1, <2>2, <2>3
  <2>4. CASE ~Encodes
    BY <1>1, <2>1, <2>4
  <2> QED BY <2>3, <2>4
<1>8. StreamTypeOK'
  <2>1. /\ at' \in [Ops -> AtStates]
        /\ phase' \in [Ops -> {"none", "prepare", "encode", "reserve", "lock", "taken",
                               "failing", "remote", "over"}]
    BY <1>0, <1>2, <1>3, StreamTypesOpen DEF AtStates, Over
  <2>2. inFlightBytes' \in Nat
    BY <1>0, <1>1, StreamTypesOpen
  <2> QED BY <1>0, <1>1, <1>5, <1>6, <1>7, <2>1, <2>2 DEF StreamInv, StreamTypeOK, AtStates
<1>9. LineKept'
  <2>1. LineUp(delivered, ready, Firsts(taken), Drained, window, SentBefore')
    BY <1>0, <1>5, LineGrows DEF LineKept
  <2>2. AllBefore(Lined, {p}, SentBefore')
    BY <1>0, <1>5 DEF AllBefore, LineKept
  <2>3. LineUp(delivered, ready, Firsts(taken), Drained, window', SentBefore')
    BY <1>0, <1>1, <2>1, <2>2, StreamTypesOpen, LineJoined DEF Lined
  <2>4. Drained' = Drained
    BY <1>1 DEF Drained
  <2>5. Lined' \subseteq Range(sent')
    BY <1>0, <1>1, <1>5, <1>6, <2>4 DEF Lined, LineKept
  <2> QED BY <1>1, <1>5, <2>3, <2>4, <2>5 DEF LineKept
<1>10. CallsKept'
  <2>1. Encodes' = Encodes
    BY <1>1 DEF Encodes, Limited
  <2>2. /\ phase'[p] \in {"prepare", "remote"} /\ (Encodes => phase'[p] = "prepare")
        /\ \A c \in Ops \ {p} : phase'[c] = phase[c]
    BY <1>2, <1>0, StreamTypesOpen
  <2>3. \A c \in Ops : phase'[c] # "none" => c \in Range(sent')
    BY <1>0, <1>5, <2>2 DEF CallsKept
  <2>4. \A c \in Ops : phase'[c] \in InWindow => c \in Range(window')
    BY <1>0, <1>6, <2>2 DEF CallsKept
  <2>5. \A c \in Ops : settled[c] # "no" <=> phase'[c] = "over"
    BY <1>0, <1>4, <2>2 DEF CallsKept
  <2>6. \A c \in Ops : Encodes /\ phase'[c] \in {"none", "prepare"} \cup Owning
                           => byteLength[c] = 0
    BY <1>0, <1>4, <2>2 DEF CallsKept
  <2>7. /\ \A c \in Ops : phase'[c] \in {"reserve", "lock", "taken"} => Encodes
        /\ \A c \in Ops : Call(c) \in Range(locks) => phase'[c] = "lock"
        /\ \A c \in Ops : Call(c) \in Range(Takers(taken)) => phase'[c] = "taken"
    BY <1>0, <1>4, <2>2 DEF CallsKept
  <2>8. oldest # NoOp /\ oldest \notin Range(window')
             => byteLength[oldest] = 0 /\ phase'[oldest] = "over"
    <3>1. oldest \in Ops \cup {NoOp}
      BY <1>0 DEF StreamInv, StreamTypeOK
    <3> QED BY <3>1, <1>0, <1>4, <1>6, <2>2 DEF CallsKept
  <2> QED BY <1>1, <2>1, <2>3, <2>4, <2>5, <2>6, <2>7, <2>8 DEF CallsKept
<1>11. TicketsKept'
  <2>1. Encodes' = Encodes
    BY <1>1 DEF Encodes, Limited
  <2>2. CASE Encodes
    BY <1>0, <1>2, <1>5, <1>7, <2>1, <2>2, StreamTypesOpen DEF TicketsKept, Owning
  <2>3. CASE ~Encodes
    BY <1>0, <1>5, <1>7, <2>1, <2>3 DEF TicketsKept
  <2> QED BY <2>2, <2>3
<1>12. OpsKept'
  BY <1>0, <1>1, <1>3, <1>5, StreamTypesOpen DEF OpsKept, CancelEmpties, Over
<1>13. LocksKept'
  BY <1>0, <1>1, LocksStay
<1>14. WindowKept'
  <2>1. Len(window') <= MaxInFlight
    BY <1>0, <1>1, <1>6, StreamTypesOpen, LenProperties, StreamAssumption DEF HasCapacity
  <2>2. /\ IsFiniteSet(Bytes(Range(window) \cup {p}, byteLength))
        /\ Cardinality(Bytes(Range(window) \cup {p}, byteLength))
               = Cardinality(Bytes(Range(window), byteLength)) + byteLength[p]
    BY <1>0, <1>4, StreamTypesOpen, BytesMore, WindowBytesAre DEF WindowKept
  <2>3. WindowBytes' = Bytes(Range(window) \cup {p}, byteLength)
    BY <1>1, <1>6 DEF WindowBytes, Bytes
  <2>4. IsFiniteSet(WindowBytes') /\ inFlightBytes' = Cardinality(WindowBytes')
    BY <1>0, <1>1, <2>2, <2>3, WindowBytesAre DEF WindowKept
  <2>5. Limited' => inFlightBytes' <= options'.bytes
    BY <1>0, <1>1, StreamTypesOpen DEF HasCapacity, HasByteCapacity, Limited
  <2> QED BY <2>1, <2>4, <2>5 DEF WindowKept
<1> QED BY <1>8, <1>9, <1>10, <1>11, <1>12, <1>13, <1>14 DEF StreamInv

LEMMA AdmitThrowsStep == ASSUME StreamInv, NEW p \in Ops, AdmitThrows(p) PROVE StreamInv'
<1>0. StreamInv /\ LineKept /\ CallsKept /\ TicketsKept /\ OpsKept /\ LocksKept /\ WindowKept
  BY DEF StreamInv
<1>1. /\ kind[p] = "send" /\ at[p] \in {"idle", "loop"} /\ ~streamClosed /\ hasError' = TRUE
      /\ sent' = Append(sent, p) /\ at' = [at EXCEPT ![p] = "threw"]
      /\ UNCHANGED <<options, kind, child, failedOnce, callVars, drainVars, streamClosed, delivered>>
  BY DEF AdmitThrows, Looping, Called, MaySend
<1>2. p \notin Range(sent)
  BY <1>0, <1>1 DEF OpsKept
<1>3. /\ sent' \in Seq(Ops) /\ Range(sent') = Range(sent) \cup {p} /\ Once(sent')
      /\ SentBefore \subseteq SentBefore'
  BY <1>0, <1>1, <1>2, StreamTypesOpen, SentJoined DEF LineKept
<1>4. StreamTypeOK'
  BY <1>0, <1>1, <1>3 DEF StreamInv, StreamTypeOK, Over, callVars, drainVars
<1>5. LineKept'
  <2>1. LineUp(delivered, ready, Firsts(taken), Drained, window, SentBefore')
    BY <1>0, <1>3, LineGrows DEF LineKept
  <2>2. Drained' = Drained /\ Lined' = Lined
    BY <1>1 DEF Drained, Lined, drainVars
  <2> QED BY <1>0, <1>1, <1>3, <2>1, <2>2 DEF LineKept, drainVars
<1>6. CallsKept'
  BY <1>0, <1>1, <1>3 DEF CallsKept, Encodes, Limited, callVars, drainVars
<1>7. TicketsKept'
  BY <1>0, <1>1, <1>3 DEF TicketsKept, Encodes, Limited, callVars
<1>8. OpsKept'
  BY <1>0, <1>1, <1>3, StreamTypesOpen DEF OpsKept, CancelEmpties, Over, drainVars
<1>9. LocksKept' /\ WindowKept'
  BY <1>0, <1>1, LocksStay, WindowStays DEF callVars, drainVars
<1> QED BY <1>4, <1>5, <1>6, <1>7, <1>8, <1>9 DEF StreamInv

LEMMA DeliverStep == ASSUME StreamInv, NEW p \in Ops, Deliver(p) PROVE StreamInv'
<1>0. StreamInv /\ LineKept /\ CallsKept /\ TicketsKept /\ OpsKept /\ LocksKept /\ WindowKept
  BY DEF StreamInv
<1>1. /\ at[p] = "deliver" /\ ready # <<>>
      /\ delivered' = Append(delivered, Head(ready)) /\ ready' = Tail(ready)
      /\ UNCHANGED <<options, kind, child, callVars, window, taken, locks, oldest, streamClosed, sent>>
  BY DEF Deliver
<1>2. PICK x \in {"deliver", "callback", "loop", "threw"} :
          /\ at' = [at EXCEPT ![p] = x]
          /\ x = "loop" => kind[p] # "send"
          /\ x = "threw" => kind[p] # "cancel"
  <2>1. at' = at => at' = [at EXCEPT ![p] = "deliver"]
    BY <1>0, <1>1, StreamTypesOpen
  <2> QED BY <2>1 DEF Deliver, Throw
<1>3. failedOnce' \in [Ops -> BOOLEAN] /\ hasError' \in BOOLEAN
  BY <1>0 DEF Deliver, Throw, StreamInv, StreamTypeOK
<1>4. /\ delivered' \in Seq(Ops) /\ ready' \in Seq(Ops)
      /\ Range(delivered') = Range(delivered) \cup {Head(ready)}
      /\ Range(ready) = Range(ready') \cup {Head(ready)}
  BY <1>0, <1>1, StreamTypesOpen, TailFacts, AppendFacts
<1>5. StreamTypeOK'
  <2>1. at' \in [Ops -> AtStates]
    BY <1>0, <1>2, StreamTypesOpen DEF AtStates, Over
  <2> QED BY <1>0, <1>1, <1>3, <1>4, <2>1 DEF StreamInv, StreamTypeOK, AtStates, callVars
<1>6. LineKept'
  <2>1. Firsts(taken) \in Seq(Ops)
    BY <1>0, StreamTypesOpen, PairSeqs
  <2>2. LineUp(delivered', ready', Firsts(taken), Drained, window, SentBefore)
    BY <1>0, <1>1, <2>1, StreamTypesOpen, LineDelivers DEF LineKept
  <2>3. Drained' = Drained /\ SentBefore' = SentBefore /\ Lined' \subseteq Lined
    BY <1>1, <1>4 DEF Drained, SentBefore, Lined
  <2> QED BY <1>0, <1>1, <2>2, <2>3 DEF LineKept
<1>7. CallsKept' /\ TicketsKept' /\ LocksKept' /\ WindowKept'
  BY <1>0, <1>1, CallsStay, TicketsStay, LocksStay, WindowStays DEF callVars
<1>8. OpsKept'
  BY <1>0, <1>1, <1>2, StreamTypesOpen DEF OpsKept, CancelEmpties, Over
<1> QED BY <1>5, <1>6, <1>7, <1>8 DEF StreamInv

LEMMA AskStep == ASSUME StreamInv, NEW p \in Ops, AskForLock(p) PROVE StreamInv'
<1>0. StreamInv /\ LineKept /\ CallsKept /\ TicketsKept /\ OpsKept /\ LocksKept /\ WindowKept
  BY DEF StreamInv
<1>1. /\ at[p] \in {"idle", "loop"} /\ at' = [at EXCEPT ![p] = "lock"]
      /\ kind[p] = "cancel" => at[p] # "idle"
      /\ locks' = Append(locks, Op(p))
      /\ UNCHANGED <<options, kind, child, failedOnce, callVars, window, taken,
                     ready, oldest, hasError, streamClosed, sent, delivered>>
  BY DEF AskForLock, Looping, Called
<1>2. Op(p) \in Agents /\ Op(p) \notin Range(locks)
  BY <1>0, <1>1, AgentFacts DEF OpsKept
<1>3. locks' \in Seq(Agents) /\ locks' # <<>> /\ Range(locks') = Range(locks) \cup {Op(p)} /\ Once(locks')
  BY <1>0, <1>1, <1>2, StreamTypesOpen, AppendFacts DEF LocksKept
<1>4. StreamTypeOK'
  BY <1>0, <1>1, <1>3 DEF StreamInv, StreamTypeOK, callVars
<1>5. LineKept' /\ TicketsKept' /\ WindowKept'
  BY <1>0, <1>1, LineStays, TicketsStay, WindowStays DEF callVars
<1>6. CallsKept'
  <2>1. \A c \in Ops : Call(c) \in Range(locks') => Call(c) \in Range(locks)
    BY <1>3, AgentFacts
  <2> QED BY <1>0, <1>1, <2>1 DEF CallsKept, Encodes, Limited, callVars
<1>7. OpsKept'
  <2>1. \A q \in Ops : Op(q) \in Range(locks') => Op(q) \in Range(locks) \/ q = p
    BY <1>3, AgentFacts
  <2> QED BY <1>0, <1>1, <2>1, StreamTypesOpen DEF OpsKept, CancelEmpties, Over
<1>8. LocksKept'
  BY <1>0, <1>1, <1>3 DEF LocksKept
<1> QED BY <1>4, <1>5, <1>6, <1>7, <1>8 DEF StreamInv

(***************************************************************************)
(* The call function up to its reservation.                                *)
(***************************************************************************)
Phases == {"none", "prepare", "encode", "reserve", "lock", "taken", "failing", "remote", "over"}

\* What is left of the tickets when one is released.
LEMMA TicketsReleased ==
    ASSUME StreamInv, NEW c \in Ops, ReleaseTicket(c) \/ KeepTickets
    PROVE  /\ tickets' \in Seq(Ops) /\ Once(tickets') /\ pendingEncodedBytes' \in Nat
           /\ Range(tickets) \ {c} \subseteq Range(tickets')
           /\ Range(tickets') \subseteq Range(tickets)
           /\ tickets # <<>> /\ Head(tickets) # c => tickets' # <<>> /\ Head(tickets') = Head(tickets)
<1>1. tickets \in Seq(Ops) /\ Once(tickets) /\ pendingEncodedBytes \in Nat
  BY StreamTypesOpen DEF StreamInv, TicketsKept
<1>2. CASE KeepTickets
  BY <1>1, <1>2 DEF KeepTickets
<1>3. CASE ReleaseTicket(c)
  <2>1. pendingEncodedBytes' \in Nat
    BY <1>1, <1>3 DEF ReleaseTicket
  <2>2. tickets' = RemoveFirst(tickets, c)
    BY <1>3 DEF ReleaseTicket
  <2> QED BY <1>1, <2>1, <2>2, RemovedFacts
<1> QED BY <1>2, <1>3

\* A call function moves on: its call stays in the window, uncharged and unsettled.
LEMMA CallMovesStep ==
    ASSUME StreamInv, NEW c \in Ops, NEW x \in {"encode", "reserve", "failing"},
           phase[c] \in {"prepare", "encode", "reserve"},
           CallMoves(c, x),
           UNCHANGED <<options, opVars, byteLength, settled, inFlightBytes, drainVars, hasError,
                       streamClosed, sent, delivered>>,
           tickets' \in Seq(Ops), Once(tickets'), pendingEncodedBytes' \in Nat,
           Range(tickets) \ {c} \subseteq Range(tickets'), Range(tickets') \subseteq Range(tickets),
           tickets # <<>> /\ Head(tickets) # c => tickets' # <<>> /\ Head(tickets') = Head(tickets),
           x # "failing" => /\ tickets' = tickets
                            /\ Encodes => tickets # <<>> /\ Head(tickets) = c,
           x = "encode" => phase[c] = "prepare",
           x = "reserve" => Encodes
    PROVE  StreamInv'
<1>0. StreamInv /\ LineKept /\ CallsKept /\ TicketsKept /\ OpsKept /\ LocksKept /\ WindowKept
  BY DEF StreamInv
<1>1. UNCHANGED <<options, kind, at, child, failedOnce, byteLength, settled, inFlightBytes, window,
                  taken, ready, locks, oldest, hasError, streamClosed, sent, delivered>>
  BY DEF opVars, drainVars
<1>2. /\ phase' \in [Ops -> Phases] /\ phase'[c] = x
      /\ \A d \in Ops \ {c} : phase'[d] = phase[d]
  BY <1>0, StreamTypesOpen DEF CallMoves, Phases
<1>3. StreamTypeOK'
  BY <1>0, <1>1, <1>2 DEF StreamInv, StreamTypeOK, Phases
<1>4. Encodes' = Encodes
  BY <1>1 DEF Encodes, Limited
<1>5. CallsKept'
  <2>1. \A d \in Ops : phase'[d] # "none" => d \in Range(sent)
    BY <1>0, <1>2 DEF CallsKept
  <2>2. \A d \in Ops : phase'[d] \in InWindow => d \in Range(window)
    BY <1>0, <1>2 DEF CallsKept, InWindow
  <2>3. \A d \in Ops : settled[d] # "no" <=> phase'[d] = "over"
    BY <1>0, <1>2 DEF CallsKept
  <2>4. \A d \in Ops : Encodes /\ phase'[d] \in {"none", "prepare"} \cup Owning
                           => byteLength[d] = 0
    BY <1>0, <1>2 DEF CallsKept, Owning
  <2>5. /\ \A d \in Ops : phase'[d] \in {"reserve", "lock", "taken"} => Encodes
        /\ \A d \in Ops : Call(d) \in Range(locks) => phase'[d] = "lock"
        /\ \A d \in Ops : Call(d) \in Range(Takers(taken)) => phase'[d] = "taken"
    BY <1>0, <1>2 DEF CallsKept
  <2>6. oldest # NoOp /\ oldest \notin Range(window)
             => byteLength[oldest] = 0 /\ phase'[oldest] = "over"
    <3>1. oldest \in Ops \cup {NoOp}
      BY <1>0 DEF StreamInv, StreamTypeOK
    <3> QED BY <3>1, <1>0, <1>2 DEF CallsKept
  <2> QED BY <1>1, <1>4, <2>1, <2>2, <2>3, <2>4, <2>5, <2>6 DEF CallsKept
<1>6. TicketsKept'
  <2>1. CASE Encodes
    <3>1. \A d \in Ops : phase'[d] = "prepare" => d \in Range(tickets')
      BY <1>0, <1>2, <2>1 DEF TicketsKept
    <3>2. \A d \in Ops \ {c} : phase'[d] \in Owning => tickets' # <<>> /\ Head(tickets') = d
      BY <1>0, <1>2, <2>1 DEF TicketsKept
    <3>3. phase'[c] \in Owning => tickets' # <<>> /\ Head(tickets') = c
      BY <1>0, <1>2, <2>1 DEF TicketsKept, Owning
    <3> QED BY <1>0, <1>1, <1>4, <2>1, <3>1, <3>2, <3>3 DEF TicketsKept
  <2>2. CASE ~Encodes
    BY <1>0, <1>1, <1>4, <2>2 DEF TicketsKept
  <2> QED BY <2>1, <2>2
<1>7. LineKept' /\ OpsKept' /\ LocksKept' /\ WindowKept'
  BY <1>0, <1>1, LineStays, OpsStay, LocksStay, WindowStays
<1> QED BY <1>3, <1>5, <1>6, <1>7 DEF StreamInv

LEMMA PrepareStep == ASSUME StreamInv, NEW c \in Ops, Prepare(c) PROVE StreamInv'
<1>0. TicketsKept
  BY DEF StreamInv
<1>1. phase[c] = "prepare" /\ (c \in Range(tickets) => Head(tickets) = c)
  BY DEF Prepare
<1>2. PICK x \in {"encode", "failing"} : CallMoves(c, x)
  BY DEF Prepare
<1>3. UNCHANGED <<options, opVars, byteLength, settled, inFlightBytes, drainVars, hasError,
                  streamClosed, sent, delivered>> /\ KeepTickets
  BY DEF Prepare, KeepTickets
<1>4. Encodes => tickets # <<>> /\ Head(tickets) = c
  <2> SUFFICES ASSUME Encodes PROVE tickets # <<>> /\ Head(tickets) = c
    OBVIOUS
  <2>1. c \in Range(tickets)
    BY <1>0, <1>1 DEF TicketsKept
  <2>2. Range(<<>>) = {}
    BY EmptyFacts
  <2> QED BY <1>1, <2>1, <2>2
<1>5. tickets' = tickets
  BY <1>3 DEF KeepTickets
<1> QED BY <1>1, <1>2, <1>3, <1>4, <1>5, TicketsReleased, CallMovesStep

LEMMA EncodeFailsStep == ASSUME StreamInv, NEW c \in Ops, EncodeFails(c) PROVE StreamInv'
<1>1. phase[c] = "encode" /\ CallMoves(c, "failing") /\ (KeepTickets \/ ReleaseTicket(c))
      /\ UNCHANGED <<options, opVars, byteLength, settled, inFlightBytes, drainVars, hasError,
                     streamClosed, sent, delivered>>
  BY DEF EncodeFails
<1> QED BY <1>1, TicketsReleased, CallMovesStep

LEMMA EncodeStep == ASSUME StreamInv, NEW c \in Ops, NEW n \in Sizes, Encode(c, n)
                    PROVE  StreamInv'
<1>1. phase[c] = "encode" /\ CallMoves(c, "reserve") /\ Encodes /\ pendingEncodedBytes' = n
      /\ tickets' = tickets
      /\ UNCHANGED <<options, opVars, byteLength, settled, inFlightBytes, drainVars, hasError,
                     streamClosed, sent, delivered>>
  BY DEF Encode
<1>2. n \in Nat
  BY StreamAssumption
<1>3. tickets \in Seq(Ops) /\ Once(tickets) /\ tickets # <<>> /\ Head(tickets) = c
  BY <1>1, StreamTypesOpen DEF StreamInv, TicketsKept, Owning
<1> QED BY <1>1, <1>2, <1>3, CallMovesStep

(***************************************************************************)
(* Reserving bytes, or the drain lock.                                     *)
(***************************************************************************)
\* Tickets after a call function has moved on or has ended.
LEMMA TicketsMove ==
    ASSUME StreamInv, NEW c \in Ops, NEW x \in Phases \ {"prepare"},
           phase' = [phase EXCEPT ![c] = x],
           UNCHANGED <<options, sent>>,
           Once(tickets'), Range(tickets) \ {c} \subseteq Range(tickets'),
           Range(tickets') \subseteq Range(tickets),
           tickets # <<>> /\ Head(tickets) # c => tickets' # <<>> /\ Head(tickets') = Head(tickets),
           x \in Owning => tickets' = tickets /\ phase[c] \in Owning
    PROVE  TicketsKept'
<1>0. TicketsKept
  BY DEF StreamInv
<1>1. phase'[c] = x /\ \A d \in Ops \ {c} : phase'[d] = phase[d]
  BY StreamTypesOpen DEF Phases
<1>2. Encodes' = Encodes
  BY DEF Encodes, Limited
<1>3. CASE Encodes
  <2>1. \A d \in Ops : phase'[d] = "prepare" => d \in Range(tickets')
    BY <1>0, <1>1, <1>3 DEF TicketsKept
  <2>2. \A d \in Ops \ {c} : phase'[d] \in Owning => tickets' # <<>> /\ Head(tickets') = d
    BY <1>0, <1>1, <1>3 DEF TicketsKept
  <2>3. phase'[c] \in Owning => tickets' # <<>> /\ Head(tickets') = c
    BY <1>0, <1>1, <1>3 DEF TicketsKept
  <2> QED BY <1>0, <1>2, <1>3, <2>1, <2>2, <2>3 DEF TicketsKept
<1>4. CASE ~Encodes
  BY <1>0, <1>2, <1>4 DEF TicketsKept
<1> QED BY <1>3, <1>4

\* The bytes of the candidate are charged.
LEMMA ChargeStep ==
    ASSUME StreamInv, NEW c \in Ops, phase[c] = "reserve", HasByteCapacity(pendingEncodedBytes),
           byteLength' = [byteLength EXCEPT ![c] = pendingEncodedBytes],
           inFlightBytes' = inFlightBytes + pendingEncodedBytes,
           CallMoves(c, "remote"), ReleaseTicket(c),
           UNCHANGED <<options, opVars, settled, drainVars, hasError, streamClosed, sent, delivered>>
    PROVE  StreamInv'
<1>0. StreamInv /\ LineKept /\ CallsKept /\ TicketsKept /\ OpsKept /\ LocksKept /\ WindowKept
  BY DEF StreamInv
<1>1. UNCHANGED <<options, kind, at, child, failedOnce, settled, window, taken, ready, locks, oldest,
                  hasError, streamClosed, sent, delivered>>
  BY DEF opVars, drainVars
<1>2. /\ phase' \in [Ops -> Phases] /\ phase'[c] = "remote"
      /\ \A d \in Ops \ {c} : phase'[d] = phase[d]
      /\ phase' = [phase EXCEPT ![c] = "remote"]
  BY <1>0, StreamTypesOpen DEF CallMoves, Phases
<1>3. /\ byteLength' \in [Ops -> Nat] /\ byteLength'[c] = pendingEncodedBytes
      /\ \A d \in Ops \ {c} : byteLength'[d] = byteLength[d]
      /\ pendingEncodedBytes \in Nat /\ inFlightBytes \in Nat /\ inFlightBytes' \in Nat
  BY <1>0, StreamTypesOpen
<1>4. Encodes /\ byteLength[c] = 0 /\ c \in Range(window) /\ c \in Range(sent)
  BY <1>0 DEF CallsKept, InWindow, Owning
<1>5. /\ tickets' \in Seq(Ops) /\ Once(tickets') /\ pendingEncodedBytes' \in Nat
      /\ Range(tickets) \ {c} \subseteq Range(tickets')
      /\ Range(tickets') \subseteq Range(tickets)
      /\ tickets # <<>> /\ Head(tickets) # c => tickets' # <<>> /\ Head(tickets') = Head(tickets)
  BY <1>0, TicketsReleased
<1>6. StreamTypeOK'
  <2>1. {window', ready', tickets', sent', delivered'} \subseteq Seq(Ops)
    BY <1>0, <1>1, <1>5, StreamTypesOpen
  <2>2. phase' \in [Ops -> {"none", "prepare", "encode", "reserve", "lock", "taken",
                            "failing", "remote", "over"}]
    BY <1>2 DEF Phases
  <2> QED BY <1>0, <1>1, <1>3, <1>5, <2>1, <2>2 DEF StreamInv, StreamTypeOK
<1>7. Encodes' = Encodes
  BY <1>1 DEF Encodes, Limited
<1>8. CallsKept'
  <2>1. \A d \in Ops : phase'[d] # "none" => d \in Range(sent)
    BY <1>0, <1>2, <1>4 DEF CallsKept
  <2>2. \A d \in Ops : phase'[d] \in InWindow => d \in Range(window)
    BY <1>0, <1>2, <1>4 DEF CallsKept
  <2>3. \A d \in Ops : settled[d] # "no" <=> phase'[d] = "over"
    BY <1>0, <1>2 DEF CallsKept
  <2>4. \A d \in Ops : Encodes /\ phase'[d] \in {"none", "prepare"} \cup Owning
                           => byteLength'[d] = 0
    BY <1>0, <1>2, <1>3 DEF CallsKept, Owning
  <2>5. /\ \A d \in Ops : phase'[d] \in {"reserve", "lock", "taken"} => Encodes
        /\ \A d \in Ops : Call(d) \in Range(locks) => phase'[d] = "lock"
        /\ \A d \in Ops : Call(d) \in Range(Takers(taken)) => phase'[d] = "taken"
    BY <1>0, <1>2 DEF CallsKept
  <2>6. oldest # NoOp /\ oldest \notin Range(window)
             => byteLength'[oldest] = 0 /\ phase'[oldest] = "over"
    <3>1. oldest \in Ops \cup {NoOp}
      BY <1>0 DEF StreamInv, StreamTypeOK
    <3> QED BY <3>1, <1>0, <1>2, <1>3, <1>4 DEF CallsKept
  <2> QED BY <1>1, <1>7, <2>1, <2>2, <2>3, <2>4, <2>5, <2>6 DEF CallsKept
<1>9. TicketsKept'
  <2>1. "remote" \in Phases \ {"prepare"} /\ "remote" \notin Owning
    BY DEF Phases, Owning
  <2> QED BY <1>0, <1>1, <1>2, <1>5, <2>1, TicketsMove
<1>10. WindowKept'
  <2> DEFINE W == Range(window)
             V == W \ {c}
             n == Cardinality(Bytes(W, byteLength))
  <2>1. IsFiniteSet(Bytes(W, byteLength)) /\ inFlightBytes = n /\ c \in W /\ byteLength[c] \in Nat
    BY <1>0, <1>3, <1>4, WindowBytesAre DEF WindowKept
  <2>2. IsFiniteSet(Bytes(V, byteLength)) /\ Cardinality(Bytes(V, byteLength)) = n - byteLength[c]
    BY <2>1, BytesLess
  <2>3. \A d \in V : byteLength[d] = byteLength'[d]
    <3>1. \A d \in V : d \in Ops
      <4>1. window \in Seq(Ops)
        BY <1>0, StreamTypesOpen
      <4>2. Range(window) \subseteq Ops
        BY <4>1, RangeEquality, ElementOfSeq
      <4> QED BY <4>2
    <3> QED BY <1>3, <3>1
  <2>4. Bytes(V, byteLength) = Bytes(V, byteLength')
    BY <2>3, BytesSame
  <2>5. /\ IsFiniteSet(Bytes(V \cup {c}, byteLength'))
        /\ Cardinality(Bytes(V \cup {c}, byteLength'))
               = Cardinality(Bytes(V, byteLength')) + byteLength'[c]
    <3>1. c \notin V /\ byteLength'[c] \in Nat /\ IsFiniteSet(Bytes(V, byteLength'))
      BY <1>3, <2>2, <2>4
    <3> HIDE DEF V
    <3> DEFINE g == byteLength'
    <3>2. c \notin V /\ g[c] \in Nat /\ IsFiniteSet(Bytes(V, g))
      BY <3>1
    <3> HIDE DEF g
    <3>3. /\ IsFiniteSet(Bytes(V \cup {c}, g))
          /\ Cardinality(Bytes(V \cup {c}, g)) = Cardinality(Bytes(V, g)) + g[c]
      BY <3>2, BytesMore
    <3> QED BY <3>3 DEF g
  <2>6. V \cup {c} = W
    BY <2>1
  <2>7. WindowBytes' = Bytes(W, byteLength')
    BY <1>1 DEF WindowBytes, Bytes
  <2>8. IsFiniteSet(WindowBytes') /\ inFlightBytes' = Cardinality(WindowBytes')
    <3>1. Cardinality(Bytes(W, byteLength')) = n - byteLength[c] + pendingEncodedBytes
      BY <1>3, <2>2, <2>4, <2>5, <2>6
    <3>2. n \in Nat
      BY <2>1, <1>3
    <3> HIDE DEF n
    <3>3. Cardinality(Bytes(W, byteLength')) = n + pendingEncodedBytes
      BY <1>3, <1>4, <3>1, <3>2
    <3> QED BY <2>1, <2>5, <2>6, <2>7, <3>3
  <2>9. Limited' => inFlightBytes' <= options'.bytes
    BY <1>0, <1>1, <1>3, StreamTypesOpen DEF HasByteCapacity, Limited
  <2> QED BY <1>0, <1>1, <2>8, <2>9 DEF WindowKept
<1>11. LineKept' /\ OpsKept' /\ LocksKept'
  BY <1>0, <1>1, LineStays, OpsStay, LocksStay
<1> QED BY <1>6, <1>8, <1>9, <1>10, <1>11 DEF StreamInv

\* The candidate asks for the drain lock.
LEMMA CandidateAsksStep ==
    ASSUME StreamInv, NEW c \in Ops, phase[c] = "reserve",
           CallMoves(c, "lock"), locks' = Append(locks, Call(c)), KeepTickets,
           UNCHANGED <<options, opVars, byteLength, settled, inFlightBytes, window, taken, ready,
                       oldest, hasError, streamClosed, sent, delivered>>
    PROVE  StreamInv'
<1>0. StreamInv /\ LineKept /\ CallsKept /\ TicketsKept /\ OpsKept /\ LocksKept /\ WindowKept
  BY DEF StreamInv
<1>1. UNCHANGED <<options, kind, at, child, failedOnce, byteLength, settled, inFlightBytes, window,
                  taken, ready, oldest, hasError, streamClosed, sent, delivered, tickets,
                  pendingEncodedBytes>>
  BY DEF opVars, KeepTickets
<1>2. /\ phase' \in [Ops -> Phases] /\ phase'[c] = "lock"
      /\ \A d \in Ops \ {c} : phase'[d] = phase[d]
      /\ phase' = [phase EXCEPT ![c] = "lock"]
  BY <1>0, StreamTypesOpen DEF CallMoves, Phases
<1>3. Call(c) \in Agents /\ Call(c) \notin Range(locks) /\ Encodes /\ c \in Range(window)
      /\ c \in Range(sent) /\ byteLength[c] = 0
  BY <1>0, AgentFacts DEF CallsKept, InWindow, Owning
<1>4. locks' \in Seq(Agents) /\ locks' # <<>> /\ Range(locks') = Range(locks) \cup {Call(c)} /\ Once(locks')
  BY <1>0, <1>3, StreamTypesOpen, AppendFacts DEF LocksKept
<1>5. StreamTypeOK'
  BY <1>0, <1>1, <1>2, <1>4 DEF StreamInv, StreamTypeOK, Phases
<1>6. Encodes' = Encodes
  BY <1>1 DEF Encodes, Limited
<1>7. CallsKept'
  <2>1. \A d \in Ops : phase'[d] # "none" => d \in Range(sent)
    BY <1>0, <1>2, <1>3 DEF CallsKept
  <2>2. \A d \in Ops : phase'[d] \in InWindow => d \in Range(window)
    BY <1>0, <1>2, <1>3 DEF CallsKept
  <2>3. \A d \in Ops : settled[d] # "no" <=> phase'[d] = "over"
    BY <1>0, <1>2 DEF CallsKept
  <2>4. \A d \in Ops : Encodes /\ phase'[d] \in {"none", "prepare"} \cup Owning
                           => byteLength[d] = 0
    BY <1>0, <1>2, <1>3 DEF CallsKept
  <2>5. \A d \in Ops : phase'[d] \in {"reserve", "lock", "taken"} => Encodes
    BY <1>3
  <2>6. \A d \in Ops : Call(d) \in Range(locks') => phase'[d] = "lock"
    BY <1>0, <1>2, <1>4, AgentFacts DEF CallsKept
  <2>7. \A d \in Ops : Call(d) \in Range(Takers(taken)) => phase'[d] = "taken"
    BY <1>0, <1>2 DEF CallsKept
  <2>8. oldest # NoOp /\ oldest \notin Range(window)
             => byteLength[oldest] = 0 /\ phase'[oldest] = "over"
    <3>1. oldest \in Ops \cup {NoOp}
      BY <1>0 DEF StreamInv, StreamTypeOK
    <3> QED BY <3>1, <1>0, <1>2, <1>3 DEF CallsKept
  <2> QED BY <1>1, <1>6, <2>1, <2>2, <2>3, <2>4, <2>5, <2>6, <2>7, <2>8 DEF CallsKept
<1>8. TicketsKept'
  <2>1. "lock" \in Phases \ {"prepare"} /\ phase[c] \in Owning
    BY DEF Phases, Owning
  <2>2. Once(tickets)
    BY <1>0 DEF TicketsKept
  <2> QED BY <1>0, <1>1, <1>2, <2>1, <2>2, TicketsMove
<1>9. OpsKept'
  <2>1. \A q \in Ops : Op(q) \in Range(locks') => Op(q) \in Range(locks)
    BY <1>4, AgentFacts
  <2> QED BY <1>0, <1>1, <2>1 DEF OpsKept, CancelEmpties
<1>10. LocksKept'
  BY <1>0, <1>1, <1>4 DEF LocksKept
<1>11. LineKept' /\ WindowKept'
  BY <1>0, <1>1, LineStays, WindowStays
<1> QED BY <1>5, <1>7, <1>8, <1>9, <1>10, <1>11 DEF StreamInv

LEMMA ReserveStep == ASSUME StreamInv, NEW c \in Ops, Reserve(c) PROVE StreamInv'
<1>1. phase[c] = "reserve"
      /\ UNCHANGED <<options, opVars, settled, window, taken, ready, oldest, hasError,
                     streamClosed, sent, delivered>>
  BY DEF Reserve
<1>2. CASE /\ HasByteCapacity(pendingEncodedBytes)
           /\ byteLength' = [byteLength EXCEPT ![c] = pendingEncodedBytes]
           /\ inFlightBytes' = inFlightBytes + pendingEncodedBytes
           /\ CallMoves(c, "remote") /\ ReleaseTicket(c) /\ UNCHANGED locks
  BY <1>1, <1>2, ChargeStep DEF drainVars
<1>3. CASE /\ CallMoves(c, "failing") /\ ReleaseTicket(c)
           /\ UNCHANGED <<byteLength, inFlightBytes, locks>>
  <2>1. UNCHANGED drainVars
    BY <1>1, <1>3 DEF drainVars
  <2> QED BY <1>1, <1>3, <2>1, TicketsReleased, CallMovesStep
<1>4. CASE /\ CallMoves(c, "lock") /\ locks' = Append(locks, Call(c)) /\ KeepTickets
           /\ UNCHANGED <<byteLength, inFlightBytes>>
  BY <1>1, <1>4, CandidateAsksStep
<1> QED BY <1>2, <1>3, <1>4 DEF Reserve

(***************************************************************************)
(* A call ends.                                                            *)
(***************************************************************************)
\* A call ends; it stays in the window, or leaves it uncharged.
LEMMA CallEndsStep ==
    ASSUME StreamInv, NEW c \in Ops, phase[c] \in {"remote", "failing"},
           NEW how \in {"ok", "failed"},
           CallMoves(c, "over"), settled' = [settled EXCEPT ![c] = how],
           ReleaseTicket(c) \/ KeepTickets, phase[c] = "remote" => KeepTickets,
           \/ window' = window
           \/ window' = RemoveFirst(window, c) /\ byteLength[c] = 0,
           UNCHANGED <<options, opVars, byteLength, inFlightBytes, taken, ready, locks, oldest,
                       hasError, streamClosed, sent, delivered>>
    PROVE  StreamInv'
<1>0. StreamInv /\ LineKept /\ CallsKept /\ TicketsKept /\ OpsKept /\ LocksKept /\ WindowKept
  BY DEF StreamInv
<1>1. UNCHANGED <<options, kind, at, child, failedOnce, byteLength, inFlightBytes, taken, ready,
                  locks, oldest, hasError, streamClosed, sent, delivered>>
  BY DEF opVars
<1>2. /\ phase' \in [Ops -> Phases] /\ phase'[c] = "over"
      /\ \A d \in Ops \ {c} : phase'[d] = phase[d]
      /\ phase' = [phase EXCEPT ![c] = "over"]
  BY <1>0, StreamTypesOpen DEF CallMoves, Phases
<1>3. /\ settled' \in [Ops -> {"no", "ok", "failed"}] /\ settled'[c] # "no"
      /\ \A d \in Ops \ {c} : settled'[d] = settled[d]
  BY <1>0, StreamTypesOpen
<1>4. c \in Range(window) /\ c \in Range(sent) /\ settled[c] = "no" /\ byteLength[c] \in Nat
  BY <1>0, StreamTypesOpen DEF CallsKept, InWindow
<1>5. window \in Seq(Ops) /\ Once(window) /\ Len(window) \in Nat
  BY <1>0, StreamTypesOpen, WindowOnce, LenProperties
<1>6. /\ RemoveFirst(window, c) \in Seq(Ops) /\ Len(RemoveFirst(window, c)) <= Len(window)
      /\ Range(RemoveFirst(window, c)) = Range(window) \ {c}
  BY <1>5, RemovedFacts
<1>7. /\ window' \in Seq(Ops) /\ Range(window') \subseteq Range(window)
      /\ \A d \in Range(window) : d # c => d \in Range(window')
      /\ c \in Range(window') \/ byteLength[c] = 0
      /\ Len(window') <= Len(window)
  <2>1. CASE window' = window
    BY <1>4, <1>5, <2>1
  <2>2. CASE window' = RemoveFirst(window, c) /\ byteLength[c] = 0
    BY <1>6, <2>2
  <2> QED BY <2>1, <2>2
<1>8. /\ tickets' \in Seq(Ops) /\ Once(tickets') /\ pendingEncodedBytes' \in Nat
      /\ Range(tickets) \ {c} \subseteq Range(tickets')
      /\ Range(tickets') \subseteq Range(tickets)
      /\ tickets # <<>> /\ Head(tickets) # c => tickets' # <<>> /\ Head(tickets') = Head(tickets)
  BY <1>0, TicketsReleased
<1>9. StreamTypeOK'
  <2>1. {window', ready', tickets', sent', delivered'} \subseteq Seq(Ops)
    BY <1>0, <1>1, <1>7, <1>8, StreamTypesOpen
  <2>2. phase' \in [Ops -> {"none", "prepare", "encode", "reserve", "lock", "taken",
                            "failing", "remote", "over"}]
    BY <1>2 DEF Phases
  <2> QED BY <1>0, <1>1, <1>3, <1>8, <2>1, <2>2 DEF StreamInv, StreamTypeOK
<1>10. LineKept'
  <2>1. LineUp(delivered, ready, Firsts(taken), Drained, window', SentBefore)
    <3>1. LineUp(delivered, ready, Firsts(taken), Drained, window, SentBefore)
      BY <1>0 DEF LineKept
    <3>2. CASE window' = window
      BY <3>1, <3>2
    <3>3. CASE window' = RemoveFirst(window, c)
      BY <1>5, <3>1, <3>3, LineLoses
    <3> QED BY <3>2, <3>3
  <2>2. Drained' = Drained /\ SentBefore' = SentBefore /\ Lined' \subseteq Lined
    BY <1>1, <1>7 DEF Drained, SentBefore, Lined
  <2> QED BY <1>0, <1>1, <2>1, <2>2 DEF LineKept
<1>11. Encodes' = Encodes
  BY <1>1 DEF Encodes, Limited
<1>12. CallsKept'
  <2>1. \A d \in Ops : phase'[d] # "none" => d \in Range(sent)
    BY <1>0, <1>2, <1>4 DEF CallsKept
  <2>2. \A d \in Ops : phase'[d] \in InWindow => d \in Range(window')
    BY <1>0, <1>2, <1>7 DEF CallsKept, InWindow
  <2>3. \A d \in Ops : settled'[d] # "no" <=> phase'[d] = "over"
    BY <1>0, <1>2, <1>3 DEF CallsKept
  <2>4. \A d \in Ops : Encodes /\ phase'[d] \in {"none", "prepare"} \cup Owning
                           => byteLength[d] = 0
    BY <1>0, <1>2 DEF CallsKept, Owning
  <2>5. /\ \A d \in Ops : phase'[d] \in {"reserve", "lock", "taken"} => Encodes
        /\ \A d \in Ops : Call(d) \in Range(locks) => phase'[d] = "lock"
        /\ \A d \in Ops : Call(d) \in Range(Takers(taken)) => phase'[d] = "taken"
    BY <1>0, <1>2 DEF CallsKept
  <2>6. oldest # NoOp /\ oldest \notin Range(window')
             => byteLength[oldest] = 0 /\ phase'[oldest] = "over"
    <3>1. oldest \in Ops \cup {NoOp}
      BY <1>0 DEF StreamInv, StreamTypeOK
    <3>2. CASE oldest = c
      BY <1>2, <1>7, <3>2
    <3>3. CASE oldest # c
      BY <1>0, <1>2, <1>7, <3>1, <3>3 DEF CallsKept
    <3> QED BY <3>2, <3>3
  <2> QED BY <1>1, <1>11, <2>1, <2>2, <2>3, <2>4, <2>5, <2>6 DEF CallsKept
<1>13. TicketsKept'
  <2>1. "over" \in Phases \ {"prepare"} /\ "over" \notin Owning
    BY DEF Phases, Owning
  <2> QED BY <1>0, <1>1, <1>2, <1>8, <2>1, TicketsMove
<1>14. OpsKept'
  <2>1. window # <<>>
    <3>1. Range(<<>>) = {}
      BY EmptyFacts
    <3> QED BY <1>4, <3>1
  <2>2. CancelEmpties'
    BY <1>0, <1>1, <2>1 DEF OpsKept, CancelEmpties
  <2> QED BY <1>0, <1>1, <2>2 DEF OpsKept
<1>15. WindowKept'
  <2>1. Len(window') <= MaxInFlight
    <3>1. Len(window') \in Nat
      BY <1>7, LenProperties
    <3> QED BY <1>0, <1>5, <1>7, <3>1, StreamAssumption DEF WindowKept
  <2>2. IsFiniteSet(WindowBytes') /\ inFlightBytes' = Cardinality(WindowBytes')
    <3>1. CASE window' = window
      BY <1>0, <1>1, <3>1 DEF WindowKept, WindowBytes
    <3>2. CASE window' = RemoveFirst(window, c) /\ byteLength[c] = 0
      <4> DEFINE W == Range(window)
      <4>1. IsFiniteSet(Bytes(W, byteLength)) /\ c \in W
            /\ inFlightBytes = Cardinality(Bytes(W, byteLength))
        BY <1>0, <1>4, WindowBytesAre DEF WindowKept
      <4>2. WindowBytes' = Bytes(W \ {c}, byteLength)
        BY <1>1, <1>6, <3>2 DEF WindowBytes, Bytes
      <4> HIDE DEF W
      <4>3. /\ IsFiniteSet(Bytes(W \ {c}, byteLength))
            /\ Cardinality(Bytes(W \ {c}, byteLength)) \in Nat
            /\ Cardinality(Bytes(W \ {c}, byteLength))
                   = Cardinality(Bytes(W, byteLength)) - byteLength[c]
        BY <1>4, <4>1, BytesLess
      <4>4. Cardinality(Bytes(W, byteLength)) \in Nat
        BY <4>1, FS_CardinalityType
      <4> QED BY <1>1, <3>2, <4>1, <4>2, <4>3, <4>4
    <3> QED BY <3>1, <3>2
  <2>3. Limited' => inFlightBytes' <= options'.bytes
    BY <1>0, <1>1 DEF WindowKept, Limited
  <2> QED BY <2>1, <2>2, <2>3 DEF WindowKept
<1>16. LocksKept'
  BY <1>0, <1>1, LocksStay
<1> QED BY <1>9, <1>10, <1>12, <1>13, <1>14, <1>15, <1>16 DEF StreamInv

LEMMA RespondStep == ASSUME StreamInv, NEW c \in Ops, Respond(c) PROVE StreamInv'
<1>1. phase[c] = "remote" /\ CallMoves(c, "over") /\ KeepTickets /\ window' = window
      /\ UNCHANGED <<options, opVars, byteLength, inFlightBytes, taken, ready, locks, oldest,
                     hasError, streamClosed, sent, delivered>>
  BY DEF Respond, KeepTickets, drainVars
<1>2. PICK how \in {"ok", "failed"} : settled' = [settled EXCEPT ![c] = how]
  BY DEF Respond
<1> QED BY <1>1, <1>2, CallEndsStep

LEMMA SettleFailureStep == ASSUME StreamInv, NEW c \in Ops, SettleFailure(c) PROVE StreamInv'
<1>1. phase[c] = "failing" /\ CallMoves(c, "over") /\ ReleaseTicket(c)
      /\ settled' = [settled EXCEPT ![c] = "failed"]
  BY DEF SettleFailure
<1>2. UNCHANGED <<options, opVars, byteLength, inFlightBytes, taken, ready, locks, oldest,
                  hasError, streamClosed, sent, delivered>>
  BY DEF SettleFailure
<1>3. \/ window' = window
      \/ window' = RemoveFirst(window, c) /\ byteLength[c] = 0
  <2>1. byteLength[c] \in Nat
    BY StreamTypesOpen
  <2>2. CASE Reserved(c)
    BY <2>2 DEF SettleFailure
  <2>3. CASE ~Reserved(c)
    <3>1. window' = RemoveFirst(window, c)
      BY <2>3 DEF SettleFailure
    <3>2. byteLength[c] = 0
      BY <2>1, <2>3 DEF Reserved
    <3> QED BY <3>1, <3>2
  <2> QED BY <2>2, <2>3
<1>4. "failed" \in {"ok", "failed"} /\ phase[c] \in {"remote", "failing"}
      /\ (phase[c] = "remote" => KeepTickets)
  BY <1>1
<1> QED BY <1>1, <1>2, <1>3, <1>4, CallEndsStep

(***************************************************************************)
(* What holds again after a step of an agent of the drain lock.            *)
(***************************************************************************)
LEMMA MovedTo ==
    ASSUME StreamInv, NEW agent \in Agents, NEW x \in AtStates, NEW y \in Phases,
           MoveTo(agent, x, y)
    PROVE  /\ at' \in [Ops -> AtStates] /\ phase' \in [Ops -> Phases]
           /\ \A q \in Ops : at'[q] = IF agent = Op(q) THEN x ELSE at[q]
           /\ \A d \in Ops : phase'[d] = IF agent = Call(d) THEN y ELSE phase[d]
           /\ \A d \in Ops : agent = Call(d) => phase' = [phase EXCEPT ![d] = y]
           /\ (\A d \in Ops : agent # Call(d)) => phase' = phase
<1>1. at \in [Ops -> AtStates] /\ phase \in [Ops -> Phases]
  BY StreamTypesOpen DEF Phases
<1>2. PICK p \in Ops : agent = Op(p) \/ agent = Call(p)
  BY AgentFacts
<1>3. CASE agent = Op(p)
  <2>1. at' = [at EXCEPT ![p] = x] /\ phase' = phase
    BY <1>3, AgentFacts DEF MoveTo
  <2> QED BY <1>1, <1>3, <2>1, AgentFacts
<1>4. CASE agent = Call(p)
  <2>1. phase' = [phase EXCEPT ![p] = y] /\ at' = at
    BY <1>4, AgentFacts DEF MoveTo
  <2> QED BY <1>1, <1>4, <2>1, AgentFacts
<1> QED BY <1>2, <1>3, <1>4

\* The holder of the lock, and the first of the takers.
LEMMA HolderFacts ==
    ASSUME StreamInv, locks # <<>>
    PROVE  /\ Tail(locks) \in Seq(Agents) /\ Once(Tail(locks)) /\ Head(locks) \in Agents
           /\ Range(Tail(locks)) \subseteq Range(locks) /\ Head(locks) \notin Range(Tail(locks))
           /\ \A q \in Ops : Head(locks) = Op(q) => at[q] = "lock"
           /\ \A d \in Ops : Head(locks) = Call(d) => phase[d] = "lock"
<1>1. locks \in Seq(Agents) /\ Once(locks)
  BY StreamTypesOpen DEF StreamInv, LocksKept
<1>2. /\ Tail(locks) \in Seq(Agents) /\ Head(locks) \in Agents
      /\ Range(locks) = Range(Tail(locks)) \cup {Head(locks)}
      /\ Once(Tail(locks)) /\ Head(locks) \notin Range(Tail(locks))
  BY <1>1, TailFacts
<1> QED BY <1>2 DEF StreamInv, OpsKept, CallsKept

LEMMA TakerFacts ==
    ASSUME StreamInv, taken # <<>>
    PROVE  /\ Tail(taken) \in Seq(Ops \X Agents) /\ Head(taken) \in Ops \X Agents
           /\ Firsts(taken) \in Seq(Ops) /\ Firsts(taken) # <<>>
           /\ Head(Firsts(taken)) = Head(taken)[1] /\ Firsts(Tail(taken)) = Tail(Firsts(taken))
           /\ Range(Firsts(taken)) = Range(Firsts(Tail(taken))) \cup {Head(taken)[1]}
           /\ Once(Takers(Tail(taken)))
           /\ Range(Takers(Tail(taken))) \subseteq Range(Takers(taken))
           /\ Head(taken)[2] \notin Range(Takers(Tail(taken)))
           /\ \A q \in Ops : Head(taken)[2] = Op(q) => at[q] = "taken"
           /\ \A d \in Ops : Head(taken)[2] = Call(d) => phase[d] = "taken"
<1>1. taken \in Seq(Ops \X Agents) /\ Once(Takers(taken))
  BY StreamTypesOpen DEF StreamInv, LocksKept
<1>2. Firsts(taken) \in Seq(Ops) /\ Takers(taken) \in Seq(Agents)
  BY <1>1, PairSeqs
<1>3. /\ Tail(taken) \in Seq(Ops \X Agents) /\ Head(taken) \in Ops \X Agents
      /\ Firsts(taken) # <<>> /\ Head(Firsts(taken)) = Head(taken)[1]
      /\ Takers(taken) # <<>> /\ Head(Takers(taken)) = Head(taken)[2]
      /\ Firsts(Tail(taken)) = Tail(Firsts(taken)) /\ Takers(Tail(taken)) = Tail(Takers(taken))
  BY <1>1, PairTail
<1>4. Range(Firsts(taken)) = Range(Tail(Firsts(taken))) \cup {Head(Firsts(taken))}
  BY <1>2, <1>3, TailFacts
<1>5. /\ Range(Takers(taken)) = Range(Tail(Takers(taken))) \cup {Head(Takers(taken))}
      /\ Once(Tail(Takers(taken))) /\ Head(Takers(taken)) \notin Range(Tail(Takers(taken)))
  BY <1>1, <1>2, <1>3, TailFacts
<1> QED BY <1>2, <1>3, <1>4, <1>5 DEF StreamInv, OpsKept, CallsKept

\* What holds again after a step of an agent.
LEMMA OpsAfter ==
    ASSUME OpsKept, UNCHANGED <<kind, sent, streamClosed>>,
           \A q \in Ops : \/ at'[q] = at[q]
                          \/ /\ at[q] \in {"lock", "taken"} /\ at'[q] \in {"taken", "deliver", "threw"}
                             /\ at'[q] = "threw" => kind[q] # "cancel",
           \A q \in Ops : Op(q) \in Range(locks') => at'[q] = "lock",
           \A q \in Ops : Op(q) \in Range(Takers(taken')) => at'[q] = "taken",
           window = <<>> => window' = <<>>
    PROVE  OpsKept'
<1>1. \A q \in Ops : kind[q] = "send" /\ at'[q] \in {"idle", "loop", "lock", "taken"}
                       => q \notin Range(sent)
  BY DEF OpsKept
<1>2. \A q \in Ops : kind[q] = "cancel" /\ at'[q] # "idle" => streamClosed
  BY DEF OpsKept
<1>3. \A q \in Ops : at'[q] = "admission" => kind[q] = "send"
  BY DEF OpsKept
<1>4. CancelEmpties'
  <2> SUFFICES ASSUME NEW q \in Ops, kind[q] = "cancel", at'[q] \in Over PROVE window' = <<>>
    BY DEF CancelEmpties
  <2>1. at'[q] = at[q]
    BY DEF Over
  <2> QED BY <2>1 DEF OpsKept, CancelEmpties
<1> QED BY <1>1, <1>2, <1>3, <1>4 DEF OpsKept

LEMMA CallsAfter ==
    ASSUME CallsKept, UNCHANGED <<options, sent, settled, byteLength>>,
           \A d \in Ops : \/ phase'[d] = phase[d]
                          \/ phase[d] \in {"lock", "taken"} /\ phase'[d] \in {"taken", "reserve", "failing"},
           \A d \in Ops : d \in Range(window) /\ settled[d] = "no" => d \in Range(window'),
           \A d \in Ops : Call(d) \in Range(locks') => phase'[d] = "lock",
           \A d \in Ops : Call(d) \in Range(Takers(taken')) => phase'[d] = "taken",
           oldest \in Ops \cup {NoOp},
           oldest' = NoOp \/ oldest' \in Range(window') \/ UNCHANGED <<oldest, window>>
    PROVE  CallsKept'
<1>1. Encodes' = Encodes
  BY DEF Encodes, Limited
<1>2. \A d \in Ops : phase'[d] # "none" => d \in Range(sent)
  BY DEF CallsKept
<1>3. \A d \in Ops : phase'[d] \in InWindow => d \in Range(window')
  BY DEF CallsKept, InWindow
<1>4. \A d \in Ops : settled[d] # "no" <=> phase'[d] = "over"
  BY DEF CallsKept
<1>5. \A d \in Ops : Encodes /\ phase'[d] \in {"none", "prepare"} \cup Owning
                         => byteLength[d] = 0
  BY DEF CallsKept, Owning
<1>6. \A d \in Ops : phase'[d] \in {"reserve", "lock", "taken"} => Encodes
  BY DEF CallsKept
<1>7. oldest' # NoOp /\ oldest' \notin Range(window')
           => byteLength[oldest'] = 0 /\ phase'[oldest'] = "over"
  BY DEF CallsKept
<1> QED BY <1>1, <1>2, <1>3, <1>4, <1>5, <1>6, <1>7 DEF CallsKept

LEMMA TicketsAfter ==
    ASSUME StreamInv, NEW agent \in Agents, NEW y \in {"taken", "reserve", "failing"},
           NEW x \in AtStates, MoveTo(agent, x, y), UNCHANGED <<options, sent>>,
           \A d \in Ops : agent = Call(d) => /\ phase[d] \in {"lock", "taken"}
                                             /\ ReleaseTicket(d) \/ KeepTickets
                                             /\ y # "failing" => KeepTickets,
           (\A d \in Ops : agent # Call(d)) => KeepTickets
    PROVE  tickets' \in Seq(Ops) /\ TicketsKept' /\ pendingEncodedBytes' \in Nat
<1>0. y \in Phases \ {"prepare"} /\ ("failing" \notin Owning)
      /\ {"lock", "taken"} \subseteq Owning
  BY DEF Phases, Owning
<1>1. CASE \A d \in Ops : agent # Call(d)
  <2>1. phase' = phase
    BY <1>0, <1>1, MovedTo
  <2>2. tickets' = tickets /\ pendingEncodedBytes' = pendingEncodedBytes
    BY <1>1 DEF KeepTickets
  <2> QED BY <2>1, <2>2, StreamTypesOpen, TicketsStay DEF StreamInv
<1>2. ASSUME NEW d \in Ops, agent = Call(d)
      PROVE  tickets' \in Seq(Ops) /\ TicketsKept' /\ pendingEncodedBytes' \in Nat
  <2>1. phase' = [phase EXCEPT ![d] = y]
    BY <1>0, <1>2, MovedTo
  <2>2. /\ tickets' \in Seq(Ops) /\ Once(tickets') /\ pendingEncodedBytes' \in Nat
        /\ Range(tickets) \ {d} \subseteq Range(tickets')
        /\ Range(tickets') \subseteq Range(tickets)
        /\ tickets # <<>> /\ Head(tickets) # d => tickets' # <<>> /\ Head(tickets') = Head(tickets)
    BY <1>2, TicketsReleased
  <2>3. y \in Owning => tickets' = tickets /\ phase[d] \in Owning
    BY <1>0, <1>2 DEF KeepTickets
  <2> QED BY <1>0, <2>1, <2>2, <2>3, TicketsMove
<1> QED BY <1>1, <1>2

(***************************************************************************)
(* The steps of the drain lock.                                            *)
(***************************************************************************)
LEMMA AcquireStep == ASSUME StreamInv, NEW agent \in Agents, Acquire(agent) PROVE StreamInv'
<1>0. StreamInv /\ LineKept /\ CallsKept /\ TicketsKept /\ OpsKept /\ LocksKept /\ WindowKept
  BY DEF StreamInv
<1>1. /\ locks # <<>> /\ Head(locks) = agent /\ oldest = NoOp
      /\ UNCHANGED <<options, kind, child, failedOnce, byteLength, settled,
                     tickets, inFlightBytes, pendingEncodedBytes, window, taken,
                     ready, hasError, streamClosed, sent, delivered>>
  BY DEF Acquire
<1>2. WindowKept'
  BY <1>0, <1>1, WindowStays
<1>3. CASE locks' = Tail(locks) /\ MoveTo(agent, "deliver", "reserve") /\ UNCHANGED oldest
  <2>1. "deliver" \in AtStates /\ "reserve" \in Phases
    BY DEF AtStates, Phases
  <2>2. /\ at' \in [Ops -> AtStates] /\ phase' \in [Ops -> Phases]
        /\ \A q \in Ops : at'[q] = IF agent = Op(q) THEN "deliver" ELSE at[q]
        /\ \A d \in Ops : phase'[d] = IF agent = Call(d) THEN "reserve" ELSE phase[d]
    BY <1>3, <2>1, MovedTo
  <2>3. /\ locks' \in Seq(Agents) /\ Once(locks') /\ Range(locks') \subseteq Range(locks)
        /\ agent \notin Range(locks')
        /\ \A q \in Ops : agent = Op(q) => at[q] = "lock"
        /\ \A d \in Ops : agent = Call(d) => phase[d] = "lock"
    BY <1>1, <1>3, HolderFacts
  <2>4. TicketsKept'
    BY <1>0, <1>1, <1>3, <2>1, <2>3, TicketsAfter DEF KeepTickets
  <2>5. StreamTypeOK'
    BY <1>0, <1>1, <1>3, <2>2, <2>3 DEF StreamInv, StreamTypeOK, AtStates, Phases
  <2>6. OpsKept'
    <3>1. \A q \in Ops : at'[q] = at[q] \/ (at[q] = "lock" /\ at'[q] = "deliver")
      BY <2>2, <2>3
    <3>2. \A q \in Ops : Op(q) \in Range(locks') => at'[q] = "lock"
      BY <1>0, <2>2, <2>3 DEF OpsKept
    <3>3. \A q \in Ops : Op(q) \in Range(Takers(taken')) => at'[q] = "taken"
      BY <1>0, <1>1, <2>2, <2>3 DEF OpsKept
    <3> QED BY <1>0, <1>1, <3>1, <3>2, <3>3, OpsAfter
  <2>7. CallsKept'
    <3>1. \A d \in Ops : phase'[d] = phase[d] \/ (phase[d] = "lock" /\ phase'[d] = "reserve")
      BY <2>2, <2>3
    <3>2. \A d \in Ops : Call(d) \in Range(locks') => phase'[d] = "lock"
      BY <1>0, <2>2, <2>3 DEF CallsKept
    <3>3. \A d \in Ops : Call(d) \in Range(Takers(taken')) => phase'[d] = "taken"
      BY <1>0, <1>1, <2>2, <2>3 DEF CallsKept
    <3> QED BY <1>0, <1>1, <1>3, <3>1, <3>2, <3>3, CallsAfter
  <2>8. LineKept' /\ LocksKept'
    <3>1. LocksKept'
      BY <1>0, <1>1, <1>3, <2>3 DEF LocksKept
    <3> QED BY <1>0, <1>1, <1>3, <3>1, LineStays
  <2> QED BY <1>2, <2>4, <2>5, <2>6, <2>7, <2>8 DEF StreamInv
<1>4. CASE window # <<>> /\ oldest' = Head(window) /\ UNCHANGED <<locks, at, phase>>
  <2>1. window \in Seq(Ops) /\ Head(window) \in Ops /\ Head(window) \in Range(window)
    BY <1>4, StreamTypesOpen, TailFacts
  <2>2. StreamTypeOK'
    BY <1>0, <1>1, <1>4, <2>1 DEF StreamInv, StreamTypeOK
  <2>3. LineKept'
    <3>1. Drained = {} /\ Drained' = {Head(window)} /\ SentBefore' = SentBefore
      BY <1>1, <1>4, <2>1, OpsNumbers DEF Drained, SentBefore
    <3>2. LineUp(delivered, ready, Firsts(taken), {Head(window)}, window, SentBefore)
      BY <1>0, <1>4, <2>1, <3>1, LineLooks DEF LineKept
    <3>3. Lined' \subseteq Lined
      BY <1>1, <2>1, <3>1 DEF Lined
    <3> QED BY <1>0, <1>1, <3>1, <3>2, <3>3 DEF LineKept
  <2>4. CallsKept'
    <3>1. oldest \in Ops \cup {NoOp} /\ oldest' \in Range(window')
      BY <1>1, <1>4, <2>1
    <3>2. /\ \A d \in Ops : Call(d) \in Range(locks') => phase'[d] = "lock"
          /\ \A d \in Ops : Call(d) \in Range(Takers(taken')) => phase'[d] = "taken"
      BY <1>0, <1>1, <1>4 DEF CallsKept
    <3> QED BY <1>0, <1>1, <1>4, <3>1, <3>2, CallsAfter
  <2>5. TicketsKept' /\ OpsKept'
    BY <1>0, <1>1, <1>4, TicketsStay, OpsStay
  <2>6. LocksKept'
    BY <1>0, <1>1, <1>4 DEF LocksKept
  <2> QED BY <1>2, <2>2, <2>3, <2>4, <2>5, <2>6 DEF StreamInv
<1> QED BY <1>3, <1>4 DEF Acquire

LEMMA TakeHeadStep == ASSUME StreamInv, NEW agent \in Agents, TakeHead(agent) PROVE StreamInv'
<1>0. StreamInv /\ LineKept /\ CallsKept /\ TicketsKept /\ OpsKept /\ LocksKept /\ WindowKept
  BY DEF StreamInv
<1> DEFINE c == oldest
<1>1. /\ oldest # NoOp /\ Head(locks) = agent /\ settled[c] # "no"
      /\ locks' = Tail(locks) /\ oldest' = NoOp /\ MoveTo(agent, "taken", "taken")
      /\ window' = RemoveFirst(window, c) /\ inFlightBytes' = inFlightBytes - byteLength[c]
      /\ taken' = Append(taken, <<c, agent>>)
      /\ UNCHANGED <<options, kind, child, failedOnce, byteLength, settled,
                     tickets, pendingEncodedBytes, ready, hasError, streamClosed,
                     sent, delivered>>
  BY DEF TakeHead, Holds, ReleaseLock
<1>2. c \in Ops /\ locks # <<>> /\ byteLength[c] \in Nat
  <2>1. c \in Ops
    BY <1>0, <1>1 DEF StreamInv, StreamTypeOK
  <2> QED BY <1>0, <1>1, <2>1, StreamTypesOpen DEF LocksKept
<1>3. "taken" \in AtStates /\ "taken" \in Phases
  BY DEF AtStates, Phases
<1>4. /\ at' \in [Ops -> AtStates] /\ phase' \in [Ops -> Phases]
      /\ \A q \in Ops : at'[q] = IF agent = Op(q) THEN "taken" ELSE at[q]
      /\ \A d \in Ops : phase'[d] = IF agent = Call(d) THEN "taken" ELSE phase[d]
  BY <1>1, <1>3, MovedTo
<1>5. /\ locks' \in Seq(Agents) /\ Once(locks') /\ Range(locks') \subseteq Range(locks)
      /\ agent \notin Range(locks')
      /\ \A q \in Ops : agent = Op(q) => at[q] = "lock"
      /\ \A d \in Ops : agent = Call(d) => phase[d] = "lock"
  BY <1>1, <1>2, HolderFacts
<1>6. window \in Seq(Ops) /\ Once(window) /\ taken \in Seq(Ops \X Agents)
      /\ Firsts(taken) \in Seq(Ops) /\ Takers(taken) \in Seq(Agents)
  BY <1>0, StreamTypesOpen, WindowOnce, PairSeqs
<1>7. /\ window' \in Seq(Ops) /\ Len(window') <= Len(window)
      /\ Range(window') = Range(window) \ {c}
  BY <1>1, <1>6, RemovedFacts
<1>8. /\ taken' \in Seq(Ops \X Agents)
      /\ Firsts(taken') = Append(Firsts(taken), c)
      /\ Takers(taken') = Append(Takers(taken), agent)
  BY <1>1, <1>2, <1>6, PairAppend
<1>9. agent \notin Range(Takers(taken))
  <2>1. PICK p \in Ops : agent = Op(p) \/ agent = Call(p)
    BY AgentFacts
  <2> QED BY <1>0, <1>5, <2>1 DEF OpsKept, CallsKept
<1>10. /\ Range(Firsts(taken')) = Range(Firsts(taken)) \cup {c}
       /\ Range(Takers(taken')) = Range(Takers(taken)) \cup {agent} /\ Once(Takers(taken'))
  <2>1. Range(Append(Firsts(taken), c)) = Range(Firsts(taken)) \cup {c}
    BY <1>2, <1>6, AppendFacts
  <2>2. /\ Range(Append(Takers(taken), agent)) = Range(Takers(taken)) \cup {agent}
        /\ Once(Append(Takers(taken), agent))
    BY <1>0, <1>6, <1>9, AppendFacts DEF LocksKept
  <2> QED BY <1>8, <2>1, <2>2
<1>11. WindowKept' /\ inFlightBytes' \in Nat
  <2> DEFINE W == Range(window)
  <2>1. IsFiniteSet(Bytes(W, byteLength)) /\ inFlightBytes = Cardinality(Bytes(W, byteLength))
    BY <1>0, WindowBytesAre DEF WindowKept
  <2>2. WindowBytes' = Bytes(W \ {c}, byteLength)
    BY <1>1, <1>7 DEF WindowBytes, Bytes
  <2>3. Cardinality(Bytes(W, byteLength)) \in Nat
    BY <2>1, FS_CardinalityType
  <2>4. /\ IsFiniteSet(Bytes(W \ {c}, byteLength))
        /\ Cardinality(Bytes(W \ {c}, byteLength)) \in Nat
        /\ Cardinality(Bytes(W \ {c}, byteLength))
               = Cardinality(Bytes(W, byteLength)) - byteLength[c]
    <3>1. CASE c \in W
      <4> HIDE DEF W
      <4> QED BY <1>2, <2>1, <3>1, BytesLess
    <3>2. CASE c \notin W
      <4>1. byteLength[c] = 0 /\ W \ {c} = W
        BY <1>0, <1>1, <3>2 DEF CallsKept
      <4> HIDE DEF W
      <4> QED BY <2>1, <2>3, <4>1
    <3> QED BY <3>1, <3>2
  <2>5. /\ IsFiniteSet(WindowBytes') /\ inFlightBytes' = Cardinality(WindowBytes')
        /\ inFlightBytes' \in Nat /\ inFlightBytes' <= inFlightBytes
    <3> HIDE DEF W
    <3> QED BY <1>1, <1>2, <2>1, <2>2, <2>3, <2>4
  <2>6. Len(window') <= MaxInFlight
    <3>1. Len(window') \in Nat /\ Len(window) \in Nat
      BY <1>6, <1>7, LenProperties
    <3> QED BY <1>0, <1>7, <3>1, StreamAssumption DEF WindowKept
  <2>7. Limited' => inFlightBytes' <= options'.bytes
    <3>1. inFlightBytes \in Nat /\ options.bytes \in Nat
      BY StreamTypesOpen
    <3> QED BY <1>0, <1>1, <2>5, <3>1 DEF WindowKept, Limited
  <2> QED BY <2>5, <2>6, <2>7 DEF WindowKept
<1>12. StreamTypeOK'
  <2>1. {window', ready', tickets', sent', delivered'} \subseteq Seq(Ops)
    BY <1>0, <1>1, <1>7, StreamTypesOpen
  <2> QED BY <1>0, <1>1, <1>4, <1>5, <1>8, <1>11, <2>1
          DEF StreamInv, StreamTypeOK, AtStates, Phases
<1>13. LineKept'
  <2>1. Drained = {c} /\ Drained' = {} /\ SentBefore' = SentBefore
    BY <1>1 DEF Drained, SentBefore
  <2>2. LineUp(delivered, ready, Firsts(taken'), {}, window', SentBefore)
    <3>1. LineUp(delivered, ready, Firsts(taken), {c}, window, SentBefore)
      BY <1>0, <2>1 DEF LineKept
    <3>2. delivered \in Seq(Ops) /\ ready \in Seq(Ops)
      BY StreamTypesOpen
    <3>3. LineUp(delivered, ready, Append(Firsts(taken), c), {}, RemoveFirst(window, c), SentBefore)
      BY <1>2, <1>6, <3>1, <3>2, LineTakes
    <3> QED BY <1>1, <1>8, <3>3
  <2>3. Lined' \subseteq Lined
    BY <1>1, <1>7, <1>10, <2>1 DEF Lined
  <2> QED BY <1>0, <1>1, <2>1, <2>2, <2>3 DEF LineKept
<1>14. OpsKept'
  <2>1. \A q \in Ops : at'[q] = at[q] \/ (at[q] = "lock" /\ at'[q] = "taken")
    BY <1>4, <1>5
  <2>2. \A q \in Ops : Op(q) \in Range(locks') => at'[q] = "lock"
    BY <1>0, <1>4, <1>5 DEF OpsKept
  <2>3. \A q \in Ops : Op(q) \in Range(Takers(taken')) => at'[q] = "taken"
    BY <1>0, <1>4, <1>10 DEF OpsKept
  <2>4. window = <<>> => window' = <<>>
    <3>1. window = <<>> => Len(window) = 0
      BY EmptySeq
    <3>2. Len(window') \in Nat
      BY <1>7, LenProperties
    <3> QED BY <1>7, <3>1, <3>2, EmptySeq
  <2> QED BY <1>0, <1>1, <2>1, <2>2, <2>3, <2>4, OpsAfter
<1>15. CallsKept'
  <2>1. \A d \in Ops : phase'[d] = phase[d] \/ (phase[d] = "lock" /\ phase'[d] = "taken")
    BY <1>4, <1>5
  <2>2. \A d \in Ops : Call(d) \in Range(locks') => phase'[d] = "lock"
    BY <1>0, <1>4, <1>5 DEF CallsKept
  <2>3. \A d \in Ops : Call(d) \in Range(Takers(taken')) => phase'[d] = "taken"
    BY <1>0, <1>4, <1>10 DEF CallsKept
  <2>4. \A d \in Ops : d \in Range(window) /\ settled[d] = "no" => d \in Range(window')
    BY <1>1, <1>7
  <2> QED BY <1>0, <1>1, <1>2, <2>1, <2>2, <2>3, <2>4, CallsAfter
<1>16. TicketsKept'
  BY <1>0, <1>1, <1>3, <1>5, TicketsAfter DEF KeepTickets
<1>17. LocksKept'
  BY <1>0, <1>1, <1>5, <1>10 DEF LocksKept
<1> QED BY <1>11, <1>12, <1>13, <1>14, <1>15, <1>16, <1>17 DEF StreamInv

LEMMA HolderThrowsStep == ASSUME StreamInv, NEW agent \in Agents, HolderThrows(agent)
                          PROVE  StreamInv'
<1>0. StreamInv /\ LineKept /\ CallsKept /\ TicketsKept /\ OpsKept /\ LocksKept /\ WindowKept
  BY DEF StreamInv
<1>1. /\ oldest # NoOp /\ Head(locks) = agent
      /\ locks' = Tail(locks) /\ oldest' = NoOp /\ MoveTo(agent, "threw", "failing")
      /\ UNCHANGED <<options, kind, child, failedOnce, byteLength, settled,
                     inFlightBytes, window, taken, ready, hasError, streamClosed,
                     sent, delivered>>
  BY DEF HolderThrows, Holds, ReleaseLock
<1>2. /\ \A q \in Ops : agent = Op(q) => kind[q] # "cancel" /\ KeepTickets
      /\ \A d \in Ops : agent = Call(d) => ReleaseTicket(d)
  BY AgentFacts DEF HolderThrows
<1>3. "threw" \in AtStates /\ "failing" \in Phases /\ locks # <<>>
  BY <1>0, <1>1 DEF AtStates, Over, Phases, LocksKept
<1>4. /\ at' \in [Ops -> AtStates] /\ phase' \in [Ops -> Phases]
      /\ \A q \in Ops : at'[q] = IF agent = Op(q) THEN "threw" ELSE at[q]
      /\ \A d \in Ops : phase'[d] = IF agent = Call(d) THEN "failing" ELSE phase[d]
  BY <1>1, <1>3, MovedTo
<1>5. /\ locks' \in Seq(Agents) /\ Once(locks') /\ Range(locks') \subseteq Range(locks)
      /\ agent \notin Range(locks')
      /\ \A q \in Ops : agent = Op(q) => at[q] = "lock"
      /\ \A d \in Ops : agent = Call(d) => phase[d] = "lock"
  BY <1>1, <1>3, HolderFacts
<1>6. tickets' \in Seq(Ops) /\ TicketsKept' /\ pendingEncodedBytes' \in Nat
  <2>1. (\A d \in Ops : agent # Call(d)) => KeepTickets
    BY <1>2, AgentFacts
  <2> QED BY <1>0, <1>1, <1>2, <1>3, <1>5, <2>1, TicketsAfter
<1>7. StreamTypeOK'
  <2>1. {window', ready', tickets', sent', delivered'} \subseteq Seq(Ops)
    BY <1>0, <1>1, <1>6, StreamTypesOpen
  <2> QED BY <1>0, <1>1, <1>4, <1>5, <1>6, <2>1 DEF StreamInv, StreamTypeOK, AtStates, Phases
<1>8. LineKept'
  <2>1. Drained' = {} /\ SentBefore' = SentBefore
    BY <1>1 DEF Drained, SentBefore
  <2>2. LineUp(delivered, ready, Firsts(taken), {}, window, SentBefore)
    BY <1>0, LineStopsLooking DEF LineKept
  <2>3. Lined' \subseteq Lined
    BY <1>1, <2>1 DEF Lined
  <2> QED BY <1>0, <1>1, <2>1, <2>2, <2>3 DEF LineKept
<1>9. OpsKept'
  <2>1. \A q \in Ops : at'[q] = at[q] \/ (at[q] = "lock" /\ at'[q] = "threw" /\ kind[q] # "cancel")
    BY <1>2, <1>4, <1>5
  <2>2. \A q \in Ops : Op(q) \in Range(locks') => at'[q] = "lock"
    BY <1>0, <1>4, <1>5 DEF OpsKept
  <2>3. \A q \in Ops : Op(q) \in Range(Takers(taken')) => at'[q] = "taken"
    BY <1>0, <1>1, <1>4, <1>5 DEF OpsKept
  <2> QED BY <1>0, <1>1, <2>1, <2>2, <2>3, OpsAfter
<1>10. CallsKept'
  <2>1. \A d \in Ops : phase'[d] = phase[d] \/ (phase[d] = "lock" /\ phase'[d] = "failing")
    BY <1>4, <1>5
  <2>2. \A d \in Ops : Call(d) \in Range(locks') => phase'[d] = "lock"
    BY <1>0, <1>4, <1>5 DEF CallsKept
  <2>3. \A d \in Ops : Call(d) \in Range(Takers(taken')) => phase'[d] = "taken"
    BY <1>0, <1>1, <1>4, <1>5 DEF CallsKept
  <2>4. oldest \in Ops \cup {NoOp}
    BY <1>0 DEF StreamInv, StreamTypeOK
  <2> QED BY <1>0, <1>1, <2>1, <2>2, <2>3, <2>4, CallsAfter
<1>11. LocksKept'
  BY <1>0, <1>1, <1>5 DEF LocksKept
<1>12. WindowKept'
  BY <1>0, <1>1, WindowStays
<1> QED BY <1>6, <1>7, <1>8, <1>9, <1>10, <1>11, <1>12 DEF StreamInv

LEMMA PushReadyStep == ASSUME StreamInv, NEW agent \in Agents, PushReady(agent) PROVE StreamInv'
<1>0. StreamInv /\ LineKept /\ CallsKept /\ TicketsKept /\ OpsKept /\ LocksKept /\ WindowKept
  BY DEF StreamInv
<1>1. /\ taken # <<>> /\ Head(taken)[2] = agent
      /\ taken' = Tail(taken) /\ ready' = Append(ready, Head(taken)[1])
      /\ UNCHANGED <<options, kind, child, failedOnce, byteLength, settled,
                     inFlightBytes, window, locks, oldest, hasError, streamClosed,
                     sent, delivered>>
  BY DEF PushReady
<1>2. PICK y \in {"reserve", "failing"} :
          /\ MoveTo(agent, "deliver", y)
          /\ \A q \in Ops : agent = Op(q) => KeepTickets
          /\ \A d \in Ops : agent = Call(d) => /\ ReleaseTicket(d) \/ KeepTickets
                                               /\ y # "failing" => KeepTickets
  <2>1. CASE MaySend
    BY <2>1, AgentFacts DEF PushReady
  <2>2. CASE ~MaySend
    BY <2>2, AgentFacts DEF PushReady
  <2> QED BY <2>1, <2>2
<1>3. "deliver" \in AtStates /\ y \in Phases
  BY <1>2 DEF AtStates, Phases
<1>4. /\ at' \in [Ops -> AtStates] /\ phase' \in [Ops -> Phases]
      /\ \A q \in Ops : at'[q] = IF agent = Op(q) THEN "deliver" ELSE at[q]
      /\ \A d \in Ops : phase'[d] = IF agent = Call(d) THEN y ELSE phase[d]
  BY <1>2, <1>3, MovedTo
<1>5. /\ taken' \in Seq(Ops \X Agents) /\ Head(taken) \in Ops \X Agents
      /\ Firsts(taken) \in Seq(Ops) /\ Firsts(taken) # <<>>
      /\ Head(Firsts(taken)) = Head(taken)[1] /\ Firsts(taken') = Tail(Firsts(taken))
      /\ Range(Firsts(taken)) = Range(Firsts(taken')) \cup {Head(taken)[1]}
      /\ Once(Takers(taken')) /\ Range(Takers(taken')) \subseteq Range(Takers(taken))
      /\ agent \notin Range(Takers(taken'))
      /\ \A q \in Ops : agent = Op(q) => at[q] = "taken"
      /\ \A d \in Ops : agent = Call(d) => phase[d] = "taken"
  BY <1>1, TakerFacts
<1>6. Head(taken)[1] \in Ops /\ ready \in Seq(Ops) /\ ready' \in Seq(Ops)
      /\ Range(ready') = Range(ready) \cup {Head(taken)[1]}
  <2>1. Head(taken)[1] \in Ops /\ ready \in Seq(Ops)
    BY <1>5, StreamTypesOpen
  <2> QED BY <1>1, <2>1, AppendFacts
<1>7. tickets' \in Seq(Ops) /\ TicketsKept' /\ pendingEncodedBytes' \in Nat
  <2>1. (\A d \in Ops : agent # Call(d)) => KeepTickets
    BY <1>2, AgentFacts
  <2>2. \A d \in Ops : agent = Call(d) => /\ phase[d] \in {"lock", "taken"}
                                          /\ ReleaseTicket(d) \/ KeepTickets
                                          /\ y # "failing" => KeepTickets
    BY <1>2, <1>5
  <2>3. y \in {"taken", "reserve", "failing"}
    OBVIOUS
  <2> QED BY <1>0, <1>1, <1>2, <1>3, <2>1, <2>2, <2>3, TicketsAfter
<1>8. StreamTypeOK'
  <2>1. {window', ready', tickets', sent', delivered'} \subseteq Seq(Ops)
    BY <1>0, <1>1, <1>6, <1>7, StreamTypesOpen
  <2> QED BY <1>0, <1>1, <1>4, <1>5, <1>7, <2>1 DEF StreamInv, StreamTypeOK, AtStates, Phases
<1>9. LineKept'
  <2>1. Drained' = Drained /\ SentBefore' = SentBefore
    BY <1>1 DEF Drained, SentBefore
  <2>2. LineUp(delivered, ready', Firsts(taken'), Drained, window, SentBefore)
    <3>1. delivered \in Seq(Ops) /\ window \in Seq(Ops)
      BY StreamTypesOpen
    <3>2. LineUp(delivered, Append(ready, Head(Firsts(taken))), Tail(Firsts(taken)), Drained,
                 window, SentBefore)
      BY <1>0, <1>5, <1>6, <3>1, LineReadies DEF LineKept
    <3> QED BY <1>1, <1>5, <3>2
  <2>3. Lined' \subseteq Lined
    BY <1>1, <1>5, <1>6, <2>1 DEF Lined
  <2> QED BY <1>0, <1>1, <2>1, <2>2, <2>3 DEF LineKept
<1>10. OpsKept'
  <2>1. \A q \in Ops : at'[q] = at[q] \/ (at[q] = "taken" /\ at'[q] = "deliver")
    BY <1>4, <1>5
  <2>2. \A q \in Ops : Op(q) \in Range(locks') => at'[q] = "lock"
    BY <1>0, <1>1, <1>4, <1>5 DEF OpsKept
  <2>3. \A q \in Ops : Op(q) \in Range(Takers(taken')) => at'[q] = "taken"
    BY <1>0, <1>4, <1>5 DEF OpsKept
  <2> QED BY <1>0, <1>1, <2>1, <2>2, <2>3, OpsAfter
<1>11. CallsKept'
  <2>1. \A d \in Ops : phase'[d] = phase[d] \/ (phase[d] = "taken" /\ phase'[d] \in {"reserve", "failing"})
    BY <1>2, <1>4, <1>5
  <2>2. \A d \in Ops : Call(d) \in Range(locks') => phase'[d] = "lock"
    BY <1>0, <1>1, <1>4, <1>5 DEF CallsKept
  <2>3. \A d \in Ops : Call(d) \in Range(Takers(taken')) => phase'[d] = "taken"
    BY <1>0, <1>4, <1>5 DEF CallsKept
  <2>4. oldest \in Ops \cup {NoOp}
    BY <1>0 DEF StreamInv, StreamTypeOK
  <2> QED BY <1>0, <1>1, <2>1, <2>2, <2>3, <2>4, CallsAfter
<1>12. LocksKept'
  BY <1>0, <1>1, <1>5 DEF LocksKept
<1>13. WindowKept'
  BY <1>0, <1>1, WindowStays
<1> QED BY <1>7, <1>8, <1>9, <1>10, <1>11, <1>12, <1>13 DEF StreamInv

(***************************************************************************)
(* The theorems.                                                           *)
(***************************************************************************)
LEMMA StreamInvStep == ASSUME StreamInv, StreamNext PROVE StreamInv'
<1>1. ASSUME NEW p \in Ops, Close(p) PROVE StreamInv'
  BY <1>1, ClosingStep
<1>2. ASSUME NEW p \in Ops, OpStep(p) PROVE StreamInv'
  <2>1. CASE Moves(p)
    BY <2>1, MovesStep
  <2>2. CASE Admit(p)
    BY <2>2, AdmitStep
  <2>3. CASE AskForLock(p)
    BY <2>3, AskStep
  <2>4. CASE Deliver(p)
    BY <2>4, DeliverStep
  <2>5. CASE CallbackEnds(p)
    BY <2>5, CallbackStep
  <2> QED BY <1>2, <2>1, <2>2, <2>3, <2>4, <2>5 DEF OpStep, Moves
<1>3. ASSUME NEW p \in Ops, AdmitThrows(p) PROVE StreamInv'
  BY <1>3, AdmitThrowsStep
<1>4. ASSUME NEW c \in Ops, StreamCallStep(c) PROVE StreamInv'
  BY <1>4, PrepareStep, EncodeFailsStep, EncodeStep, ReserveStep, RespondStep, SettleFailureStep
     DEF StreamCallStep
<1>5. ASSUME NEW p \in Ops, NEW parent \in Ops, Nest(p, parent) PROVE StreamInv'
  BY <1>5, NestStep
<1>6. ASSUME NEW agent \in Agents, AgentStep(agent) PROVE StreamInv'
  BY <1>6, AcquireStep, TakeHeadStep, HolderThrowsStep, PushReadyStep DEF AgentStep
<1> QED BY <1>1, <1>2, <1>3, <1>4, <1>5, <1>6 DEF StreamNext

\* What holds in every reachable state of a stream: each call is in one place (the
\* window, taken, ready or handed over), in the order of the sends, and both byte
\* counters are the sums of what is charged.
THEOREM StreamInvariant == StreamSpec => []StreamInv
<1>1. StreamInv /\ UNCHANGED streamVars => StreamInv'
  <2> SUFFICES ASSUME StreamInv, UNCHANGED streamVars PROVE StreamInv'
    OBVIOUS
  <2>1. UNCHANGED <<options, opVars, callVars, drainVars, hasError, streamClosed, sent, delivered>>
    BY DEF streamVars
  <2>2. UNCHANGED <<kind, at, child, failedOnce>>
    BY <2>1 DEF opVars
  <2>3. LineKept' /\ CallsKept' /\ TicketsKept' /\ OpsKept' /\ LocksKept' /\ WindowKept'
    BY <2>1, <2>2, LineStays, CallsStay, TicketsStay, OpsStay, LocksStay, WindowStays
       DEF StreamInv, callVars, drainVars
  <2>4. StreamTypeOK'
    BY <2>1, <2>2 DEF StreamInv, StreamTypeOK, callVars, drainVars
  <2> QED BY <2>3, <2>4 DEF StreamInv
<1> QED BY <1>1, StreamInvInit, StreamInvStep, PTL DEF StreamSpec

LEMMA StreamInvSays ==
    ASSUME StreamInv PROVE StreamTypeOK /\ WindowExact /\ HandedOverInOrder /\ CancelEmpties
<1>1. StreamTypeOK /\ CancelEmpties
  BY DEF StreamInv, OpsKept
<1>2. WindowExact
  <2> DEFINE Owners == {c \in Ops : phase[c] \in {"encode", "reserve", "lock", "taken"}}
  <2>1. IsFiniteSet(Owners) /\ Cardinality(Owners) <= Cardinality(Ops)
    BY OpsNumbers, FS_Subset
  <2>2. Encodes => Cardinality(Owners) <= 1
    <3> SUFFICES ASSUME Encodes PROVE Cardinality(Owners) <= 1
      OBVIOUS
    <3>1. Owners \subseteq {Head(tickets)}
      BY DEF StreamInv, TicketsKept, Owning
    <3>2. IsFiniteSet({Head(tickets)}) /\ Cardinality({Head(tickets)}) = 1
      BY FS_Singleton
    <3> HIDE DEF Owners
    <3> QED BY <3>1, <3>2, FS_Subset
  <2> HIDE DEF Owners
  <2>3. Cardinality(Owners) <= IF Encodes THEN 1 ELSE Cardinality(Ops)
    BY <2>1, <2>2
  <2> QED BY <2>3 DEF Owners, WindowExact, StreamInv, WindowKept
<1>3. HandedOverInOrder
  <2>1. InLine(delivered, SentBefore) /\ delivered \in Seq(Ops) /\ sent \in Seq(Ops)
    BY StreamTypesOpen DEF StreamInv, LineKept, LineUp
  <2>2. DOMAIN delivered = 1 .. Len(delivered) /\ DOMAIN sent = 1 .. Len(sent)
    BY <2>1
  <2> SUFFICES ASSUME NEW i \in 1 .. Len(delivered), NEW j \in 1 .. Len(delivered), i < j
               PROVE  \E m, n \in 1 .. Len(sent) : /\ m < n /\ sent[m] = delivered[i]
                                                   /\ sent[n] = delivered[j]
    BY <2>2 DEF HandedOverInOrder
  <2>3. <<delivered[i], delivered[j]>> \in SentBefore
    BY <2>1 DEF InLine
  <2> QED BY <2>3 DEF SentBefore
<1> QED BY <1>1, <1>2, <1>3

\* The window holds exactly the calls that are in flight and their bytes, responses
\* are handed over once each in the order of the sends, and cancel() leaves neither,
\* for every number of operations and every interleaving of their callbacks.
THEOREM StreamPropertiesHold ==
    StreamSpec => [](WindowExact /\ HandedOverInOrder /\ CancelEmpties)
BY StreamInvariant, StreamInvSays, PTL
===============================================================================
