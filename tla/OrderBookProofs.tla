--------------------------- MODULE OrderBookProofs ---------------------------
(***************************************************************************)
(* Proofs about OrderBook, for every set of prices and incoming orders.    *)
(***************************************************************************)
EXTENDS OrderBook, SequenceTheorems, TLAPS

LEMMA RemoveAtFacts ==
    ASSUME NEW S, NEW q \in Seq(S), NEW i \in 1 .. Len(q)
    PROVE  /\ RemoveAt(q, i) \in Seq(S)
           /\ Len(RemoveAt(q, i)) = Len(q) - 1
           /\ \A j \in 1 .. Len(q) - 1 :
                 RemoveAt(q, i)[j] = IF j < i THEN q[j] ELSE q[j + 1]
<1> DEFINE a == SubSeq(q, 1, i - 1)
           b == SubSeq(q, i + 1, Len(q))
<1>1. /\ a \in Seq(S) /\ Len(a) = i - 1
      /\ \A j \in 1 .. i - 1 : a[j] = q[j]
  BY SubSeqProperties
<1>2. /\ b \in Seq(S) /\ Len(b) = Len(q) - i
      /\ \A j \in 1 .. Len(q) - i : b[j] = q[i + j]
  BY SubSeqProperties
<1>3. RemoveAt(q, i) = a \o b
  BY DEF RemoveAt
<1> HIDE DEF a, b
<1>4. /\ a \o b \in Seq(S) /\ Len(a \o b) = Len(a) + Len(b)
      /\ \A j \in 1 .. Len(a) + Len(b) :
            (a \o b)[j] = IF j <= Len(a) THEN a[j] ELSE b[j - Len(a)]
  BY <1>1, <1>2, ConcatProperties
<1>5. Len(q) \in Nat
  BY LenProperties
<1>6. ASSUME NEW j \in 1 .. Len(q) - 1
      PROVE  (a \o b)[j] = IF j < i THEN q[j] ELSE q[j + 1]
  <2>1. CASE j < i
    BY <2>1, <1>1, <1>2, <1>4, <1>5
  <2>2. CASE ~(j < i)
    <3> DEFINE k == j - Len(a)
    <3>1. k \in 1 .. Len(q) - i /\ i + k = j + 1 /\ ~(j <= Len(a))
      BY <2>2, <1>5, <1>1
    <3>2. j \in 1 .. Len(a) + Len(b)
      BY <1>1, <1>2, <1>5
    <3>3. (a \o b)[j] = b[k]
      BY <3>1, <3>2, <1>4
    <3>4. b[k] = q[i + k]
      BY <3>1, <1>2
    <3> QED BY <3>1, <3>3, <3>4, <2>2
  <2> QED BY <2>1, <2>2
<1> QED BY <1>1, <1>2, <1>3, <1>4, <1>5, <1>6

-----------------------------------------------------------------------------
(* Running totals: appending, reducing and removing an order.              *)

LEMMA TallyEmpty == Tally(<<>>, 0)
<1> DEFINE ss == [k \in 0 .. 0 |-> 0]
<1>1. ss \in [0 .. Len(<<>>) -> 0 .. 0] /\ RunningTotals(<<>>, 0, ss)
  BY DEF RunningTotals
<1> QED BY <1>1 DEF Tally

LEMMA TallyAppend ==
    ASSUME NEW q \in Seq(Orders(OrderIds)), NEW t \in Nat, Tally(q, t),
           NEW o \in Orders(OrderIds)
    PROVE  Tally(Append(q, o), t + o.rem)
<1>1. PICK ss \in [0 .. Len(q) -> 0 .. t] : RunningTotals(q, t, ss)
  BY DEF Tally
<1> DEFINE q2 == Append(q, o)
           t2 == t + o.rem
           s2 == [k \in 0 .. Len(q2) |-> IF k <= Len(q) THEN ss[k] ELSE t2]
<1>2. o.rem \in Nat
  BY DEF Orders
<1>3. /\ Len(q) \in Nat /\ Len(q2) = Len(q) + 1
      /\ \A i \in 1 .. Len(q) : q2[i] = q[i]
      /\ q2[Len(q) + 1] = o
  BY AppendProperties
<1>4. s2 \in [0 .. Len(q2) -> 0 .. t2]
  BY <1>1, <1>2, <1>3
<1>5. RunningTotals(q2, t2, s2)
  <2>1. s2[0] = 0 /\ s2[Len(q2)] = t2
    BY <1>1, <1>3 DEF RunningTotals
  <2>2. ASSUME NEW i \in 1 .. Len(q2)
        PROVE  s2[i] = s2[i - 1] + q2[i].rem
    <3>1. CASE i = Len(q) + 1
      BY <3>1, <1>1, <1>2, <1>3 DEF RunningTotals
    <3>2. CASE i \in 1 .. Len(q)
      BY <3>2, <1>1, <1>3 DEF RunningTotals
    <3> QED BY <3>1, <3>2, <1>3
  <2>3. ASSUME NEW i \in 0 .. Len(q2), NEW j \in 0 .. Len(q2), i <= j
        PROVE  s2[i] <= s2[j]
    <3> HIDE DEF q2
    <3>1. CASE j = Len(q) + 1
      BY <3>1, <2>3, <1>1, <1>2, <1>3
    <3>2. CASE j <= Len(q)
      BY <3>2, <2>3, <1>1, <1>3 DEF RunningTotals
    <3> QED BY <3>1, <3>2, <1>3
  <2> QED BY <2>1, <2>2, <2>3 DEF RunningTotals
<1> QED BY <1>4, <1>5 DEF Tally

\* A tally whose running total at k is v.
TallyAt(q, t, k, v) ==
    \E ss \in [0 .. Len(q) -> 0 .. t] : RunningTotals(q, t, ss) /\ ss[k] = v

\* Taking n from the i-th order takes n from the total, and the other orders
\* keep their running totals before i and lose n from i on.
LEMMA TallyReduce ==
    ASSUME NEW q \in Seq(Orders(OrderIds)), NEW t \in Nat,
           NEW ss \in [0 .. Len(q) -> 0 .. t], RunningTotals(q, t, ss),
           NEW i \in 1 .. Len(q), NEW n \in Nat, n <= q[i].rem,
           NEW q2 \in Seq(Orders(OrderIds)), Len(q2) = Len(q), q2[i].rem = q[i].rem - n,
           \A k \in 1 .. Len(q) : k # i => q2[k] = q[k]
    PROVE  t - n \in Nat /\ TallyAt(q2, t - n, i, ss[i] - n)
<1> DEFINE s2 == [k \in 0 .. Len(q) |-> IF k < i THEN ss[k] ELSE ss[k] - n]
<1>1. /\ Len(q) \in Nat /\ \A k \in 1 .. Len(q) : q[k].rem \in Nat
  <2>1. Len(q) \in Nat /\ q \in [1 .. Len(q) -> Orders(OrderIds)]
    BY LenProperties
  <2>2. \A k \in 1 .. Len(q) : q[k].rem \in Nat
    BY <2>1 DEF Orders
  <2> QED BY <2>1, <2>2
<1>2. /\ \A k \in 0 .. Len(q) : ss[k] \in 0 .. t
      /\ ss[0] = 0 /\ ss[Len(q)] = t
      /\ \A k \in 1 .. Len(q) : ss[k] = ss[k - 1] + q[k].rem
      /\ \A j, k \in 0 .. Len(q) : j <= k => ss[j] <= ss[k]
  BY DEF RunningTotals
<1>3. ss[i] = ss[i - 1] + q[i].rem /\ ss[i - 1] \in Nat /\ n <= ss[i] - ss[i - 1]
  BY <1>1, <1>2
<1>4. \A k \in 0 .. Len(q) : k >= i => ss[k] >= ss[i]
  BY <1>1, <1>2
<1>5. \A k \in 0 .. Len(q) : k < i => ss[k] <= ss[i - 1]
  BY <1>1, <1>2
<1>z. /\ t \in Int /\ n \in Int /\ ss[i] \in Int /\ ss[i - 1] \in Int
      /\ 0 <= n /\ 0 <= ss[i - 1] /\ ss[i - 1] <= ss[i] - n /\ ss[i] <= t
  <2>1. i \in 0 .. Len(q) /\ i - 1 \in 0 .. Len(q)
    BY <1>1
  <2>2. ss[i] \in 0 .. t /\ ss[i - 1] \in 0 .. t
    BY <2>1, <1>2
  <2> QED BY <2>2, <1>3
<1>6. t - n \in Nat /\ s2 \in [0 .. Len(q) -> 0 .. t - n]
  <2>2. ASSUME NEW k \in 0 .. Len(q) PROVE s2[k] \in 0 .. t - n
    <3>1. ss[k] \in 0 .. t
      BY <1>2
    <3>2. CASE k < i
      <4>1. ss[k] <= ss[i - 1]
        BY <3>2, <1>5
      <4>2. s2[k] = ss[k]
        BY <3>2
      <4>3. ss[k] \in Int /\ 0 <= ss[k]
        BY <3>1, <1>z
      <4> QED BY <4>1, <4>2, <4>3, <1>z
    <3>3. CASE ~(k < i)
      <4>1. ss[k] >= ss[i]
        BY <3>3, <1>1, <1>4
      <4>2. s2[k] = ss[k] - n
        BY <3>3
      <4>3. ss[k] \in Int /\ ss[k] <= t
        BY <3>1, <1>z
      <4> QED BY <4>1, <4>2, <4>3, <1>z
    <3> QED BY <3>2, <3>3
  <2>3. t - n \in Nat
    BY <1>z
  <2>4. s2 \in [0 .. Len(q) -> 0 .. t - n]
    BY <2>2
  <2> QED BY <2>3, <2>4
<1>s. \A k \in 0 .. Len(q) : s2[k] = IF k < i THEN ss[k] ELSE ss[k] - n
  OBVIOUS
<1> HIDE DEF s2
<1>7. RunningTotals(q2, t - n, s2)
  <2>1. s2[0] = 0 /\ s2[Len(q2)] = t - n
    <3>1. 0 \in 0 .. Len(q) /\ 0 < i /\ Len(q) \in 0 .. Len(q) /\ ~(Len(q) < i)
      BY <1>1
    <3>2. s2[0] = ss[0] /\ s2[Len(q)] = ss[Len(q)] - n
      BY <3>1, <1>s
    <3> QED BY <3>2, <1>1, <1>2
  <2>2. ASSUME NEW k \in 1 .. Len(q2) PROVE s2[k] = s2[k - 1] + q2[k].rem
    <3>0. /\ k \in 1 .. Len(q) /\ k \in 0 .. Len(q) /\ k - 1 \in 0 .. Len(q)
          /\ ss[k] \in Int /\ ss[k - 1] \in Int /\ q[k].rem \in Int
          /\ ss[k] = ss[k - 1] + q[k].rem
      BY <1>1, <1>2
    <3>1. CASE k < i
      <4>1. s2[k] = ss[k] /\ s2[k - 1] = ss[k - 1]
        <5>1. k \in 0 .. Len(q) /\ k - 1 \in 0 .. Len(q) /\ k - 1 < i
          BY <3>0, <3>1
        <5> QED BY <5>1, <3>1, <1>s
      <4>2. q2[k] = q[k]
        BY <3>0, <3>1
      <4> QED BY <3>0, <4>1, <4>2
    <3>2. CASE k = i
      <4>1. s2[k] = ss[k] - n /\ s2[k - 1] = ss[k - 1] /\ q2[k].rem = q[k].rem - n
        BY <3>0, <3>2, <1>1, <1>s
      <4> QED BY <3>0, <3>2, <4>1
    <3>3. CASE k > i
      <4>1. s2[k] = ss[k] - n /\ q2[k] = q[k]
        BY <3>0, <3>3, <1>1, <1>s
      <4>2. s2[k - 1] = ss[k - 1] - n
        <5>1. k - 1 \in 0 .. Len(q) /\ ~(k - 1 < i)
          BY <3>0, <3>3
        <5> QED BY <5>1, <1>s
      <4>3. ss[k] - n = (ss[k - 1] - n) + q[k].rem
        <5> DEFINE a == ss[k]  b == ss[k - 1]  c == q[k].rem
        <5>1. a \in Int /\ b \in Int /\ c \in Int /\ n \in Int /\ a = b + c
          BY <3>0, <1>z
        <5> HIDE DEF a, b, c
        <5>2. a - n = (b - n) + c
          BY <5>1
        <5> QED BY <5>2 DEF a, b, c
      <4> QED BY <4>1, <4>2, <4>3
    <3> QED BY <3>1, <3>2, <3>3, <1>1
  <2>3. ASSUME NEW j \in 0 .. Len(q2), NEW k \in 0 .. Len(q2), j <= k
        PROVE  s2[j] <= s2[k]
    <3>0. /\ j \in 0 .. Len(q) /\ k \in 0 .. Len(q)
          /\ ss[j] \in Int /\ ss[k] \in Int /\ ss[j] <= ss[k]
      BY <2>3, <1>1, <1>2
    <3>1. CASE j < i /\ k >= i
      <4>1. s2[j] = ss[j] /\ s2[k] = ss[k] - n
        BY <3>0, <3>1, <1>s
      <4>2. ss[j] <= ss[i - 1] /\ ss[k] >= ss[i] /\ ss[i] \in Int
        BY <3>0, <3>1, <1>2, <1>4, <1>5, <1>1
      <4> QED BY <3>0, <4>1, <4>2, <1>3
    <3>2. CASE j < i /\ k < i
      BY <3>0, <3>2, <1>s
    <3>3. CASE j >= i
      <4>1. s2[j] = ss[j] - n /\ s2[k] = ss[k] - n
        BY <3>0, <3>3, <2>3, <1>s
      <4> QED BY <3>0, <4>1
    <3> QED BY <3>0, <3>1, <3>2, <3>3
  <2> QED BY <2>1, <2>2, <2>3 DEF RunningTotals
<1>8. s2[i] = ss[i] - n /\ s2 \in [0 .. Len(q2) -> 0 .. t - n]
  <2>1. i \in 0 .. Len(q) /\ ~(i < i)
    BY <1>1
  <2> QED BY <2>1, <1>s, <1>6
<1> QED BY <1>6, <1>7, <1>8 DEF TallyAt

LEMMA TallyRemove ==
    ASSUME NEW q \in Seq(Orders(OrderIds)), NEW t \in Nat, Tally(q, t),
           NEW i \in 1 .. Len(q)
    PROVE  t - q[i].rem \in Nat /\ Tally(RemoveAt(q, i), t - q[i].rem)
<1> DEFINE q2 == RemoveAt(q, i)
           r == q[i].rem
           t2 == t - r
<1>1. PICK ss \in [0 .. Len(q) -> 0 .. t] : RunningTotals(q, t, ss)
  BY DEF Tally
<1> DEFINE s2 == [k \in 0 .. Len(q) - 1 |-> IF k < i THEN ss[k] ELSE ss[k + 1] - r]
<1>2. /\ Len(q) \in Nat /\ Len(q2) = Len(q) - 1
      /\ \A k \in 1 .. Len(q) - 1 : q2[k] = IF k < i THEN q[k] ELSE q[k + 1]
      /\ \A k \in 1 .. Len(q) : q[k].rem \in Nat
  <2>1. Len(q) \in Nat /\ q \in [1 .. Len(q) -> Orders(OrderIds)]
    BY LenProperties
  <2>2. \A k \in 1 .. Len(q) : q[k].rem \in Nat
    BY <2>1 DEF Orders
  <2> QED BY <2>1, <2>2, RemoveAtFacts
<1> HIDE DEF q2
<1>3. /\ \A k \in 0 .. Len(q) : ss[k] \in 0 .. t
      /\ ss[0] = 0 /\ ss[Len(q)] = t
      /\ \A k \in 1 .. Len(q) : ss[k] = ss[k - 1] + q[k].rem
      /\ \A j, k \in 0 .. Len(q) : j <= k => ss[j] <= ss[k]
  BY <1>1 DEF RunningTotals
<1>4. ss[i] = ss[i - 1] + r /\ ss[i - 1] \in Nat /\ r \in Nat
  BY <1>2, <1>3
<1>5. \A k \in 0 .. Len(q) : k >= i => ss[k] >= ss[i]
  BY <1>2, <1>3
<1>6. \A k \in 0 .. Len(q) : k < i => ss[k] <= ss[i - 1]
  BY <1>2, <1>3
<1>s. \A k \in 0 .. Len(q) - 1 : s2[k] = IF k < i THEN ss[k] ELSE ss[k + 1] - r
  OBVIOUS
<1>z. /\ t \in Int /\ r \in Int /\ ss[i] \in Int /\ ss[i - 1] \in Int
      /\ 0 <= r /\ 0 <= ss[i - 1] /\ ss[i - 1] = ss[i] - r /\ ss[i] <= t
  <2> HIDE DEF r
  <2>1. i \in 0 .. Len(q) /\ i - 1 \in 0 .. Len(q)
    BY <1>2
  <2>2. ss[i] \in 0 .. t /\ ss[i - 1] \in 0 .. t
    BY <2>1, <1>3
  <2> QED BY <2>2, <1>4
<1>7. t2 \in Nat /\ s2 \in [0 .. Len(q2) -> 0 .. t2]
  <2>2. ASSUME NEW k \in 0 .. Len(q) - 1 PROVE s2[k] \in 0 .. t2
    <3> HIDE DEF s2, r
    <3>0. /\ k \in 0 .. Len(q) /\ k + 1 \in 0 .. Len(q)
          /\ ss[k] \in 0 .. t /\ ss[k + 1] \in 0 .. t /\ ss[i] \in Int
      <4>1. k \in 0 .. Len(q) /\ k + 1 \in 0 .. Len(q) /\ i \in 0 .. Len(q)
        BY <1>2
      <4> QED BY <4>1, <1>3
    <3>1. CASE k < i
      <4>1. s2[k] = ss[k]
        BY <3>1, <1>s
      <4>2. ss[k] <= ss[i - 1]
        BY <3>0, <3>1, <1>6
      <4>3. ss[k] \in Int /\ 0 <= ss[k]
        BY <3>0, <1>z
      <4> QED BY <4>1, <4>2, <4>3, <1>z
    <3>2. CASE ~(k < i)
      <4>1. s2[k] = ss[k + 1] - r
        BY <3>2, <1>s
      <4>2. ss[k + 1] >= ss[i]
        <5>1. k + 1 >= i
          BY <3>0, <3>2, <1>2
        <5> QED BY <5>1, <3>0, <1>5
      <4>3. ss[k + 1] \in Int /\ ss[k + 1] <= t
        BY <3>0, <1>z
      <4> QED BY <4>1, <4>2, <4>3, <1>z
    <3> QED BY <3>1, <3>2
  <2>3. t2 \in Nat
    <3> HIDE DEF s2, r
    <3> QED BY <1>z
  <2>4. s2 \in [0 .. Len(q) - 1 -> 0 .. t2]
    BY <2>2
  <2> QED BY <2>3, <2>4, <1>2
<1>9. q[i].rem = r /\ t2 = t - r
  OBVIOUS
<1> HIDE DEF s2, r, t2
<1>8. RunningTotals(q2, t2, s2)
  <2>1. s2[0] = 0
    <3>1. 0 \in 0 .. Len(q) - 1 /\ 0 < i
      BY <1>2
    <3> QED BY <3>1, <1>3, <1>s
  <2>2. s2[Len(q2)] = t2
    <3>0. Len(q) - 1 \in 0 .. Len(q) - 1 /\ (Len(q) - 1) + 1 = Len(q)
      BY <1>2
    <3>1. CASE Len(q) - 1 < i
      <4>1. i = Len(q)
        BY <3>1, <1>2
      <4>2. s2[Len(q) - 1] = ss[i - 1]
        BY <3>0, <3>1, <4>1, <1>s
      <4>3. ss[i] = t
        BY <4>1, <1>3
      <4> QED BY <4>2, <4>3, <1>2, <1>9, <1>z
    <3>2. CASE ~(Len(q) - 1 < i)
      <4>1. s2[Len(q) - 1] = ss[Len(q)] - r
        BY <3>0, <3>2, <1>s
      <4> QED BY <4>1, <1>2, <1>3, <1>9
    <3> QED BY <3>1, <3>2, <1>2
  <2>3. ASSUME NEW k \in 1 .. Len(q2) PROVE s2[k] = s2[k - 1] + q2[k].rem
    <3>0. /\ k \in 1 .. Len(q) - 1 /\ k \in 1 .. Len(q) /\ k + 1 \in 1 .. Len(q)
          /\ k \in 0 .. Len(q) - 1 /\ k - 1 \in 0 .. Len(q) - 1
          /\ ss[k] \in Int /\ ss[k - 1] \in Int /\ ss[k + 1] \in Int
          /\ q[k].rem \in Int /\ q[k + 1].rem \in Int /\ (k + 1) - 1 = k /\ (k - 1) + 1 = k
      <4>1. /\ k \in 1 .. Len(q) - 1 /\ k \in 1 .. Len(q) /\ k + 1 \in 1 .. Len(q)
            /\ k \in 0 .. Len(q) - 1 /\ k - 1 \in 0 .. Len(q) - 1
            /\ (k + 1) - 1 = k /\ (k - 1) + 1 = k
        BY <1>2
      <4>2. {k, k - 1, k + 1} \subseteq 0 .. Len(q)
        BY <4>1, <1>2
      <4>3. ss[k] \in Int /\ ss[k - 1] \in Int /\ ss[k + 1] \in Int
        BY <4>2, <1>3
      <4>4. q[k].rem \in Int /\ q[k + 1].rem \in Int
        BY <4>1, <1>2
      <4> QED BY <4>1, <4>3, <4>4
    <3>4. ss[k] = ss[k - 1] + q[k].rem /\ ss[k + 1] = ss[k] + q[k + 1].rem
      BY <3>0, <1>3
    <3>1. CASE k < i
      <4>1. s2[k] = ss[k] /\ q2[k] = q[k]
        BY <3>0, <3>1, <1>2, <1>s
      <4>2. s2[k - 1] = ss[k - 1]
        <5>1. k - 1 < i
          BY <3>0, <3>1
        <5> QED BY <3>0, <5>1, <1>s
      <4> QED BY <3>4, <4>1, <4>2
    <3>2. CASE k = i
      <4>1. s2[k] = ss[k + 1] - r /\ q2[k] = q[k + 1]
        BY <3>0, <3>2, <1>2, <1>s
      <4>2. s2[k - 1] = ss[k - 1]
        <5>1. k - 1 < i
          BY <3>0, <3>2
        <5> QED BY <3>0, <5>1, <1>s
      <4>3. q[k].rem = r
        BY <3>2, <1>9
      <4>4. ss[k] = ss[k - 1] + r /\ ss[k + 1] = ss[k] + q[k + 1].rem
        BY <3>4, <4>3
      <4>5. /\ ss[k] \in Int /\ ss[k - 1] \in Int /\ ss[k + 1] \in Int
            /\ q[k + 1].rem \in Int /\ r \in Int
        BY <3>0, <1>z
      <4>6. ss[k + 1] - r = ss[k - 1] + q[k + 1].rem
        <5> DEFINE a == ss[k]  b == ss[k - 1]  c == ss[k + 1]  d == q[k + 1].rem
        <5>1. /\ a \in Int /\ b \in Int /\ c \in Int /\ d \in Int /\ r \in Int
              /\ a = b + r /\ c = a + d
          BY <4>4, <4>5
        <5> HIDE DEF a, b, c, d
        <5>2. c - r = b + d
          BY <5>1
        <5> QED BY <5>2 DEF a, b, c, d
      <4> QED BY <4>1, <4>2, <4>6
    <3>3. CASE k > i
      <4>1. s2[k] = ss[k + 1] - r /\ q2[k] = q[k + 1]
        <5>1. ~(k < i) /\ k \in 0 .. Len(q) - 1 /\ k \in 1 .. Len(q) - 1
          BY <3>0, <3>3
        <5>2. s2[k] = ss[k + 1] - r
          BY <5>1, <1>s
        <5>3. q2[k] = q[k + 1]
          BY <5>1, <1>2
        <5> QED BY <5>2, <5>3
      <4>2. s2[k - 1] = ss[k] - r
        BY <3>0, <3>3, <1>s
      <4>3. q2[k].rem = q[k + 1].rem
        BY <4>1
      <4>4. r \in Int
        BY <1>4
      <4>5. ss[k + 1] - r = (ss[k] - r) + q[k + 1].rem
        <5> DEFINE a == ss[k]  c == ss[k + 1]  d == q[k + 1].rem
        <5>1. a \in Int /\ c \in Int /\ d \in Int /\ r \in Int /\ c = a + d
          BY <3>0, <3>4, <4>4
        <5> HIDE DEF a, c, d
        <5>2. c - r = (a - r) + d
          BY <5>1
        <5> QED BY <5>2 DEF a, c, d
      <4> QED BY <4>1, <4>2, <4>3, <4>5
    <3> QED BY <3>1, <3>2, <3>3, <1>2
  <2>4. ASSUME NEW j \in 0 .. Len(q2), NEW k \in 0 .. Len(q2), j <= k
        PROVE  s2[j] <= s2[k]
    <3>0. /\ j \in 0 .. Len(q) - 1 /\ k \in 0 .. Len(q) - 1
          /\ {j, j + 1, k, k + 1} \subseteq 0 .. Len(q)
          /\ {ss[j], ss[j + 1], ss[k], ss[k + 1], ss[i]} \subseteq Int
          /\ ss[j] <= ss[k] /\ ss[j + 1] <= ss[k + 1]
      BY <2>4, <1>2, <1>3
    <3>1. CASE j < i /\ k >= i
      <4>1. s2[j] = ss[j] /\ s2[k] = ss[k + 1] - r
        BY <3>0, <3>1, <1>s
      <4>2. ss[j] <= ss[i - 1]
        BY <3>0, <3>1, <1>6
      <4>3. ss[k + 1] >= ss[i]
        <5>1. k + 1 >= i
          BY <3>0, <3>1, <1>2
        <5> QED BY <3>0, <5>1, <1>5
      <4>4. ss[j] \in Int /\ ss[k + 1] \in Int
        BY <3>0
      <4>5. ss[j] <= ss[k + 1] - r
        <5> DEFINE a == ss[j]  b == ss[k + 1]  c == ss[i]  d == ss[i - 1]
        <5>1. /\ a \in Int /\ b \in Int /\ c \in Int /\ d \in Int /\ r \in Int
              /\ a <= d /\ d = c - r /\ b >= c
          BY <4>2, <4>3, <4>4, <1>z
        <5> HIDE DEF a, b, c, d
        <5>2. a <= b - r
          BY <5>1
        <5> QED BY <5>2 DEF a, b
      <4> QED BY <4>1, <4>5
    <3>2. CASE j < i /\ k < i
      BY <3>0, <3>2, <1>s
    <3>3. CASE j >= i
      <4>1. s2[j] = ss[j + 1] - r /\ s2[k] = ss[k + 1] - r
        <5>1. ~(j < i) /\ ~(k < i)
          BY <3>0, <3>3, <2>4, <1>2
        <5> QED BY <3>0, <5>1, <1>s
      <4> QED BY <3>0, <4>1, <1>z
    <3> QED BY <3>0, <3>1, <3>2, <3>3
  <2> QED BY <2>1, <2>2, <2>3, <2>4 DEF RunningTotals
<1> QED BY <1>7, <1>8 DEF Tally, q2, s2, t2, r

-----------------------------------------------------------------------------
(* Type correctness.  Only total' needs more than types: that subtracting  *)
(* leaves it in Nat is what the running totals are for.                    *)

LEMMA IdentifiedType ==
    ASSUME TypeOK, NEW o \in Incoming, submitted < MaxOrders
    PROVE  Identified(o) \in Orders(OrderIds)
<1>1. o \in Orders(Nat)
  BY IncomingAssumption
<1>2. CASE o.id = 0
  <2>1. FirstId + issued \in OrderIds
    BY <1>2, IdsAssumption DEF TypeOK, OrderIds
  <2> QED BY <2>1, <1>1, <1>2 DEF Identified, Orders
<1>3. CASE o.id # 0
  <2>1. o.id \in OrderIds
    BY <1>3 DEF OrderIds
  <2> QED BY <2>1, <1>1, <1>3 DEF Identified, Orders
<1> QED BY <1>2, <1>3

LEMMA OppositeType == \A s \in Sides : Opposite(s) \in Sides /\ Opposite(s) # s
BY DEF Sides, Opposite

\* A level's orders and their remaining quantities.
LEMMA OrdersType ==
    ASSUME TypeOK, NEW s \in Sides, NEW p \in Prices
    PROVE  /\ orders[s][p] \in Seq(Orders(OrderIds))
           /\ Len(orders[s][p]) \in Nat
           /\ DOMAIN orders[s][p] = 1 .. Len(orders[s][p])
           /\ \A i \in DOMAIN orders[s][p] : orders[s][p][i] \in Orders(OrderIds)
           /\ total[s][p] \in Nat
<1>1. orders[s][p] \in Seq(Orders(OrderIds)) /\ total[s][p] \in Nat
  BY DEF TypeOK
<1> QED BY <1>1, LenProperties, ElementOfSeq

LEMMA ReducedType ==
    ASSUME NEW o \in Orders(OrderIds), NEW n \in Nat, n <= o.rem, NEW other \in Nat
    PROVE  /\ Reduced(o, n, other) \in Orders(OrderIds)
           /\ Reduced(o, n, other).rem = o.rem - n
           /\ Reduced(o, n, other).id = o.id
           /\ Reduced(o, n, other).price = o.price
           /\ Reduced(o, n, other).side = o.side
           /\ Reduced(o, n, other).type = o.type
           /\ Reduced(o, n, other).status = "FILLED" <=> o.rem - n <= other
<1> DEFINE st == IF o.rem - n <= other THEN "FILLED" ELSE "PARTIAL"
           r == o.rem - n
           m == [o EXCEPT !.rem = r, !.status = st]
<1>1. r \in Nat /\ st \in Statuses
  BY DEF Orders, Statuses
<1>2. st = "FILLED" <=> r <= other
  OBVIOUS
<1>3. Reduced(o, n, other) = m
  BY DEF Reduced
<1> HIDE DEF r, st
<1>4. /\ m \in Orders(OrderIds) /\ m.rem = r /\ m.status = st
      /\ m.id = o.id /\ m.price = o.price /\ m.side = o.side /\ m.type = o.type
  BY <1>1 DEF Orders
<1> QED BY <1>2, <1>3, <1>4 DEF r

\* What one match is about, with everything typed.
LEMMA MatchOrderFacts ==
    ASSUME IInv, MatchOrder
    PROVE  LET q == orders[CurSide][at]
               o == q[pos]
               n == MatchedQty(o, cur)
               m == Reduced(o, n, cur.rem - n)
           IN  /\ CurSide \in Sides /\ at \in levels[CurSide] /\ at \in Prices
               /\ q \in Seq(Orders(OrderIds)) /\ pos \in 1 .. Len(q)
               /\ o \in Orders(OrderIds) /\ cur \in Orders(OrderIds)
               /\ n \in Nat /\ n <= o.rem /\ n <= cur.rem
               /\ n = o.rem \/ n = cur.rem
               /\ m \in Orders(OrderIds) /\ m.rem = o.rem - n /\ m.id = o.id
               /\ m.status = "FILLED" => m.rem = 0
               /\ cur' \in Orders(OrderIds)
               /\ cur'.rem = cur.rem - n /\ cur'.side = cur.side
               /\ CurSide' = CurSide
<1> DEFINE q == orders[CurSide][at]
           o == q[pos]
           n == MatchedQty(o, cur)
           m == Reduced(o, n, cur.rem - n)
<1>1. cur \in Orders(OrderIds) /\ at \in Prices /\ pos \in Nat \ {0}
  BY DEF IInv, TypeOK, MatchOrder
<1>2. CurSide \in Sides
  BY <1>1, OppositeType DEF CurSide, Orders
<1>3. at \in levels[CurSide]
  BY DEF IInv, WalkLeavesNothing, MatchOrder
<1>4. q \in Seq(Orders(OrderIds)) /\ pos \in 1 .. Len(q) /\ o \in Orders(OrderIds)
  <2>1. /\ q \in Seq(Orders(OrderIds)) /\ Len(q) \in Nat /\ DOMAIN q = 1 .. Len(q)
        /\ \A i \in DOMAIN q : q[i] \in Orders(OrderIds)
    BY <1>1, <1>2, OrdersType DEF IInv
  <2>2. pos <= Len(q)
    BY DEF MatchOrder
  <2>3. pos \in 1 .. Len(q)
    <3> HIDE DEF q
    <3> QED BY <2>1, <2>2, <1>1
  <2> QED BY <2>1, <2>3
<1>5. o.rem \in Nat /\ cur.rem \in Nat
  BY <1>1, <1>4 DEF Orders
<1>6. n \in Nat /\ n <= o.rem /\ n <= cur.rem /\ (n = o.rem \/ n = cur.rem)
  BY <1>5 DEF MatchedQty
<1> HIDE DEF o, n
<1>7. /\ m \in Orders(OrderIds) /\ m.rem = o.rem - n /\ m.id = o.id
      /\ m.status = "FILLED" <=> o.rem - n <= cur.rem - n
  <2>1. cur.rem - n \in Nat
    BY <1>5, <1>6
  <2> QED BY <2>1, <1>4, <1>6, ReducedType
<1>8. m.status = "FILLED" => m.rem = 0
  BY <1>5, <1>6, <1>7
<1>9. cur' = Reduced(cur, n, o.rem - n)
  BY DEF MatchOrder, o, n
<1>10. cur' \in Orders(OrderIds) /\ cur'.rem = cur.rem - n /\ cur'.side = cur.side
  <2>1. o.rem - n \in Nat
    BY <1>5, <1>6
  <2> QED BY <2>1, <1>1, <1>6, <1>9, ReducedType
<1>11. CurSide' = CurSide
  BY <1>10 DEF CurSide
<1> QED BY <1>1, <1>2, <1>3, <1>4, <1>6, <1>7, <1>8, <1>10, <1>11 DEF o, n

LEMMA SubmitType ==
    ASSUME IInv, Submit
    PROVE  TypeOK'
<1> USE DEF IInv
<1>1. PICK o \in Incoming :
        /\ Accept(o)
        /\ \/ cur' = Identified(o) /\ pc' = "match"
                /\ todo' = levels[Opposite(Identified(o).side)]
           \/ cur' = Identified(o) /\ pc' \in {"rest", "done"} /\ UNCHANGED todo
           \/ cur' = [Identified(o) EXCEPT !.status = "REJECTED"] /\ pc' = "done"
                /\ UNCHANGED todo
  BY DEF Submit, LimitOrder, MarketOrder, FillAndKillOrder, StartMatch, Reject,
         AfterMatching
<1> DEFINE a == Identified(o)
<1>2. submitted < MaxOrders
  BY <1>1 DEF Accept
<1>3. a \in Orders(OrderIds)
  BY <1>2, IdentifiedType
<1> HIDE DEF a
<1>4. [a EXCEPT !.status = "REJECTED"] \in Orders(OrderIds)
  BY <1>3 DEF Orders, Statuses
<1>5. levels[Opposite(a.side)] \subseteq Prices
  <2>1. Opposite(a.side) \in Sides
    BY <1>3, OppositeType DEF Orders
  <2> QED BY <2>1 DEF TypeOK
<1>6. /\ submitted' \in 0 .. MaxOrders /\ issued' \in Nat /\ issued' <= submitted'
  BY <1>1, <1>2, IdsAssumption DEF Accept, TypeOK
<1>7. /\ cur' \in Orders(OrderIds) /\ todo' \subseteq Prices
      /\ pc' \in {"match", "rest", "done"}
  BY <1>1, <1>3, <1>4, <1>5 DEF a, TypeOK
<1>8. UNCHANGED <<book, at, pos, prev, marked, outbox, feeds>> /\ pc = "idle"
  BY <1>1 DEF Accept
<1> QED BY <1>6, <1>7, <1>8 DEF TypeOK, book, outbox, feeds

LEMMA CurSideType ==
    ASSUME TypeOK, pc # "idle"
    PROVE  cur \in Orders(OrderIds) /\ CurSide \in Sides /\ cur.side \in Sides
<1>1. cur \in Orders(OrderIds)
  BY DEF TypeOK
<1> QED BY <1>1, OppositeType DEF CurSide, Orders

LEMMA WalkType ==
    ASSUME IInv, MatchLevel \/ LevelDone \/ MatchDone
    PROVE  TypeOK'
<1>1. pc # "idle" /\ TypeOK
  BY DEF MatchLevel, LevelDone, MatchDone, IInv
<1>2. CurSide \in Sides
  BY <1>1, CurSideType
<1>3. CASE MatchLevel
  BY <1>1, <1>2, <1>3 DEF MatchLevel, TypeOK, book, input, outbox, feeds
<1>4. CASE LevelDone
  <2>1. at \in Prices /\ total[CurSide][at] \in Nat
    BY <1>1, <1>2, <1>4 DEF TypeOK, LevelDone
  <2>2. LevelUpdate \in Updates
    BY <2>1 DEF LevelUpdate, Updates
  <2>3. updates' \in Seq(Updates) /\ purge' \in Seq(Prices)
    BY <2>1, <2>2, <1>1, <1>4, AppendProperties DEF LevelDone, TypeOK
  <2> QED BY <2>3, <1>1, <1>4 DEF LevelDone, TypeOK, book, input, feeds
<1>5. CASE MatchDone
  <2>1. levels' \in [Sides -> SUBSET Prices]
    BY <1>1, <1>2, <1>5 DEF MatchDone, TypeOK
  <2> QED BY <2>1, <1>1, <1>5 DEF MatchDone, TypeOK, input, outbox, feeds
<1> QED BY <1>3, <1>4, <1>5

LEMMA MatchOrderType ==
    ASSUME IInv, MatchOrder
    PROVE  TypeOK'
<1> DEFINE q == orders[CurSide][at]
           o == q[pos]
           n == MatchedQty(o, cur)
           m == Reduced(o, n, cur.rem - n)
<1>1. /\ CurSide \in Sides /\ at \in levels[CurSide] /\ at \in Prices
      /\ q \in Seq(Orders(OrderIds)) /\ pos \in 1 .. Len(q)
      /\ o \in Orders(OrderIds) /\ cur \in Orders(OrderIds)
      /\ n \in Nat /\ n <= o.rem
      /\ m \in Orders(OrderIds) /\ m.rem = o.rem - n
      /\ cur' \in Orders(OrderIds)
  BY MatchOrderFacts
<1>2. /\ orders' = [orders EXCEPT ![CurSide][at] = [q EXCEPT ![pos] = m]]
      /\ total' = [total EXCEPT ![CurSide][at] = total[CurSide][at] - n]
      /\ marked' = IF m.status = "FILLED"
                   THEN [marked EXCEPT ![at] = Append(@, m.id)] ELSE marked
      /\ modified' = Append(modified, m)
      /\ trades' = Append(trades, [passive |-> m.id, aggressor |-> cur.id,
                                   price |-> m.price, qty |-> n])
      /\ pos' = pos + 1
      /\ UNCHANGED <<levels, idMap, input, pc, todo, at, prev, purge, updates, feeds>>
  BY DEF MatchOrder
<1>3. TypeOK /\ pc = "level"
  BY DEF IInv, MatchOrder
<1> HIDE DEF m, n
<1>4. [q EXCEPT ![pos] = m] \in Seq(Orders(OrderIds))
  BY <1>1, ExceptSeq
<1>5. total[CurSide][at] - n \in Nat
  <2>1. total[CurSide][at] \in Nat
    BY <1>1, <1>3, OrdersType
  <2>2. Tally(q, total[CurSide][at])
    BY <1>1 DEF IInv, LevelTotals
  <2>3. PICK ss \in [0 .. Len(q) -> 0 .. total[CurSide][at]] :
            RunningTotals(q, total[CurSide][at], ss)
    BY <2>2 DEF Tally
  <2> DEFINE q2 == [q EXCEPT ![pos] = m]
  <2>4. /\ q2 \in Seq(Orders(OrderIds)) /\ Len(q2) = Len(q)
        /\ q2[pos].rem = q[pos].rem - n
        /\ \A k \in 1 .. Len(q) : k # pos => q2[k] = q[k]
    BY <1>1, ExceptSeq
  <2> HIDE DEF q2
  <2> QED BY <2>1, <2>3, <2>4, <1>1, TallyReduce
<1>6. /\ orders' \in [Sides -> [Prices -> Seq(Orders(OrderIds))]]
      /\ total' \in [Sides -> [Prices -> Nat]]
  BY <1>1, <1>2, <1>3, <1>4, <1>5 DEF TypeOK
<1>7. /\ m.id \in OrderIds /\ cur.id \in OrderIds /\ m.price \in Prices
  BY <1>1 DEF Orders
<1>8. marked' \in [Prices -> Seq(OrderIds)]
  <2>1. Append(marked[at], m.id) \in Seq(OrderIds)
    BY <1>1, <1>3, <1>7, AppendProperties DEF TypeOK
  <2> QED BY <2>1, <1>1, <1>2, <1>3 DEF TypeOK
<1>9. modified' \in Seq(Orders(OrderIds)) /\ trades' \in Seq(Trades)
  <2>1. [passive |-> m.id, aggressor |-> cur.id, price |-> m.price, qty |-> n] \in Trades
    BY <1>1, <1>7 DEF Trades
  <2> QED BY <2>1, <1>1, <1>2, <1>3, AppendProperties DEF TypeOK
<1>10. /\ cur' \in Orders(OrderIds) /\ pos' \in Nat \ {0} /\ pc' = "level"
       /\ UNCHANGED <<levels, idMap, input, pc, todo, at, prev, purge, updates, feeds>>
  <2>1. pos \in Nat \ {0}
    BY <1>3 DEF TypeOK
  <2> QED BY <2>1, <1>1, <1>2, <1>3
<1> QED BY <1>3, <1>6, <1>8, <1>9, <1>10 DEF TypeOK, input, feeds

LEMMA PublishType ==
    ASSUME IInv,
           ReportModified \/ RemoveMarkedNode \/ PublishTrade
           \/ PublishLevelUpdate \/ MatchReturns
    PROVE  TypeOK'
<1>1. pc = "publish" /\ TypeOK
  BY DEF IInv, ReportModified, RemoveMarkedNode, PublishTrade, PublishLevelUpdate,
         MatchReturns
<1>2. cur \in Orders(OrderIds) /\ CurSide \in Sides
  BY <1>1, CurSideType
<1>3. CASE ReportModified
  <2>1. modified \in Seq(Orders(OrderIds)) /\ modified # <<>>
    BY <1>1, <1>3 DEF TypeOK, ReportModified
  <2>2. Head(modified) \in Orders(OrderIds) /\ modified' \in Seq(Orders(OrderIds))
    BY <2>1, <1>3, HeadTailProperties DEF ReportModified
  <2>3. Head(modified).id \in OrderIds /\ View(Head(modified)) \in Views
    BY <2>2 DEF Orders, View, Views
  <2>4. reported' \in [OrderIds -> Views \cup {None}]
    BY <2>3, <1>1, <1>3 DEF TypeOK, ReportModified
  <2> QED BY <2>2, <2>4, <1>1, <1>3 DEF ReportModified, TypeOK, book, input, walk
<1>4. CASE RemoveMarkedNode
  <2> DEFINE p == Head(purge)
  <2>1. purge \in Seq(Prices) /\ purge # <<>>
    BY <1>1, <1>4 DEF TypeOK, RemoveMarkedNode
  <2>2. p \in Prices /\ Tail(purge) \in Seq(Prices)
    BY <2>1, HeadTailProperties
  <2>3. purge' \in Seq(Prices)
    BY <2>1, <2>2, <1>4 DEF RemoveMarkedNode
  <2>4. marked' \in [Prices -> Seq(OrderIds)]
    <3>1. CASE marked[p] # <<>>
      <4>1. Tail(marked[p]) \in Seq(OrderIds)
        BY <3>1, <2>2, <1>1, HeadTailProperties DEF TypeOK
      <4>2. marked' = [marked EXCEPT ![p] = Tail(@)]
        BY <3>1, <1>4 DEF RemoveMarkedNode
      <4>3. marked \in [Prices -> Seq(OrderIds)]
        BY <1>1 DEF TypeOK
      <4> QED BY <4>1, <4>2, <4>3, <2>2
    <3>2. CASE marked[p] = <<>>
      <4>1. marked' = marked
        BY <3>2, <1>4 DEF RemoveMarkedNode
      <4> QED BY <4>1, <1>1 DEF TypeOK
    <3> QED BY <3>1, <3>2
  <2>5. orders' \in [Sides -> [Prices -> Seq(Orders(OrderIds))]]
    <3>1. CASE marked[p] # <<>>
      <4>1. PICK i \in DOMAIN orders[CurSide][p] :
                orders' = [orders EXCEPT ![CurSide][p] = RemoveAt(orders[CurSide][p], i)]
        BY <3>1, <1>4 DEF RemoveMarkedNode
      <4>2. RemoveAt(orders[CurSide][p], i) \in Seq(Orders(OrderIds))
        BY <4>1, <2>2, <1>1, <1>2, OrdersType, RemoveAtFacts
      <4> QED BY <4>1, <4>2, <2>2, <1>1, <1>2 DEF TypeOK
    <3>2. CASE marked[p] = <<>>
      BY <3>2, <1>1, <1>4 DEF RemoveMarkedNode, TypeOK
    <3> QED BY <3>1, <3>2
  <2>6. UNCHANGED <<levels, total, idMap, input, pc, cur, todo, at, pos, prev,
                    modified, trades, updates, feeds>>
    BY <1>4 DEF RemoveMarkedNode
  <2> QED BY <2>3, <2>4, <2>5, <2>6, <1>1 DEF TypeOK, input, feeds
<1>5. CASE PublishTrade
  <2> DEFINE t == Head(trades)
  <2>1. trades \in Seq(Trades) /\ trades # <<>>
    BY <1>1, <1>5 DEF TypeOK, PublishTrade, TradesDue
  <2>2. t \in Trades /\ trades' \in Seq(Trades)
    BY <2>1, <1>5, HeadTailProperties DEF PublishTrade
  <2>3. t.qty \in Nat
    BY <2>2 DEF Trades
  <2>4. executed' \in [OrderIds -> Nat]
    BY <2>3, <1>1, <1>5 DEF TypeOK, PublishTrade
  <2> QED BY <2>2, <2>4, <1>1, <1>5 DEF PublishTrade, TypeOK, book, input, walk
<1>6. CASE PublishLevelUpdate
  <2> DEFINE u == Head(updates)
  <2>1. updates \in Seq(Updates) /\ updates # <<>>
    BY <1>1, <1>6 DEF TypeOK, PublishLevelUpdate
  <2>2. u \in Updates /\ updates' \in Seq(Updates)
    BY <2>1, <1>6, HeadTailProperties DEF PublishLevelUpdate, UpdatesLeft
  <2>3. u.price \in Prices /\ u.total \in Nat
    BY <2>2 DEF Updates
  <2>4. mirror' \in [Sides -> [Prices -> Nat]]
    BY <2>3, <1>1, <1>2, <1>6 DEF TypeOK, PublishLevelUpdate
  <2> QED BY <2>2, <2>4, <1>1, <1>6 DEF PublishLevelUpdate, TypeOK, book, input, walk
<1>7. CASE MatchReturns
  <2>1. pc' \in {"rest", "done"} /\ marked' \in [Prices -> Seq(OrderIds)]
    BY <1>7 DEF MatchReturns, AfterMatching
  <2> QED BY <2>1, <1>1, <1>7 DEF MatchReturns, TypeOK, book, input, outbox, feeds
<1> QED BY <1>3, <1>4, <1>5, <1>6, <1>7

\* LevelOrders and LevelTotal are a level's orders and total, also when the
\* level has yet to be created.
LEMMA LevelType ==
    ASSUME IInv, NEW s \in Sides, NEW p \in Prices
    PROVE  /\ LevelOrders(s, p) \in Seq(Orders(OrderIds))
           /\ LevelTotal(s, p) \in Nat
           /\ Tally(LevelOrders(s, p), LevelTotal(s, p))
<1>1. CASE p \in levels[s]
  BY <1>1, OrdersType DEF LevelOrders, LevelTotal, IInv, LevelTotals
<1>2. CASE p \notin levels[s]
  <2>1. LevelOrders(s, p) = <<>> /\ LevelTotal(s, p) = 0
    BY <1>2 DEF LevelOrders, LevelTotal
  <2> QED BY <2>1, TallyEmpty
<1> QED BY <1>1, <1>2

\* What RestOrder does to the level the order rests in.
LEMMA RestFacts ==
    ASSUME IInv, RestOrder
    PROVE  LET s == cur.side
               p == cur.price
           IN  /\ cur \in Orders(OrderIds) /\ s \in Sides /\ p \in Prices
               /\ levels' = [levels EXCEPT ![s] = @ \cup {p}]
               /\ \E q \in Seq(Orders(OrderIds)), t \in Nat :
                    /\ orders' = [orders EXCEPT ![s][p] = q]
                    /\ total' = [total EXCEPT ![s][p] = t]
                    /\ mirror' = [mirror EXCEPT ![s][p] = t]
                    /\ Tally(q, t)
                    /\ \/ q = LevelOrders(s, p) /\ t = LevelTotal(s, p)
                       \/ /\ q = Append(LevelOrders(s, p), cur)
                          /\ t = LevelTotal(s, p) + cur.rem
                          /\ \A i \in DOMAIN LevelOrders(s, p) :
                                LevelOrders(s, p)[i].id # cur.id
<1> DEFINE s == cur.side
           p == cur.price
           old == LevelOrders(s, p)
           known == \E i \in DOMAIN old : old[i].id = cur.id
           q == IF known THEN old ELSE Append(old, cur)
           t == LevelTotal(s, p) + (IF known THEN 0 ELSE cur.rem)
<1>1. cur \in Orders(OrderIds)
  BY DEF RestOrder, IInv, TypeOK
<1>2. s \in Sides /\ p \in Prices /\ cur.rem \in Nat
  BY <1>1 DEF Orders
<1>3. old \in Seq(Orders(OrderIds)) /\ LevelTotal(s, p) \in Nat /\ Tally(old, LevelTotal(s, p))
  BY <1>2, LevelType
<1>4. /\ levels' = [levels EXCEPT ![s] = @ \cup {p}]
      /\ orders' = [orders EXCEPT ![s][p] = q]
      /\ total' = [total EXCEPT ![s][p] = t]
      /\ mirror' = [mirror EXCEPT ![s][p] = t]
  BY DEF RestOrder
<1> HIDE DEF old
<1>5. CASE known
  <2>1. q = old /\ t = LevelTotal(s, p)
    BY <1>5, <1>3
  <2> QED BY <2>1, <1>1, <1>2, <1>3, <1>4 DEF old
<1>6. CASE ~known
  <2>1. q = Append(old, cur) /\ t = LevelTotal(s, p) + cur.rem
    BY <1>6
  <2>2. q \in Seq(Orders(OrderIds)) /\ t \in Nat /\ Tally(q, t)
    BY <2>1, <1>1, <1>2, <1>3, AppendProperties, TallyAppend
  <2> QED BY <2>1, <2>2, <1>1, <1>2, <1>4, <1>6 DEF old
<1> QED BY <1>5, <1>6

\* What remove_order does to the level the id's entry names.
LEMMA CancelFacts ==
    ASSUME IInv, NEW id \in OrderIds, CancelResting(id) \/ CancelStale(id)
    PROVE  \E s \in Sides, p \in Prices, q \in Seq(Orders(OrderIds)), t \in Nat :
             /\ orders' = [orders EXCEPT ![s][p] = q]
             /\ CloseCancel(id, s, p, t)
             /\ Tally(q, t)
             /\ \/ q = LevelOrders(s, p) /\ t = LevelTotal(s, p)
                \/ /\ p \in levels[s]
                   /\ t <= total[s][p]
                   /\ \E i \in 1 .. Len(orders[s][p]) :
                         q = RemoveAt(orders[s][p], i) /\ orders[s][p][i].id = id
<1> DEFINE s == idMap[id].side
           p == idMap[id].price
<1>1. idMap[id] \in Entries
  BY DEF IInv, TypeOK, CancelResting, CancelStale
<1>2. s \in Sides /\ p \in Prices
  BY <1>1 DEF Entries
<1> HIDE DEF s, p
<1>3. CASE CancelResting(id)
  <2>1. PICK i \in DOMAIN LevelOrders(s, p) :
            /\ orders[s][p][i].id = id
            /\ orders' = [orders EXCEPT ![s][p] = RemoveAt(orders[s][p], i)]
            /\ CloseCancel(id, s, p, LevelTotal(s, p) - orders[s][p][i].rem)
    BY <1>3 DEF CancelResting, LeftAfterCancel, s, p
  <2>2. p \in levels[s]
    <3>1. DOMAIN LevelOrders(s, p) # {}
      BY <2>1
    <3>2. DOMAIN <<>> = {}
      OBVIOUS
    <3> QED BY <3>1, <3>2 DEF LevelOrders
  <2>3. LevelOrders(s, p) = orders[s][p] /\ LevelTotal(s, p) = total[s][p]
    BY <2>2 DEF LevelOrders, LevelTotal
  <2> DEFINE q == RemoveAt(orders[s][p], i)
             t == total[s][p] - orders[s][p][i].rem
  <2>4. /\ orders[s][p] \in Seq(Orders(OrderIds)) /\ total[s][p] \in Nat
        /\ i \in 1 .. Len(orders[s][p]) /\ orders[s][p][i] \in Orders(OrderIds)
    BY <1>2, <2>1, <2>3, OrdersType DEF IInv
  <2>5. q \in Seq(Orders(OrderIds))
    BY <2>4, RemoveAtFacts
  <2>6. t \in Nat /\ Tally(q, t)
    BY <2>2, <2>4, <1>2, TallyRemove DEF IInv, LevelTotals
  <2>7. orders[s][p][i].rem \in Nat
    BY <2>4 DEF Orders
  <2>8. t <= total[s][p]
    BY <2>4, <2>7
  <2>9. orders' = [orders EXCEPT ![s][p] = q] /\ CloseCancel(id, s, p, t)
    BY <2>1, <2>3
  <2> HIDE DEF q, t
  <2>10. q = RemoveAt(orders[s][p], i) /\ orders[s][p][i].id = id
    BY <2>1 DEF q
  <2> QED BY <1>2, <2>2, <2>4, <2>5, <2>6, <2>8, <2>9, <2>10
<1>4. CASE CancelStale(id)
  <2>1. /\ orders' = [orders EXCEPT ![s][p] = LevelOrders(s, p)]
        /\ CloseCancel(id, s, p, LevelTotal(s, p))
    BY <1>4 DEF CancelStale, s, p
  <2> QED BY <2>1, <1>2, LevelType
<1> QED BY <1>3, <1>4

LEMMA RestReturnCancelType ==
    ASSUME IInv, RestOrder \/ Return \/ Cancel
    PROVE  TypeOK'
<1>1. TypeOK
  BY DEF IInv
<1>2. CASE RestOrder
  <2>1. PICK q \in Seq(Orders(OrderIds)), t \in Nat :
          /\ orders' = [orders EXCEPT ![cur.side][cur.price] = q]
          /\ total' = [total EXCEPT ![cur.side][cur.price] = t]
          /\ mirror' = [mirror EXCEPT ![cur.side][cur.price] = t]
          /\ levels' = [levels EXCEPT ![cur.side] = @ \cup {cur.price}]
          /\ cur \in Orders(OrderIds) /\ cur.side \in Sides /\ cur.price \in Prices
    BY <1>2, RestFacts
  <2>2. cur.id \in OrderIds
    BY <2>1 DEF Orders
  <2>3. Entry(cur) \in Entries \cup {None}
    BY <1>1, <2>1, <2>2 DEF Entry, Entries, TypeOK
  <2>4. idMap' \in [OrderIds -> Entries \cup {None}]
    BY <1>1, <1>2, <2>3 DEF RestOrder, TypeOK
  <2>5. /\ orders' \in [Sides -> [Prices -> Seq(Orders(OrderIds))]]
        /\ total' \in [Sides -> [Prices -> Nat]]
        /\ mirror' \in [Sides -> [Prices -> Nat]]
        /\ levels' \in [Sides -> SUBSET Prices]
    BY <1>1, <2>1 DEF TypeOK
  <2>6. /\ pc = "rest" /\ pc' = "done"
        /\ UNCHANGED <<input, cur, walk, outbox, reported, executed>>
    BY <1>2 DEF RestOrder
  <2> QED BY <1>1, <2>1, <2>4, <2>5, <2>6 DEF TypeOK, input, walk, outbox
<1>3. CASE Return
  <2>1. cur \in Orders(OrderIds) /\ pc = "done"
    BY <1>1, <1>3 DEF Return, TypeOK
  <2>2. cur.id \in OrderIds /\ View(cur) \in Views
    BY <2>1 DEF Orders, View, Views
  <2>3. reported' \in [OrderIds -> Views \cup {None}]
    BY <1>1, <1>3, <2>2 DEF Return, TypeOK
  <2> QED BY <1>1, <1>3, <2>1, <2>3 DEF Return, TypeOK, book, input, walk, outbox
<1>4. CASE \E id \in OrderIds : CancelResting(id) \/ CancelStale(id)
  <2>1. PICK id \in OrderIds : CancelResting(id) \/ CancelStale(id)
    BY <1>4
  <2>2. PICK s \in Sides, p \in Prices, q \in Seq(Orders(OrderIds)), t \in Nat :
          /\ orders' = [orders EXCEPT ![s][p] = q]
          /\ CloseCancel(id, s, p, t)
    BY <2>1, CancelFacts
  <2>3. /\ orders' \in [Sides -> [Prices -> Seq(Orders(OrderIds))]]
        /\ total' \in [Sides -> [Prices -> Nat]]
        /\ mirror' \in [Sides -> [Prices -> Nat]]
        /\ levels' \in [Sides -> SUBSET Prices]
    BY <1>1, <2>2 DEF TypeOK, CloseCancel
  <2>4. idMap' \in [OrderIds -> Entries \cup {None}]
    BY <1>1, <2>2 DEF TypeOK, CloseCancel
  <2>5. UNCHANGED <<input, pc, cur, walk, outbox, reported, executed>>
    BY <2>2 DEF CloseCancel
  <2> QED BY <1>1, <2>3, <2>4, <2>5 DEF TypeOK, input, walk, outbox
<1>5. CASE \E id \in OrderIds : CancelUnknown(id)
  BY <1>1, <1>5 DEF CancelUnknown, TypeOK, vars, book, input, walk, outbox, feeds
<1> QED BY <1>2, <1>3, <1>4, <1>5 DEF Cancel

LEMMA TypeStep ==
    ASSUME IInv, [Next]_vars
    PROVE  TypeOK'
<1>1. CASE UNCHANGED vars
  BY <1>1 DEF IInv, TypeOK, vars, book, input, walk, outbox, feeds
<1>2. CASE Next
  BY <1>2, SubmitType, WalkType, MatchOrderType, PublishType, RestReturnCancelType
     DEF Next, Engine
<1> QED BY <1>1, <1>2

-----------------------------------------------------------------------------
(* The levels: totals, unique ids, and prices that do not cross.           *)

\* Writing one level whose orders and total agree keeps all levels so.
LEMMA TotalsAfterWrite ==
    ASSUME IInv, NEW s \in Sides, NEW p \in Prices, NEW q, NEW t,
           orders' = [orders EXCEPT ![s][p] = q],
           total' = [total EXCEPT ![s][p] = t],
           Tally(q, t),
           levels' \in [Sides -> SUBSET Prices],
           \A x \in Sides : levels'[x] \subseteq levels[x] \cup (IF x = s THEN {p} ELSE {})
    PROVE  LevelTotals'
<1> SUFFICES ASSUME NEW x \in Sides, NEW r \in levels'[x]
             PROVE  Tally(orders'[x][r], total'[x][r])
  BY DEF LevelTotals, Tally, RunningTotals
<1>1. r \in Prices
  OBVIOUS
<1>2. CASE x = s /\ r = p
  <2>1. orders'[x][r] = q /\ total'[x][r] = t
    BY <1>2 DEF IInv, TypeOK
  <2> QED BY <2>1
<1>3. CASE ~(x = s /\ r = p)
  <2>1. orders'[x][r] = orders[x][r] /\ total'[x][r] = total[x][r]
    BY <1>1, <1>3 DEF IInv, TypeOK
  <2>2. r \in levels[x]
    BY <1>3
  <2> QED BY <2>1, <2>2 DEF IInv, LevelTotals
<1> QED BY <1>2, <1>3

\* Levels that keep their orders and their total keep it right.
LEMMA TotalsKept ==
    ASSUME LevelTotals,
           \A s \in Sides : \A r \in levels'[s] :
               orders'[s][r] = orders[s][r] /\ total'[s][r] = total[s][r] /\ r \in levels[s]
    PROVE  LevelTotals'
<1> SUFFICES ASSUME NEW x \in Sides, NEW r \in levels'[x]
             PROVE  Tally(orders'[x][r], total'[x][r])
  BY DEF LevelTotals, Tally, RunningTotals
<1>1. orders'[x][r] = orders[x][r] /\ total'[x][r] = total[x][r] /\ r \in levels[x]
  OBVIOUS
<1> QED BY <1>1 DEF LevelTotals

\* Writing one level without an id twice keeps ids unique in every level.
LEMMA UniqueAfterWrite ==
    ASSUME IInv, NEW s \in Sides, NEW p \in Prices, NEW q,
           orders' = [orders EXCEPT ![s][p] = q],
           \A i, j \in DOMAIN q : q[i].id = q[j].id => i = j,
           levels' \in [Sides -> SUBSET Prices],
           \A x \in Sides : levels'[x] \subseteq levels[x] \cup (IF x = s THEN {p} ELSE {})
    PROVE  UniqueIds'
<1> SUFFICES ASSUME NEW x \in Sides, NEW r \in levels'[x]
             PROVE  \A i, j \in DOMAIN orders'[x][r] :
                        orders'[x][r][i].id = orders'[x][r][j].id => i = j
  BY DEF UniqueIds
<1>1. r \in Prices
  OBVIOUS
<1>2. CASE x = s /\ r = p
  <2>1. orders'[x][r] = q
    BY <1>2 DEF IInv, TypeOK
  <2> QED BY <2>1
<1>3. CASE ~(x = s /\ r = p)
  <2>1. orders'[x][r] = orders[x][r] /\ r \in levels[x]
    BY <1>1, <1>3 DEF IInv, TypeOK
  <2> QED BY <2>1 DEF IInv, UniqueIds
<1> QED BY <1>2, <1>3

\* Writing one level does not cross the book if the level gains no quantity,
\* or if nothing with quantity on the other side meets its price.
LEMMA NotCrossedAfterWrite ==
    ASSUME IInv, NEW s \in Sides, NEW p \in Prices, NEW t \in Nat,
           total' = [total EXCEPT ![s][p] = t],
           levels' \in [Sides -> SUBSET Prices],
           \A x \in Sides : levels'[x] \subseteq levels[x] \cup (IF x = s THEN {p} ELSE {}),
           \/ t <= LevelTotal(s, p)
           \/ \A r \in levels[Opposite(s)] :
                 total[Opposite(s)][r] > 0 => ~AtLeastAsGood(s, p, r)
    PROVE  NotCrossed'
<1> SUFFICES ASSUME NEW b \in levels'["BUY"], NEW a \in levels'["SELL"],
                    total'["BUY"][b] > 0, total'["SELL"][a] > 0
             PROVE  b < a
  BY DEF NotCrossed
<1>1. "BUY" \in Sides /\ "SELL" \in Sides /\ a \in Prices /\ b \in Prices
  BY DEF Sides
<1>2. a \in Int /\ b \in Int /\ p \in Int
  BY <1>1, PricesAssumption
<1>3. \A x \in Sides, r \in Prices :
        total'[x][r] = IF x = s /\ r = p THEN t ELSE total[x][r]
  BY DEF IInv, TypeOK
<1>4. LevelTotal(s, p) > 0 => p \in levels[s] /\ LevelTotal(s, p) = total[s][p]
  BY DEF LevelTotal
<1>5. LevelTotal(s, p) \in Nat /\ \A x \in Sides, r \in Prices : total[x][r] \in Nat
  <2>1. LevelTotal(s, p) \in Nat
    BY LevelType
  <2>2. TypeOK
    BY DEF IInv
  <2>3. total \in [Sides -> [Prices -> Nat]]
    BY <2>2 DEF TypeOK
  <2> QED BY <2>1, <2>3
<1>6. CASE t <= LevelTotal(s, p)
  <2>1. b \in levels["BUY"] /\ total["BUY"][b] > 0
    BY <1>1, <1>3, <1>4, <1>5, <1>6
  <2>2. a \in levels["SELL"] /\ total["SELL"][a] > 0
    BY <1>1, <1>3, <1>4, <1>5, <1>6
  <2> QED BY <2>1, <2>2 DEF IInv, NotCrossed
<1>7. CASE \A r \in levels[Opposite(s)] :
              total[Opposite(s)][r] > 0 => ~AtLeastAsGood(s, p, r)
  <2>1. CASE s = "BUY"
    <3>1. a \in levels["SELL"] /\ total["SELL"][a] > 0
      BY <2>1, <1>1, <1>3
    <3>2. CASE b = p
      BY <3>1, <3>2, <2>1, <1>2, <1>7 DEF AtLeastAsGood, Opposite
    <3>3. CASE b # p
      BY <3>1, <3>3, <2>1, <1>1, <1>3 DEF IInv, NotCrossed
    <3> QED BY <3>2, <3>3
  <2>2. CASE s = "SELL"
    <3>1. b \in levels["BUY"] /\ total["BUY"][b] > 0
      BY <2>2, <1>1, <1>3
    <3>2. CASE a = p
      BY <3>1, <3>2, <2>2, <1>2, <1>7 DEF AtLeastAsGood, Opposite
    <3>3. CASE a # p
      BY <3>1, <3>3, <2>2, <1>1, <1>3 DEF IInv, NotCrossed
    <3> QED BY <3>2, <3>3
  <2> QED BY <2>1, <2>2 DEF Sides
<1> QED BY <1>6, <1>7

LevelsOK == LevelTotals /\ UniqueIds /\ NotCrossed

\* Erasing levels, and steps that write no level, keep all three.
LEMMA LevelsAfterErase ==
    ASSUME IInv, UNCHANGED <<orders, total>>,
           \A x \in Sides : levels'[x] \subseteq levels[x]
    PROVE  LevelsOK'
<1>1. LevelTotals'
  BY TotalsKept DEF IInv
<1>2. UniqueIds'
  BY DEF IInv, UniqueIds
<1>3. NotCrossed'
  BY DEF IInv, NotCrossed, Sides
<1> QED BY <1>1, <1>2, <1>3 DEF LevelsOK

LEMMA LevelsMatchOrder ==
    ASSUME IInv, MatchOrder
    PROVE  LevelsOK' /\ ScanLeavesNothing'
<1> DEFINE q == orders[CurSide][at]
           t == total[CurSide][at]
           o == q[pos]
           n == MatchedQty(o, cur)
           m == Reduced(o, n, cur.rem - n)
           q2 == [q EXCEPT ![pos] = m]
<1>1. /\ CurSide \in Sides /\ at \in levels[CurSide] /\ at \in Prices
      /\ q \in Seq(Orders(OrderIds)) /\ pos \in 1 .. Len(q)
      /\ o \in Orders(OrderIds) /\ cur \in Orders(OrderIds)
      /\ n \in Nat /\ n <= o.rem /\ (n = o.rem \/ n = cur.rem)
      /\ m \in Orders(OrderIds) /\ m.rem = o.rem - n /\ m.id = o.id
      /\ cur'.rem = cur.rem - n /\ CurSide' = CurSide
  BY MatchOrderFacts
<1>2. /\ orders' = [orders EXCEPT ![CurSide][at] = q2]
      /\ total' = [total EXCEPT ![CurSide][at] = t - n]
      /\ levels' = levels /\ at' = at /\ pos' = pos + 1 /\ cur.rem > 0
  BY DEF MatchOrder
<1>3. levels' \in [Sides -> SUBSET Prices] /\ t \in Nat
  BY <1>1, <1>2, OrdersType DEF IInv, TypeOK
<1> HIDE DEF m, n
<1>4. PICK ss \in [0 .. Len(q) -> 0 .. t] :
          RunningTotals(q, t, ss) /\ (cur.rem > 0 => ss[pos - 1] = 0)
  BY DEF IInv, ScanLeavesNothing, MatchOrder
<1>5. t - n \in Nat /\ TallyAt(q2, t - n, pos, ss[pos] - n)
  <2> HIDE DEF o
  <2>1. n <= q[pos].rem /\ m.rem = q[pos].rem - n
    BY <1>1 DEF o
  <2>2. /\ q \in Seq(Orders(OrderIds)) /\ t \in Nat /\ RunningTotals(q, t, ss)
        /\ pos \in 1 .. Len(q) /\ n \in Nat
    BY <1>1, <1>3, <1>4
  <2>3. /\ q2 \in Seq(Orders(OrderIds)) /\ Len(q2) = Len(q) /\ q2[pos] = m
        /\ \A k \in 1 .. Len(q) : k # pos => q2[k] = q[k]
    BY <1>1, ExceptSeq DEF q2
  <2>4. q2[pos].rem = q[pos].rem - n
    BY <2>1, <2>3
  <2> HIDE DEF q, t, q2
  <2> QED BY <2>1, <2>2, <2>3, <2>4, TallyReduce
<1> HIDE DEF q2
<1>s. PICK s2 \in [0 .. Len(q2) -> 0 .. t - n] :
            RunningTotals(q2, t - n, s2) /\ s2[pos] = ss[pos] - n
  BY <1>5 DEF TallyAt
<1>6. Len(q2) = Len(q) /\ DOMAIN q2 = 1 .. Len(q) /\ DOMAIN q = 1 .. Len(q) /\ Len(q) \in Nat
      /\ \A i \in 1 .. Len(q) : q2[i] = IF i = pos THEN m ELSE q[i]
  <2>1. q2 \in Seq(Orders(OrderIds)) /\ Len(q2) = Len(q)
    BY <1>1, ExceptSeq DEF q2
  <2> QED BY <2>1, <1>1, LenProperties, ExceptSeq DEF q2
<1>7. Tally(q2, t - n)
  BY <1>s, <1>6 DEF Tally
<1>8. LevelTotals'
  BY <1>1, <1>2, <1>3, <1>7, TotalsAfterWrite
<1>9. UniqueIds'
  <2>1. \A i, j \in DOMAIN q2 : q2[i].id = q2[j].id => i = j
    <3>1. \A i, j \in DOMAIN q : q[i].id = q[j].id => i = j
      BY <1>1 DEF IInv, UniqueIds
    <3>2. \A i \in DOMAIN q2 : q2[i].id = q[i].id
      BY <1>1, <1>6
    <3> QED BY <3>1, <3>2, <1>6
  <2> QED BY <2>1, <1>1, <1>2, <1>3, UniqueAfterWrite
<1>10. NotCrossed'
  <2>1. LevelTotal(CurSide, at) = t
    BY <1>1 DEF LevelTotal
  <2>2. t - n <= t
    BY <1>1, <1>3
  <2> QED BY <2>1, <2>2, <1>1, <1>2, <1>3, <1>5, NotCrossedAfterWrite
<1>11. orders'[CurSide][at] = q2 /\ total'[CurSide][at] = t - n
  BY <1>1, <1>2 DEF IInv, TypeOK
<1>12. pos' <= Len(q2) + 1
  BY <1>1, <1>2, <1>6
<1>13. cur'.rem > 0 => s2[pos' - 1] = 0
  <2> SUFFICES ASSUME cur'.rem > 0 PROVE s2[pos' - 1] = 0
    OBVIOUS
  <2>1. cur.rem \in Nat /\ o.rem \in Nat
    BY <1>1 DEF Orders
  <2>2. n = o.rem /\ ss[pos - 1] = 0
    BY <2>1, <1>1, <1>2, <1>4
  <2>3. ss[pos] = ss[pos - 1] + o.rem
    BY <1>1, <1>4 DEF RunningTotals
  <2>4. s2[pos] = ss[pos] - n
    BY <1>1, <1>6, <1>s
  <2>5. pos' - 1 = pos
    BY <1>1, <1>2
  <2> HIDE DEF o
  <2>6. s2[pos] = o.rem - o.rem
    BY <2>1, <2>2, <2>3, <2>4
  <2> QED BY <2>1, <2>5, <2>6
<1>14. ScanLeavesNothing'
  <2>1. \E zz \in [0 .. Len(q2) -> 0 .. t - n] :
          RunningTotals(q2, t - n, zz) /\ (cur'.rem > 0 => zz[pos' - 1] = 0)
    BY <1>s, <1>6, <1>13
  <2> QED BY <2>1, <1>1, <1>2, <1>11, <1>12 DEF ScanLeavesNothing, RunningTotals
<1> QED BY <1>8, <1>9, <1>10, <1>14 DEF LevelsOK

\* Unlinking a marked node takes nothing off its level: it was filled.
LEMMA LevelsRemoveMarked ==
    ASSUME IInv, RemoveMarkedNode
    PROVE  LevelsOK' /\ MarksAreFilled'
<1> DEFINE p == Head(purge)
<1>1. /\ pc = "publish" /\ TypeOK /\ purge # <<>>
      /\ UNCHANGED <<levels, total, pc, cur>>
  BY DEF IInv, RemoveMarkedNode
<1>2. CurSide \in Sides /\ p \in Prices /\ CurSide' = CurSide
  <2>1. purge \in Seq(Prices)
    BY <1>1 DEF TypeOK
  <2> QED BY <2>1, <1>1, CurSideType, HeadTailProperties DEF CurSide
<1>3. CASE marked[p] = <<>>
  <2>1. UNCHANGED <<orders, marked>>
    BY <1>3 DEF RemoveMarkedNode
  <2>2. LevelsOK'
    BY <2>1, <1>1, LevelsAfterErase
  <2> QED BY <2>1, <2>2, <1>1, <1>2 DEF IInv, MarksAreFilled
<1>4. CASE marked[p] # <<>>
  <2> DEFINE q == orders[CurSide][p]
  <2>1. PICK i \in DOMAIN q :
          /\ q[i].id = Head(marked[p])
          /\ orders' = [orders EXCEPT ![CurSide][p] = RemoveAt(q, i)]
          /\ marked' = [marked EXCEPT ![p] = Tail(@)]
    BY <1>4 DEF RemoveMarkedNode
  <2> DEFINE q2 == RemoveAt(q, i)
  <2>2. q \in Seq(Orders(OrderIds)) /\ i \in 1 .. Len(q) /\ Len(q) \in Nat
        /\ DOMAIN q = 1 .. Len(q)
    BY <1>1, <1>2, <2>1, OrdersType
  <2>3. /\ q2 \in Seq(Orders(OrderIds)) /\ DOMAIN q2 = 1 .. Len(q) - 1
        /\ \A j \in 1 .. Len(q) - 1 : q2[j] = IF j < i THEN q[j] ELSE q[j + 1]
    <3>1. /\ q2 \in Seq(Orders(OrderIds)) /\ Len(q2) = Len(q) - 1
          /\ \A j \in 1 .. Len(q) - 1 : q2[j] = IF j < i THEN q[j] ELSE q[j + 1]
      <4> HIDE DEF q
      <4> QED BY <2>2, RemoveAtFacts
    <3> HIDE DEF q2
    <3>2. DOMAIN q2 = 1 .. Len(q2)
      BY <3>1, LenProperties
    <3> QED BY <3>1, <3>2
  <2>4. \A j \in DOMAIN q2 : \E k \in DOMAIN q : q2[j] = q[k] /\ k = IF j < i THEN j ELSE j + 1
    <3> HIDE DEF q, q2
    <3> TAKE j \in DOMAIN q2
    <3>1. j \in 1 .. Len(q) - 1 /\ j \in DOMAIN q /\ j + 1 \in DOMAIN q
      BY <2>2, <2>3
    <3>2. CASE j < i
      <4>1. q2[j] = q[j]
        BY <3>1, <3>2, <2>3
      <4> QED BY <4>1, <3>1, <3>2
    <3>3. CASE ~(j < i)
      <4>1. q2[j] = q[j + 1]
        BY <3>1, <3>3, <2>3
      <4> QED BY <4>1, <3>1, <3>3
    <3> QED BY <3>2, <3>3
  <2>5. /\ marked[p] \in Seq(OrderIds) /\ Len(marked[p]) \in Nat
        /\ 1 \in DOMAIN marked[p] /\ Head(marked[p]) = marked[p][1]
        /\ \A k \in DOMAIN Tail(marked[p]) :
              k + 1 \in DOMAIN marked[p] /\ Tail(marked[p])[k] = marked[p][k + 1]
    <3>1. marked[p] \in Seq(OrderIds)
      BY <1>1, <1>2 DEF TypeOK
    <3> QED BY <3>1, <1>4, HeadTailProperties, LenProperties, EmptySeq
  <2> HIDE DEF q2
  <2>6. levels' \in [Sides -> SUBSET Prices]
    BY <1>1 DEF TypeOK
  <2>7. orders' = [orders EXCEPT ![CurSide][p] = q2]
    BY <2>1 DEF q2
  <2>8. p \in levels[CurSide] => q[i].rem = 0
    <3>1. marked[p][1] = q[i].id
      BY <2>1, <2>5
    <3> QED BY <3>1, <2>1, <2>5, <1>1 DEF IInv, MarksAreFilled
  <2>9. p \in levels[CurSide] => Tally(q2, total[CurSide][p])
    <3> SUFFICES ASSUME p \in levels[CurSide] PROVE Tally(q2, total[CurSide][p])
      OBVIOUS
    <3>1. Tally(q, total[CurSide][p]) /\ total[CurSide][p] \in Nat
      BY <1>1, <1>2 DEF IInv, LevelTotals, TypeOK
    <3>2. Tally(q2, total[CurSide][p] - q[i].rem)
      BY <2>2, <3>1, TallyRemove DEF q2
    <3>3. total[CurSide][p] - q[i].rem = total[CurSide][p]
      BY <2>8, <3>1
    <3> QED BY <3>2, <3>3
  <2>10. LevelTotals'
    <3>1. CASE p \in levels[CurSide]
      <4>1. total' = [total EXCEPT ![CurSide][p] = total[CurSide][p]]
        BY <1>1 DEF TypeOK
      <4> QED BY <3>1, <4>1, <1>1, <1>2, <2>6, <2>7, <2>9, TotalsAfterWrite
    <3>2. CASE p \notin levels[CurSide]
      <4>1. \A s \in Sides : \A r \in levels'[s] :
                orders'[s][r] = orders[s][r] /\ total'[s][r] = total[s][r] /\ r \in levels[s]
        BY <3>2, <1>1, <1>2, <2>7 DEF TypeOK
      <4> QED BY <4>1, <1>1, TotalsKept DEF IInv
    <3> QED BY <3>1, <3>2
  <2>11. UniqueIds'
    <3>1. CASE p \in levels[CurSide]
      <4>1. \A j, k \in DOMAIN q : q[j].id = q[k].id => j = k
        BY <3>1, <1>2 DEF IInv, UniqueIds
      <4>2. ASSUME NEW j \in DOMAIN q2, NEW k \in DOMAIN q2, q2[j].id = q2[k].id
            PROVE  j = k
        <5>1. PICK x \in DOMAIN q : q2[j] = q[x] /\ x = IF j < i THEN j ELSE j + 1
          BY <2>4
        <5>2. PICK y \in DOMAIN q : q2[k] = q[y] /\ y = IF k < i THEN k ELSE k + 1
          BY <2>4
        <5>3. x = y
          BY <4>1, <4>2, <5>1, <5>2
        <5>4. j \in Nat /\ k \in Nat /\ i \in Nat
          BY <2>2, <2>3
        <5> QED BY <5>1, <5>2, <5>3, <5>4
      <4> QED BY <4>2, <1>1, <1>2, <2>6, <2>7, UniqueAfterWrite
    <3>2. CASE p \notin levels[CurSide]
      <4>1. \A s \in Sides : \A r \in levels'[s] :
                orders'[s][r] = orders[s][r] /\ r \in levels[s]
        BY <3>2, <1>1, <1>2, <2>7 DEF TypeOK
      <4> QED BY <4>1 DEF IInv, UniqueIds
    <3> QED BY <3>1, <3>2
  <2>12. NotCrossed'
    BY <1>1 DEF IInv, NotCrossed
  <2>13. MarksAreFilled'
    <3> SUFFICES ASSUME NEW r \in levels[CurSide],
                        NEW j \in DOMAIN orders'[CurSide][r],
                        NEW k \in DOMAIN marked'[r],
                        orders'[CurSide][r][j].id = marked'[r][k]
                 PROVE  orders'[CurSide][r][j].rem = 0
      BY <1>1, <1>2 DEF MarksAreFilled
    <3>1. r \in Prices
      BY <1>1, <1>2 DEF TypeOK
    <3>2. CASE r # p
      <4>1. orders'[CurSide][r] = orders[CurSide][r] /\ marked'[r] = marked[r]
        BY <3>1, <3>2, <1>1, <1>2, <2>1 DEF TypeOK
      <4>2. \A x \in DOMAIN orders[CurSide][r], y \in DOMAIN marked[r] :
              orders[CurSide][r][x].id = marked[r][y] => orders[CurSide][r][x].rem = 0
        BY <1>1 DEF IInv, MarksAreFilled
      <4> QED BY <4>1, <4>2
    <3>3. CASE r = p
      <4>1. orders'[CurSide][r] = q2 /\ marked'[r] = Tail(marked[p])
        <5>1. orders \in [Sides -> [Prices -> Seq(Orders(OrderIds))]]
          BY <1>1 DEF TypeOK
        <5>2. marked \in [Prices -> Seq(OrderIds)]
          BY <1>1 DEF TypeOK
        <5>3. orders'[CurSide][p] = q2
          BY <5>1, <1>2, <2>7
        <5>4. marked'[p] = Tail(marked[p])
          BY <5>2, <1>2, <2>1
        <5> QED BY <3>3, <5>3, <5>4
      <4>2. PICK x \in DOMAIN q : q2[j] = q[x]
        BY <4>1, <2>4
      <4>3. k + 1 \in DOMAIN marked[p] /\ marked[p][k + 1] = q[x].id
        BY <4>1, <4>2, <2>5
      <4>4. \A y \in DOMAIN q, z \in DOMAIN marked[p] : q[y].id = marked[p][z] => q[y].rem = 0
        <5>1. p \in levels[CurSide]
          BY <3>3
        <5> QED BY <5>1, <1>1 DEF IInv, MarksAreFilled
      <4> QED BY <4>1, <4>2, <4>3, <4>4
    <3> QED BY <3>2, <3>3
  <2> QED BY <2>10, <2>11, <2>12, <2>13 DEF LevelsOK
<1> QED BY <1>3, <1>4

LEMMA LevelsRest ==
    ASSUME IInv, RestOrder
    PROVE  LevelsOK'
<1> DEFINE s == cur.side
           p == cur.price
           old == LevelOrders(s, p)
<1>1. PICK q \in Seq(Orders(OrderIds)), t \in Nat :
        /\ orders' = [orders EXCEPT ![s][p] = q]
        /\ total' = [total EXCEPT ![s][p] = t]
        /\ Tally(q, t)
        /\ \/ q = old /\ t = LevelTotal(s, p)
           \/ /\ q = Append(old, cur)
              /\ t = LevelTotal(s, p) + cur.rem
              /\ \A i \in DOMAIN old : old[i].id # cur.id
        /\ levels' = [levels EXCEPT ![s] = @ \cup {p}]
        /\ cur \in Orders(OrderIds) /\ s \in Sides /\ p \in Prices
  BY RestFacts
<1>2. /\ levels' \in [Sides -> SUBSET Prices]
      /\ \A x \in Sides : levels'[x] \subseteq levels[x] \cup (IF x = s THEN {p} ELSE {})
  BY <1>1 DEF IInv, TypeOK
<1>3. /\ old \in Seq(Orders(OrderIds)) /\ Len(old) \in Nat /\ DOMAIN old = 1 .. Len(old)
      /\ LevelTotal(s, p) \in Nat
  BY <1>1, LevelType, LenProperties
<1>4. \A i, j \in DOMAIN old : old[i].id = old[j].id => i = j
  <2>1. CASE p \in levels[s]
    BY <2>1, <1>1 DEF IInv, UniqueIds, LevelOrders
  <2>2. CASE p \notin levels[s]
    BY <2>2, EmptySeq DEF LevelOrders
  <2> QED BY <2>1, <2>2
<1> HIDE DEF old
<1>5. \A i, j \in DOMAIN q : q[i].id = q[j].id => i = j
  <2>1. CASE q = old
    BY <2>1, <1>4
  <2>2. CASE q = Append(old, cur) /\ \A i \in DOMAIN old : old[i].id # cur.id
    <3>1. /\ Len(q) = Len(old) + 1 /\ DOMAIN q = 1 .. Len(old) + 1
          /\ \A i \in 1 .. Len(old) : q[i] = old[i]
          /\ q[Len(old) + 1] = cur
      <4>1. q \in Seq(Orders(OrderIds)) /\ DOMAIN q = 1 .. Len(q)
        BY <1>1, LenProperties
      <4>2. old \in Seq(Orders(OrderIds)) /\ cur \in Orders(OrderIds)
        BY <1>1, <1>3
      <4>3. /\ Len(Append(old, cur)) = Len(old) + 1
            /\ \A i \in 1 .. Len(old) : Append(old, cur)[i] = old[i]
            /\ Append(old, cur)[Len(old) + 1] = cur
        BY <4>2, AppendProperties
      <4> QED BY <4>1, <4>3, <2>2
    <3> QED BY <3>1, <2>2, <1>3, <1>4
  <2> QED BY <2>1, <2>2, <1>1
<1>6. LevelTotals'
  BY <1>1, <1>2, TotalsAfterWrite
<1>7. UniqueIds'
  BY <1>1, <1>2, <1>5, UniqueAfterWrite
<1>8. NotCrossed'
  <2>1. cur.rem \in Nat
    BY <1>1 DEF Orders
  <2>2. \/ t <= LevelTotal(s, p)
        \/ \A r \in levels[Opposite(s)] :
              total[Opposite(s)][r] > 0 => ~AtLeastAsGood(s, p, r)
    <3>1. CASE cur.rem = 0
      BY <3>1, <1>1, <1>3
    <3>2. CASE cur.rem > 0
      BY <3>2 DEF IInv, RestDoesNotCross, RestOrder, CurSide
    <3> QED BY <3>1, <3>2, <2>1
  <2> QED BY <2>2, <1>1, <1>2, NotCrossedAfterWrite
<1> QED BY <1>6, <1>7, <1>8 DEF LevelsOK

LEMMA LevelsCancel ==
    ASSUME IInv, NEW id \in OrderIds, CancelResting(id) \/ CancelStale(id)
    PROVE  LevelsOK'
<1>1. PICK s \in Sides, p \in Prices, q \in Seq(Orders(OrderIds)), t \in Nat :
        /\ orders' = [orders EXCEPT ![s][p] = q]
        /\ CloseCancel(id, s, p, t)
        /\ Tally(q, t)
        /\ \/ q = LevelOrders(s, p) /\ t = LevelTotal(s, p)
           \/ /\ p \in levels[s]
              /\ t <= total[s][p]
              /\ \E i \in 1 .. Len(orders[s][p]) : q = RemoveAt(orders[s][p], i)
  BY CancelFacts
<1>2. /\ total' = [total EXCEPT ![s][p] = t]
      /\ levels' \in [Sides -> SUBSET Prices]
      /\ \A x \in Sides : levels'[x] \subseteq levels[x] \cup (IF x = s THEN {p} ELSE {})
  BY <1>1 DEF CloseCancel, IInv, TypeOK
<1>3. t <= LevelTotal(s, p)
  BY <1>1 DEF LevelTotal
<1>4. \A i, j \in DOMAIN q : q[i].id = q[j].id => i = j
  <2>1. CASE q = LevelOrders(s, p)
    <3>1. CASE p \in levels[s]
      BY <2>1, <3>1 DEF IInv, UniqueIds, LevelOrders
    <3>2. CASE p \notin levels[s]
      BY <2>1, <3>2, EmptySeq DEF LevelOrders
    <3> QED BY <3>1, <3>2
  <2>2. CASE p \in levels[s] /\ \E i \in 1 .. Len(orders[s][p]) : q = RemoveAt(orders[s][p], i)
    <3> DEFINE old == orders[s][p]
    <3>1. PICK i \in 1 .. Len(old) : q = RemoveAt(old, i)
      BY <2>2
    <3>2. /\ old \in Seq(Orders(OrderIds)) /\ Len(old) \in Nat
          /\ \A j, k \in 1 .. Len(old) : old[j].id = old[k].id => j = k
      BY <2>2, OrdersType DEF IInv, UniqueIds
    <3> HIDE DEF old
    <3>3. /\ q \in Seq(Orders(OrderIds)) /\ Len(q) = Len(old) - 1
          /\ \A j \in 1 .. Len(old) - 1 : q[j] = IF j < i THEN old[j] ELSE old[j + 1]
      BY <3>1, <3>2, RemoveAtFacts
    <3>4. DOMAIN q = 1 .. Len(old) - 1
      BY <3>3, LenProperties
    <3>5. \A j \in DOMAIN q : \E x \in 1 .. Len(old) :
              q[j] = old[x] /\ x = IF j < i THEN j ELSE j + 1
      BY <3>2, <3>3, <3>4
    <3>6. ASSUME NEW j \in DOMAIN q, NEW k \in DOMAIN q, q[j].id = q[k].id
          PROVE  j = k
      <4>1. PICK x \in 1 .. Len(old) : q[j] = old[x] /\ x = IF j < i THEN j ELSE j + 1
        BY <3>5
      <4>2. PICK y \in 1 .. Len(old) : q[k] = old[y] /\ y = IF k < i THEN k ELSE k + 1
        BY <3>5
      <4>3. x = y
        BY <3>2, <3>6, <4>1, <4>2
      <4>4. j \in Nat /\ k \in Nat /\ i \in Nat
        BY <3>2, <3>4
      <4> QED BY <4>1, <4>2, <4>3, <4>4
    <3> QED BY <3>6
  <2> QED BY <2>1, <2>2, <1>1
<1>5. LevelTotals'
  BY <1>1, <1>2, TotalsAfterWrite
<1>6. UniqueIds'
  BY <1>1, <1>2, <1>4, UniqueAfterWrite
<1>7. NotCrossed'
  BY <1>2, <1>3, NotCrossedAfterWrite
<1> QED BY <1>5, <1>6, <1>7 DEF LevelsOK

LEMMA LevelsStep ==
    ASSUME IInv, [Next]_vars
    PROVE  LevelsOK'
<1>1. TypeOK /\ (pc # "idle" => CurSide \in Sides)
  BY CurSideType DEF IInv
<1>2. CASE \/ Submit \/ MatchLevel \/ LevelDone \/ ReportModified \/ PublishTrade
           \/ PublishLevelUpdate \/ MatchReturns \/ Return
           \/ (\E id \in OrderIds : CancelUnknown(id)) \/ UNCHANGED vars
  <2>1. UNCHANGED book
    BY <1>2 DEF Submit, LimitOrder, MarketOrder, FillAndKillOrder, Accept, MatchLevel,
       LevelDone, ReportModified, PublishTrade, PublishLevelUpdate, MatchReturns, Return,
       CancelUnknown, vars, book
  <2> QED BY <2>1, LevelsAfterErase DEF book
<1>3. CASE MatchDone
  <2>1. /\ UNCHANGED <<orders, total>>
        /\ \A x \in Sides : levels'[x] \subseteq levels[x]
    BY <1>1, <1>3 DEF MatchDone, TypeOK
  <2> QED BY <2>1, LevelsAfterErase
<1> QED BY <1>2, <1>3, LevelsMatchOrder, LevelsRemoveMarked, LevelsRest, LevelsCancel
        DEF Next, Engine, Cancel

-----------------------------------------------------------------------------
(* What the walk of a match knows.                                         *)

LEMMA MarksMatchOrder ==
    ASSUME IInv, MatchOrder
    PROVE  MarksAreFilled'
<1> DEFINE q == orders[CurSide][at]
           o == q[pos]
           n == MatchedQty(o, cur)
           m == Reduced(o, n, cur.rem - n)
           q2 == [q EXCEPT ![pos] = m]
<1>1. /\ CurSide \in Sides /\ at \in levels[CurSide] /\ at \in Prices
      /\ q \in Seq(Orders(OrderIds)) /\ pos \in 1 .. Len(q)
      /\ o \in Orders(OrderIds) /\ n \in Nat /\ n <= o.rem
      /\ m \in Orders(OrderIds) /\ m.rem = o.rem - n /\ m.id = o.id
      /\ m.status = "FILLED" => m.rem = 0
      /\ CurSide' = CurSide
  BY MatchOrderFacts
<1>2. /\ orders' = [orders EXCEPT ![CurSide][at] = q2]
      /\ marked' = IF m.status = "FILLED"
                   THEN [marked EXCEPT ![at] = Append(marked[at], m.id)] ELSE marked
      /\ levels' = levels /\ pc = "level" /\ pc' = "level"
  BY DEF MatchOrder
<1>3. TypeOK
  BY DEF IInv
<1>4. /\ \A i, j \in DOMAIN q : q[i].id = q[j].id => i = j
      /\ \A i \in DOMAIN q, k \in DOMAIN marked[at] : q[i].id = marked[at][k] => q[i].rem = 0
  BY <1>1, <1>2 DEF IInv, UniqueIds, MarksAreFilled
<1> HIDE DEF m, n
<1>5. /\ DOMAIN q2 = DOMAIN q /\ pos \in DOMAIN q
      /\ \A i \in DOMAIN q : q2[i] = IF i = pos THEN m ELSE q[i]
  BY <1>1, ExceptSeq, LenProperties
<1>6. marked[at] \in Seq(OrderIds) /\ m.id \in OrderIds /\ o.rem \in Nat
  BY <1>1, <1>3 DEF TypeOK, Orders
<1> HIDE DEF q2
<1>7. orders'[CurSide][at] = q2
  BY <1>1, <1>2, <1>3 DEF TypeOK
<1>8. \A i \in DOMAIN q2, k \in DOMAIN marked[at] : q2[i].id = marked[at][k] => q2[i].rem = 0
  <2> SUFFICES ASSUME NEW i \in DOMAIN q2, NEW k \in DOMAIN marked[at],
                      q2[i].id = marked[at][k]
               PROVE  q2[i].rem = 0
    OBVIOUS
  <2>1. CASE i = pos
    <3>1. q2[i] = m /\ q[pos].id = marked[at][k]
      BY <2>1, <1>1, <1>5
    <3>2. q[pos].rem = 0
      BY <3>1, <1>4, <1>5
    <3> QED BY <3>1, <3>2, <1>1, <1>6
  <2>2. CASE i # pos
    BY <2>2, <1>4, <1>5
  <2> QED BY <2>1, <2>2
<1>9. m.rem = 0 => \A i \in DOMAIN q2 : q2[i].id = m.id => q2[i].rem = 0
  BY <1>1, <1>4, <1>5
<1>10. \A i \in DOMAIN q2, k \in DOMAIN marked'[at] :
          q2[i].id = marked'[at][k] => q2[i].rem = 0
  <2>1. CASE m.status = "FILLED"
    <3>1. marked'[at] = Append(marked[at], m.id)
      BY <2>1, <1>1, <1>2, <1>3 DEF TypeOK
    <3> DEFINE a == Append(marked[at], m.id)
    <3>2. /\ a \in Seq(OrderIds) /\ Len(a) = Len(marked[at]) + 1 /\ Len(marked[at]) \in Nat
          /\ \A k \in 1 .. Len(marked[at]) : a[k] = marked[at][k]
          /\ a[Len(marked[at]) + 1] = m.id
      BY <1>6, AppendProperties, LenProperties
    <3> HIDE DEF a
    <3>3. DOMAIN a = 1 .. Len(marked[at]) + 1 /\ DOMAIN marked[at] = 1 .. Len(marked[at])
      BY <3>2, <1>6, LenProperties
    <3>4. \A k \in DOMAIN a : (k \in DOMAIN marked[at] /\ a[k] = marked[at][k]) \/ a[k] = m.id
      BY <3>2, <3>3
    <3> QED BY <3>1, <3>4, <2>1, <1>1, <1>8, <1>9 DEF a
  <2>2. CASE m.status # "FILLED"
    BY <2>2, <1>2, <1>8
  <2> QED BY <2>1, <2>2
<1>11. ASSUME NEW r \in levels[CurSide], r # at
       PROVE  orders'[CurSide][r] = orders[CurSide][r] /\ marked'[r] = marked[r]
  BY <1>1, <1>2, <1>3, <1>11 DEF TypeOK
<1>12. \A r \in levels[CurSide] : \A i \in DOMAIN orders'[CurSide][r], k \in DOMAIN marked'[r] :
          orders'[CurSide][r][i].id = marked'[r][k] => orders'[CurSide][r][i].rem = 0
  <2> SUFFICES ASSUME NEW r \in levels[CurSide]
               PROVE  \A i \in DOMAIN orders'[CurSide][r], k \in DOMAIN marked'[r] :
                        orders'[CurSide][r][i].id = marked'[r][k] => orders'[CurSide][r][i].rem = 0
    OBVIOUS
  <2>1. CASE r = at
    BY <2>1, <1>7, <1>10
  <2>2. CASE r # at
    BY <2>2, <1>2, <1>11 DEF IInv, MarksAreFilled
  <2> QED BY <2>1, <2>2
<1> QED BY <1>1, <1>2, <1>12 DEF MarksAreFilled

LEMMA MarksStep ==
    ASSUME IInv, [Next]_vars
    PROVE  MarksAreFilled'
<1>1. TypeOK
  BY DEF IInv
<1>2. CASE Submit
  <2>1. pc = "idle" /\ UNCHANGED marked
    BY <1>2 DEF Submit, LimitOrder, MarketOrder, FillAndKillOrder, Accept
  <2>2. \A p \in Prices : marked'[p] = <<>>
    BY <2>1 DEF IInv, MarksAreFilled
  <2>3. TypeOK'
    BY <1>2, SubmitType
  <2>4. pc' # "idle"
    BY <1>2 DEF Submit, LimitOrder, MarketOrder, FillAndKillOrder, StartMatch, Reject,
       AfterMatching
  <2>5. \A p \in levels'[CurSide'] : p \in Prices
    <3>1. cur' \in Orders(OrderIds)
      BY <2>3, <2>4 DEF TypeOK
    <3>2. CurSide' \in Sides
      BY <3>1, OppositeType DEF CurSide, Orders
    <3> QED BY <3>2, <2>3 DEF TypeOK
  <2>6. DOMAIN <<>> = {}
    OBVIOUS
  <2> QED BY <2>2, <2>5, <2>6 DEF MarksAreFilled
<1>3. CASE MatchLevel \/ LevelDone \/ MatchDone \/ ReportModified \/ PublishTrade
           \/ PublishLevelUpdate
  <2>1. /\ UNCHANGED <<orders, marked, cur>>
        /\ pc \notin {"idle", "rest", "done"} /\ pc' \notin {"idle", "rest", "done"}
    BY <1>3 DEF MatchLevel, LevelDone, MatchDone, ReportModified, PublishTrade,
       PublishLevelUpdate, book, walk
  <2>2. CurSide' = CurSide /\ CurSide \in Sides
    BY <2>1, <1>1, CurSideType DEF CurSide
  <2>3. levels'[CurSide] \subseteq levels[CurSide]
    BY <1>1, <1>3, <2>2 DEF MatchLevel, LevelDone, MatchDone, ReportModified, PublishTrade,
       PublishLevelUpdate, book, TypeOK
  <2> QED BY <2>1, <2>2, <2>3 DEF IInv, MarksAreFilled
<1>4. CASE MatchReturns
  <2>1. pc' \in {"rest", "done"} /\ \A p \in Prices : marked'[p] = <<>>
    BY <1>4 DEF MatchReturns, AfterMatching
  <2> QED BY <2>1 DEF MarksAreFilled
<1>5. CASE RestOrder \/ Return \/ Cancel
  <2>1. /\ UNCHANGED marked /\ pc \in {"idle", "rest", "done"} /\ pc' \in {"idle", "rest", "done"}
    BY <1>5 DEF RestOrder, Return, Cancel, CancelResting, CancelStale, CancelUnknown,
       CloseCancel, walk, vars
  <2>2. \A p \in Prices : marked[p] = <<>>
    BY <2>1 DEF IInv, MarksAreFilled
  <2> QED BY <2>1, <2>2 DEF MarksAreFilled
<1>6. CASE UNCHANGED vars
  BY <1>6 DEF IInv, MarksAreFilled, vars, book, walk, CurSide
<1> QED BY <1>2, <1>3, <1>4, <1>5, <1>6, MarksMatchOrder, LevelsRemoveMarked
        DEF Next, Engine

LEMMA WalkStep ==
    ASSUME IInv, [Next]_vars
    PROVE  WalkLeavesNothing'
<1>1. TypeOK /\ WalkLeavesNothing /\ (pc # "idle" => CurSide \in Sides)
  BY CurSideType DEF IInv
<1>2. CASE Submit
  <2>1. at = None /\ UNCHANGED <<levels, at>>
    <3>1. pc = "idle"
      BY <1>2 DEF Submit, LimitOrder, MarketOrder, FillAndKillOrder, Accept
    <3> QED BY <3>1, <1>1, <1>2 DEF Submit, LimitOrder, MarketOrder, FillAndKillOrder,
               Accept, book, TypeOK
  <2>2. pc' \in {"match", "level"} => pc' = "match" /\ todo' = levels'[CurSide']
    BY <1>2, <2>1 DEF Submit, LimitOrder, MarketOrder, FillAndKillOrder, StartMatch, Reject,
       AfterMatching, CurSide
  <2> QED BY <2>2 DEF WalkLeavesNothing
<1>3. CASE MatchLevel
  <2>1. PICK p \in todo : at' = p /\ todo' = todo \ {p}
    BY <1>3 DEF MatchLevel
  <2>2. at = None /\ UNCHANGED <<levels, cur, updates>> /\ pc = "match"
    BY <1>1, <1>3 DEF MatchLevel, book, outbox, TypeOK
  <2>3. CurSide' = CurSide
    BY <2>2 DEF CurSide
  <2>4. todo \subseteq levels[CurSide]
    BY <1>1, <2>2 DEF WalkLeavesNothing
  <2>5. None \notin levels[CurSide]
    BY <1>1, <2>2, NoneAssumption DEF TypeOK
  <2>6. levels[CurSide] \ (todo' \cup {at'}) = levels[CurSide] \ (todo \cup {at})
    BY <2>1, <2>2, <2>4, <2>5
  <2> QED BY <2>1, <2>2, <2>3, <2>4, <2>6, <1>1 DEF WalkLeavesNothing
<1>4. CASE MatchOrder
  <2>1. /\ UNCHANGED <<levels, todo, at, updates, pc>> /\ pc = "level"
    BY <1>4 DEF MatchOrder
  <2>2. CurSide' = CurSide /\ (cur'.rem > 0 => cur.rem > 0)
    <3> DEFINE n == MatchedQty(orders[CurSide][at][pos], cur)
    <3>1. /\ cur \in Orders(OrderIds) /\ n \in Nat
          /\ cur'.rem = cur.rem - n /\ CurSide' = CurSide
      BY <1>4, MatchOrderFacts
    <3>2. cur.rem \in Nat
      BY <3>1 DEF Orders
    <3> HIDE DEF n
    <3> QED BY <3>1, <3>2
  <2> QED BY <2>1, <2>2, <1>1 DEF WalkLeavesNothing
<1>5. CASE LevelDone
  <2> DEFINE q == orders[CurSide][at]
             t == total[CurSide][at]
  <2>1. /\ UNCHANGED <<levels, todo, cur>> /\ pc = "level" /\ pc' = "match" /\ at' = None
        /\ updates' = Append(updates, [price |-> at, total |-> t])
        /\ pos > Len(q) \/ cur.rem = 0
    BY <1>5 DEF LevelDone, LevelUpdate, book
  <2>2. CurSide' = CurSide /\ CurSide \in Sides /\ at \in Prices /\ cur \in Orders(OrderIds)
    BY <2>1, <1>1 DEF CurSide, TypeOK
  <2>3. q \in Seq(Orders(OrderIds)) /\ Len(q) \in Nat /\ t \in Nat /\ pos \in Nat
    BY <2>2, <1>1, OrdersType DEF TypeOK
  <2>4. updates \in Seq(Updates)
    BY <1>1 DEF TypeOK
  <2>5. /\ \A i \in DOMAIN updates : i \in DOMAIN updates' /\ updates'[i] = updates[i]
        /\ \E i \in DOMAIN updates' : updates'[i] = [price |-> at, total |-> t]
    <3> DEFINE u == [price |-> at, total |-> t]
    <3>1. u \in Updates
      BY <2>2, <2>3 DEF Updates
    <3> HIDE DEF u
    <3>2. /\ Append(updates, u) \in Seq(Updates)
          /\ Len(Append(updates, u)) = Len(updates) + 1 /\ Len(updates) \in Nat
          /\ \A i \in 1 .. Len(updates) : Append(updates, u)[i] = updates[i]
          /\ Append(updates, u)[Len(updates) + 1] = u
      BY <3>1, <2>4, AppendProperties, LenProperties
    <3>3. updates' = Append(updates, u)
      BY <2>1 DEF u
    <3>4. DOMAIN updates = 1 .. Len(updates) /\ DOMAIN updates' = 1 .. Len(updates) + 1
      BY <3>2, <3>3, <2>4, LenProperties
    <3>5. updates'[Len(updates) + 1] = u /\ Len(updates) + 1 \in DOMAIN updates'
      BY <3>2, <3>3, <3>4
    <3> QED BY <3>2, <3>3, <3>4, <3>5 DEF u
  <2>6. cur.rem > 0 => t = 0
    <3> SUFFICES ASSUME cur.rem > 0 PROVE t = 0
      OBVIOUS
    <3>1. cur.rem # 0
      BY <2>2 DEF Orders
    <3>2. pos <= Len(q) + 1 /\ \E ss \in [0 .. Len(q) -> 0 .. t] :
              RunningTotals(q, t, ss) /\ ss[pos - 1] = 0
      BY <2>1 DEF IInv, ScanLeavesNothing
    <3>3. pos - 1 = Len(q)
      <4> HIDE DEF q
      <4>1. pos > Len(q) /\ pos <= Len(q) + 1
        BY <3>1, <3>2, <2>1
      <4> QED BY <4>1, <2>3
    <3> QED BY <3>2, <3>3 DEF RunningTotals
  <2> HIDE DEF q, t
  <2>7. cur.rem > 0 => \A p \in levels[CurSide] \ todo :
            \E i \in DOMAIN updates' : updates'[i] = [price |-> p, total |-> 0]
    <3> SUFFICES ASSUME cur.rem > 0, NEW p \in levels[CurSide] \ todo
                 PROVE  \E i \in DOMAIN updates' : updates'[i] = [price |-> p, total |-> 0]
      OBVIOUS
    <3>1. CASE p = at
      BY <3>1, <2>5, <2>6
    <3>2. CASE p # at
      BY <3>2, <2>1, <2>5, <1>1 DEF WalkLeavesNothing
    <3> QED BY <3>1, <3>2
  <2>8. todo \subseteq levels[CurSide]
    BY <2>1, <1>1 DEF WalkLeavesNothing
  <2> QED BY <2>1, <2>2, <2>7, <2>8 DEF WalkLeavesNothing
<1>6. CASE \/ MatchDone \/ ReportModified \/ RemoveMarkedNode \/ PublishTrade
           \/ PublishLevelUpdate \/ MatchReturns \/ RestOrder \/ Return \/ Cancel
  <2>1. pc' \notin {"match", "level"}
    BY <1>6 DEF MatchDone, ReportModified, RemoveMarkedNode, PublishTrade,
       PublishLevelUpdate, MatchReturns, AfterMatching, RestOrder, Return, Cancel,
       CancelResting, CancelStale, CancelUnknown, CloseCancel, vars
  <2> QED BY <2>1 DEF WalkLeavesNothing
<1>7. CASE UNCHANGED vars
  <2>1. UNCHANGED <<levels, pc, cur, todo, at, updates>>
    BY <1>7 DEF vars, book, walk, outbox
  <2> QED BY <2>1, <1>1 DEF WalkLeavesNothing, CurSide
<1> QED BY <1>2, <1>3, <1>4, <1>5, <1>6, <1>7 DEF Next, Engine

LEMMA ScanStep ==
    ASSUME IInv, [Next]_vars
    PROVE  ScanLeavesNothing'
<1>1. TypeOK /\ (pc # "idle" => CurSide \in Sides)
  BY CurSideType DEF IInv
<1>2. CASE MatchLevel
  <2>1. /\ at' \in todo /\ pos' = 1 /\ pc = "match"
        /\ UNCHANGED <<levels, orders, total, cur>>
    BY <1>2 DEF MatchLevel, book
  <2>2. CurSide' = CurSide
    BY <2>1 DEF CurSide
  <2>3. at' \in levels[CurSide] /\ CurSide \in Sides /\ at' \in Prices
    BY <1>1, <2>1 DEF IInv, WalkLeavesNothing, TypeOK
  <2>4. Tally(orders[CurSide][at'], total[CurSide][at']) /\ Len(orders[CurSide][at']) \in Nat
    BY <2>3, <1>1, OrdersType DEF IInv, LevelTotals
  <2>5. pos' - 1 = 0 /\ pos' <= Len(orders[CurSide][at']) + 1
    BY <2>1, <2>4
  <2>6. \E ss \in [0 .. Len(orders[CurSide][at']) -> 0 .. total[CurSide][at']] :
            RunningTotals(orders[CurSide][at'], total[CurSide][at'], ss) /\ ss[pos' - 1] = 0
    BY <2>4, <2>5 DEF Tally, RunningTotals
  <2> QED BY <2>1, <2>2, <2>5, <2>6 DEF ScanLeavesNothing
<1>3. CASE UNCHANGED vars
  <2>1. UNCHANGED <<orders, total, pc, cur, at, pos>>
    BY <1>3 DEF vars, book, walk
  <2> QED BY <2>1 DEF IInv, ScanLeavesNothing, CurSide
<1>4. CASE Submit \/ Cancel \/ (Engine /\ ~MatchLevel /\ ~MatchOrder)
  <2>1. pc' # "level"
    BY <1>4 DEF Submit, LimitOrder, MarketOrder, FillAndKillOrder, StartMatch, Reject,
       AfterMatching, Engine, LevelDone, MatchDone, ReportModified, RemoveMarkedNode,
       PublishTrade, PublishLevelUpdate, MatchReturns, RestOrder, Return, Cancel,
       CancelResting, CancelStale, CancelUnknown, CloseCancel, vars
  <2> QED BY <2>1 DEF ScanLeavesNothing
<1> QED BY <1>2, <1>3, <1>4, LevelsMatchOrder DEF Next, Engine

LEMMA RestStep ==
    ASSUME IInv, [Next]_vars
    PROVE  RestDoesNotCross'
<1>1. TypeOK /\ RestDoesNotCross /\ (pc # "idle" => CurSide \in Sides)
  BY CurSideType DEF IInv
<1>2. CASE Submit
  <2>1. /\ UNCHANGED <<levels, total>> /\ pc' # "publish"
        /\ pc' = "rest" => ~IsCrossing(cur')
    BY <1>2 DEF Submit, LimitOrder, MarketOrder, FillAndKillOrder, Accept, StartMatch,
       Reject, AfterMatching, book
  <2>2. CurSide' = Opposite(cur'.side)
    BY DEF CurSide
  <2> QED BY <2>1, <2>2 DEF RestDoesNotCross, IsCrossing
<1>3. CASE MatchDone
  <2>1. /\ pc = "match" /\ (todo = {} \/ cur.rem = 0)
        /\ levels' = [levels EXCEPT ![CurSide] = @ \ Exhausted]
        /\ pc' = "publish" /\ UNCHANGED cur
    BY <1>3 DEF MatchDone
  <2>2. CurSide' = CurSide /\ CurSide \in Sides /\ cur \in Orders(OrderIds)
    BY <1>1, <2>1 DEF CurSide, TypeOK
  <2>3. cur.rem > 0 => levels'[CurSide] = {}
    <3> SUFFICES ASSUME cur.rem > 0, NEW p \in levels'[CurSide] PROVE FALSE
      OBVIOUS
    <3>1. todo = {}
      BY <2>1, <2>2 DEF Orders
    <3>2. p \in levels[CurSide] /\ p \notin Exhausted
      BY <1>1, <2>1, <2>2 DEF TypeOK
    <3>3. at = None /\ p # None
      BY <1>1, <2>1, <2>2, <3>2, NoneAssumption DEF TypeOK
    <3>4. \E i \in DOMAIN updates : updates[i] = [price |-> p, total |-> 0]
      BY <2>1, <3>1, <3>2, <3>3 DEF IInv, WalkLeavesNothing
    <3> QED BY <3>2, <3>4 DEF Exhausted
  <2> QED BY <2>1, <2>2, <2>3 DEF RestDoesNotCross
<1>4. CASE ReportModified \/ RemoveMarkedNode \/ PublishTrade \/ PublishLevelUpdate
  <2>1. UNCHANGED <<levels, total, pc, cur>> /\ pc = "publish"
    BY <1>4 DEF ReportModified, RemoveMarkedNode, PublishTrade, PublishLevelUpdate, book
  <2> QED BY <2>1, <1>1 DEF RestDoesNotCross, CurSide
<1>5. CASE MatchReturns
  <2>1. UNCHANGED <<levels, total, cur>> /\ pc = "publish" /\ pc' # "publish"
    BY <1>5 DEF MatchReturns, AfterMatching, book
  <2> QED BY <2>1, <1>1 DEF RestDoesNotCross, CurSide
<1>6. CASE MatchLevel \/ MatchOrder \/ LevelDone \/ RestOrder \/ Return \/ Cancel
  <2>1. pc' \notin {"publish", "rest"}
    BY <1>6 DEF MatchLevel, MatchOrder, LevelDone, RestOrder, Return, Cancel,
       CancelResting, CancelStale, CancelUnknown, CloseCancel, vars
  <2> QED BY <2>1 DEF RestDoesNotCross
<1>7. CASE UNCHANGED vars
  <2>1. UNCHANGED <<levels, total, pc, cur>>
    BY <1>7 DEF vars, book
  <2> QED BY <2>1, <1>1 DEF RestDoesNotCross, CurSide
<1> QED BY <1>2, <1>3, <1>4, <1>5, <1>6, <1>7 DEF Next, Engine

-----------------------------------------------------------------------------
(* The theorems.                                                           *)

LEMMA InitIInv ==
    ASSUME Init
    PROVE  IInv
<1>1. \A S : <<>> \in Seq(S)
  OBVIOUS
<1>2. TypeOK
  BY <1>1, IdsAssumption DEF Init, TypeOK
<1>3. \A s \in Sides : levels[s] = {}
  BY DEF Init
<1>4. "BUY" \in Sides
  BY DEF Sides
<1>5. LevelTotals /\ NotCrossed /\ UniqueIds
  BY <1>3, <1>4 DEF LevelTotals, NotCrossed, UniqueIds
<1>6. MarksAreFilled /\ WalkLeavesNothing /\ ScanLeavesNothing /\ RestDoesNotCross
  BY DEF Init, MarksAreFilled, WalkLeavesNothing, ScanLeavesNothing, RestDoesNotCross
<1> QED BY <1>2, <1>5, <1>6 DEF IInv

\* Every call of add_order and remove_order, at every step of its loops and
\* callbacks, keeps the inductive invariant.
THEOREM Invariant == Spec => []IInv
<1>1. Init => IInv
  BY InitIInv
<1>2. IInv /\ [Next]_vars => IInv'
  BY TypeStep, LevelsStep, MarksStep, WalkStep, ScanStep, RestStep DEF IInv, LevelsOK
<1> QED BY <1>1, <1>2, PTL DEF Spec

\* The variables keep their types; of these, that no level's total ever goes
\* below zero (PriceLevel::match_order and remove_order subtract from an
\* unsigned) is the one that is not syntactic.
THEOREM TypeCorrect == Spec => []TypeOK
<1>1. IInv => TypeOK
  BY DEF IInv
<1> QED BY <1>1, Invariant, PTL

\* The total a level publishes is always what its orders have left.
THEOREM LevelTotalsCorrect == Spec => []LevelTotals
<1>1. IInv => LevelTotals
  BY DEF IInv
<1> QED BY <1>1, Invariant, PTL

\* The book is never crossed, whatever orders and cancels arrive.
THEOREM NeverCrossed == Spec => []NotCrossed
<1>1. IInv => NotCrossed
  BY DEF IInv
<1> QED BY <1>1, Invariant, PTL

=============================================================================
