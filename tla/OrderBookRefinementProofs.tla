---------------------- MODULE OrderBookRefinementProofs ----------------------
(***************************************************************************)
(* Proof that OrderBook keeps the promise of PriceTimeBook, for every set  *)
(* of prices and every set of orders that name no id, are open and of some *)
(* quantity.                                                               *)
(***************************************************************************)
EXTENDS OrderBookRefinement, OrderBookOwnerProofs

RestingOrders == [id : OrderIds, rem : Nat]

\* A level without its first k orders.
LiveAfter(q, k, r) ==
    /\ r \in Seq(RestingOrders) /\ Len(r) = Len(q) - k /\ Len(r) \in Nat
    /\ \A i \in 1 .. Len(r) : i + k \in 1 .. Len(q) /\ r[i] = Resting(q[i + k])

\* What is left of an order is a number, and so says whether it is filled.
LEMMA RemType ==
    ASSUME NEW q \in Seq(Orders(OrderIds))
    PROVE  /\ Len(q) \in Nat /\ DOMAIN q = 1 .. Len(q)
           /\ \A i \in DOMAIN q : q[i] \in Orders(OrderIds) /\ q[i].rem \in Nat
<1>1. Len(q) \in Nat /\ DOMAIN q = 1 .. Len(q) /\ \A i \in DOMAIN q : q[i] \in Orders(OrderIds)
  BY LenProperties, ElementOfSeq
<1> QED BY <1>1, OrderFields

\* Filled orders that come first are counted in one way only.
LEMMA FilledIs ==
    ASSUME NEW q \in Seq(Orders(OrderIds)), NEW k \in 0 .. Len(q), FilledUpTo(q, k)
    PROVE  Filled(q) = k /\ LiveAfter(q, k, Live(q))
<1> DEFINE f == Filled(q)
<1>1. Len(q) \in Nat /\ DOMAIN q = 1 .. Len(q)
  BY RemType
<1>2. f \in 0 .. Len(q) /\ FilledUpTo(q, f)
  BY DEF Filled
<1> HIDE DEF f
<1>3. ~(f < k)
  <2> SUFFICES ASSUME f < k PROVE FALSE
    OBVIOUS
  <2>1. f + 1 \in DOMAIN q /\ f + 1 <= k /\ ~(f + 1 <= f)
    BY <1>1, <1>2
  <2> QED BY <2>1, <1>2 DEF FilledUpTo
<1>4. ~(k < f)
  <2> SUFFICES ASSUME k < f PROVE FALSE
    OBVIOUS
  <2>1. k + 1 \in DOMAIN q /\ k + 1 <= f /\ ~(k + 1 <= k)
    BY <1>1, <1>2
  <2> QED BY <2>1, <1>2 DEF FilledUpTo
<1>5. f = k
  BY <1>1, <1>2, <1>3, <1>4
<1> DEFINE n == Len(q) - k
           e(i) == Resting(q[i + k])
<1>6. n \in Nat /\ Live(q) = [i \in 1 .. n |-> e(i)]
  BY <1>1, <1>5 DEF f, Live
<1>7. \A i \in 1 .. n : i + k \in 1 .. Len(q) /\ e(i) \in RestingOrders
  <2> SUFFICES ASSUME NEW i \in 1 .. n PROVE i + k \in 1 .. Len(q) /\ e(i) \in RestingOrders
    OBVIOUS
  <2>1. i + k \in 1 .. Len(q)
    BY <1>1
  <2>2. q[i + k] \in Orders(OrderIds)
    BY <2>1, ElementOfSeq
  <2> QED BY <2>1, <2>2, OrderFields DEF Resting, RestingOrders
<1>8. Live(q) \in [1 .. n -> RestingOrders]
  BY <1>6, <1>7
<1>9. Live(q) \in Seq(RestingOrders)
  BY <1>6, <1>8, SeqDef
<1>10. Len(Live(q)) = n
  BY <1>6, <1>8, <1>9, LenProperties
<1> QED BY <1>5, <1>6, <1>7, <1>9, <1>10 DEF LiveAfter, f

\* When no match is in progress no order waits to be unlinked.
LEMMA AllLive ==
    ASSUME IInv, OwnerInv, ~Working, NEW s \in Sides, NEW p \in levels[s]
    PROVE  FilledUpTo(orders[s][p], 0)
<1> SUFFICES ASSUME NEW i \in DOMAIN orders[s][p]
             PROVE  orders[s][p][i].rem = 0 <=> i <= 0
  BY DEF FilledUpTo
<1>1. RestsWell(s, p, orders[s][p][i])
  BY DEF OwnerInv, OrdersRestWell
<1>2. i \in 1 .. Len(orders[s][p])
  BY BookType DEF IInv
<1> QED BY <1>1, <1>2 DEF RestsWell

\* Two levels without their first orders are the same if they agree in what
\* clients see.
LEMMA LiveEqual ==
    ASSUME NEW q, NEW k, NEW x, NEW y, LiveAfter(q, k, x),
           y \in Seq(RestingOrders), Len(y) = Len(x),
           \A i \in 1 .. Len(x) : y[i] = Resting(q[i + k])
    PROVE  x = y
BY SeqEqual DEF LiveAfter

\* The empty level, which is also the level that is not there.
LEMMA LiveOfEmpty == FilledUpTo(<<>>, 0) /\ Live(<<>>) = <<>>
<1> DEFINE q == <<>>
<1>1. q \in Seq(Orders(OrderIds)) /\ Len(q) = 0 /\ DOMAIN q = {}
  BY EmptySeq
<1> HIDE DEF q
<1>2. FilledUpTo(q, 0) /\ 0 \in 0 .. Len(q)
  BY <1>1 DEF FilledUpTo
<1>3. LiveAfter(q, 0, Live(q))
  BY <1>1, <1>2, FilledIs
<1>4. Live(q) \in Seq(RestingOrders) /\ Len(Live(q)) = 0
  BY <1>1, <1>3 DEF LiveAfter
<1> QED BY <1>2, <1>4, EmptySeq DEF q

\* Clients see an offer exactly where an order has quantity left.
LEMMA LiveIsOffer ==
    ASSUME NEW q \in Seq(Orders(OrderIds)), NEW k \in 0 .. Len(q), FilledUpTo(q, k)
    PROVE  /\ Live(q) # <<>> <=> HasOffer(q)
           /\ Live(q) # <<>> <=> k < Len(q)
<1>1. LiveAfter(q, k, Live(q))
  BY FilledIs
<1>2. Len(q) \in Nat /\ DOMAIN q = 1 .. Len(q) /\ \A i \in DOMAIN q : q[i].rem \in Nat
  BY RemType
<1>3. Live(q) # <<>> <=> Len(Live(q)) # 0
  BY <1>1, EmptySeq DEF LiveAfter
<1>4. Live(q) # <<>> <=> k < Len(q)
  BY <1>1, <1>2, <1>3 DEF LiveAfter
<1>5. ASSUME HasOffer(q) PROVE k < Len(q)
  <2>1. PICK i \in DOMAIN q : q[i].rem > 0
    BY <1>5 DEF HasOffer
  <2>2. ~(i <= k)
    BY <2>1, <1>2 DEF FilledUpTo
  <2> QED BY <2>1, <2>2, <1>2
<1>6. ASSUME k < Len(q) PROVE HasOffer(q)
  <2>1. k + 1 \in DOMAIN q /\ ~(k + 1 <= k)
    BY <1>6, <1>2
  <2>2. q[k + 1].rem # 0 /\ q[k + 1].rem \in Nat
    BY <2>1, <1>2 DEF FilledUpTo
  <2> QED BY <2>1, <2>2 DEF HasOffer
<1> QED BY <1>4, <1>5, <1>6

\* An order that rests goes behind the offers.
LEMMA LiveAppend ==
    ASSUME NEW q \in Seq(Orders(OrderIds)), FilledUpTo(q, 0),
           NEW o \in Orders(OrderIds), o.rem > 0
    PROVE  /\ FilledUpTo(Append(q, o), 0)
           /\ Live(Append(q, o)) = Append(Live(q), Resting(o))
<1> DEFINE q2 == Append(q, o)
           y == Append(Live(q), Resting(o))
<1>1. /\ q2 \in Seq(Orders(OrderIds)) /\ Len(q2) = Len(q) + 1
      /\ \A i \in 1 .. Len(q) : q2[i] = q[i]
      /\ q2[Len(q) + 1] = o
      /\ Len(q) \in Nat /\ DOMAIN q = 1 .. Len(q) /\ DOMAIN q2 = 1 .. Len(q2)
  BY AppendProperties, RemType
<1>2. o.rem \in Nat /\ Resting(o) \in RestingOrders
  BY OrderFields DEF Resting, RestingOrders
<1>3. LiveAfter(q, 0, Live(q))
  BY <1>1, FilledIs
<1>4. /\ y \in Seq(RestingOrders) /\ Len(y) = Len(Live(q)) + 1
      /\ \A i \in 1 .. Len(Live(q)) : y[i] = Live(q)[i]
      /\ y[Len(Live(q)) + 1] = Resting(o)
  BY <1>2, <1>3, AppendProperties DEF LiveAfter
<1> HIDE DEF q2, y
<1>5. FilledUpTo(q2, 0)
  <2> SUFFICES ASSUME NEW i \in DOMAIN q2 PROVE q2[i].rem = 0 <=> i <= 0
    BY DEF FilledUpTo
  <2>1. CASE i = Len(q) + 1
    BY <2>1, <1>1, <1>2
  <2>2. CASE i # Len(q) + 1
    <3>1. i \in DOMAIN q /\ q2[i] = q[i]
      BY <2>2, <1>1
    <3> QED BY <3>1 DEF FilledUpTo
  <2> QED BY <2>1, <2>2
<1>6. LiveAfter(q2, 0, Live(q2))
  BY <1>1, <1>5, FilledIs
<1>7. Len(y) = Len(q2) /\ Len(Live(q)) = Len(q)
  BY <1>1, <1>3, <1>4 DEF LiveAfter
<1>8. \A i \in 1 .. Len(q2) : y[i] = Resting(q2[i])
  <2> SUFFICES ASSUME NEW i \in 1 .. Len(q2) PROVE y[i] = Resting(q2[i])
    OBVIOUS
  <2>1. CASE i = Len(q) + 1
    BY <2>1, <1>1, <1>4, <1>7
  <2>2. CASE i # Len(q) + 1
    <3>1. i \in 1 .. Len(q) /\ i + 0 = i
      BY <2>2, <1>1
    <3> QED BY <3>1, <1>1, <1>3, <1>4, <1>7 DEF LiveAfter
  <2> QED BY <2>1, <2>2
<1>9. Len(Live(q2)) = Len(q2) /\ \A i \in 1 .. Len(q2) : i + 0 = i
  BY <1>1, <1>6 DEF LiveAfter
<1>10. Live(q2) = y
  BY <1>4, <1>6, <1>7, <1>8, <1>9, LiveEqual
<1> QED BY <1>5, <1>10 DEF q2, y

LEMMA PrependIs ==
    ASSUME NEW S, NEW e \in S, NEW q \in Seq(S)
    PROVE  /\ <<e>> \o q \in Seq(S) /\ Len(<<e>> \o q) = Len(q) + 1
           /\ \A i \in 1 .. Len(q) + 1 : (<<e>> \o q)[i] = IF i = 1 THEN e ELSE q[i - 1]
<1> DEFINE a == <<e>>
<1>1. a \in Seq(S) /\ Len(a) = 1 /\ a[1] = e /\ Len(q) \in Nat
  BY LenProperties
<1> HIDE DEF a
<1>2. /\ a \o q \in Seq(S) /\ Len(a \o q) = Len(a) + Len(q)
      /\ \A i \in 1 .. Len(a) + Len(q) :
            (a \o q)[i] = IF i <= Len(a) THEN a[i] ELSE q[i - Len(a)]
  BY <1>1, ConcatProperties
<1>3. Len(a) + Len(q) = Len(q) + 1 /\ \A i \in 1 .. Len(q) + 1 : i <= Len(a) <=> i = 1
  BY <1>1
<1> QED BY <1>1, <1>2, <1>3 DEF a

\* The taker serves the first order that has something left.
LEMMA LiveServed ==
    ASSUME NEW q \in Seq(Orders(OrderIds)), NEW k \in 0 .. Len(q), FilledUpTo(q, k),
           k + 1 \in DOMAIN q, NEW n \in Nat, n <= q[k + 1].rem,
           NEW m \in Orders(OrderIds), m.id = q[k + 1].id, m.rem = q[k + 1].rem - n
    PROVE  LET q2 == [q EXCEPT ![k + 1] = m] IN
           /\ q2 \in Seq(Orders(OrderIds)) /\ Len(q2) = Len(q)
           /\ FilledUpTo(q2, IF m.rem = 0 THEN k + 1 ELSE k)
           /\ Head(Live(q)) = Resting(q[k + 1])
           /\ Live(q2) = Promise!Served(Live(q), n)
<1> DEFINE q2 == [q EXCEPT ![k + 1] = m]
           k2 == IF m.rem = 0 THEN k + 1 ELSE k
           x == Live(q)
           h == [Head(x) EXCEPT !.rem = @ - n]
<1>1. /\ Len(q) \in Nat /\ DOMAIN q = 1 .. Len(q) /\ k + 1 \in 1 .. Len(q)
      /\ \A i \in DOMAIN q : q[i] \in Orders(OrderIds) /\ q[i].rem \in Nat
  BY RemType
<1>2. /\ q2 \in Seq(Orders(OrderIds)) /\ Len(q2) = Len(q) /\ DOMAIN q2 = DOMAIN q
      /\ \A i \in DOMAIN q : q2[i] = IF i = k + 1 THEN m ELSE q[i]
  BY <1>1, ExceptSeq
<1>3. LiveAfter(q, k, x)
  BY FilledIs
<1>4. x \in Seq(RestingOrders) /\ Len(x) = Len(q) - k /\ x # <<>>
  BY <1>1, <1>3, EmptySeq DEF LiveAfter
<1>5. Head(x) = x[1] /\ x[1] = Resting(q[1 + k]) /\ 1 + k = k + 1
  BY <1>1, <1>3, <1>4, TailCases DEF LiveAfter
<1> HIDE DEF q2, x
<1>6. k2 \in 0 .. Len(q2) /\ FilledUpTo(q2, k2)
  <2>1. k2 \in 0 .. Len(q2)
    BY <1>1, <1>2
  <2> SUFFICES ASSUME NEW i \in DOMAIN q2 PROVE q2[i].rem = 0 <=> i <= k2
    BY <2>1 DEF FilledUpTo
  <2>2. CASE i = k + 1
    BY <2>2, <1>1, <1>2
  <2>3. CASE i # k + 1
    <3>1. q2[i] = q[i] /\ i \in DOMAIN q /\ (q[i].rem = 0 <=> i <= k)
      BY <2>3, <1>2 DEF FilledUpTo
    <3>2. i <= k <=> i <= k2
      BY <2>3, <3>1, <1>1
    <3> QED BY <3>1, <3>2
  <2> QED BY <2>2, <2>3
<1>7. LiveAfter(q2, k2, Live(q2))
  BY <1>2, <1>6, FilledIs
<1>8. Head(x).rem = q[k + 1].rem /\ h = Resting(m) /\ h \in RestingOrders
  <2>1. m.rem \in Nat /\ m.id \in OrderIds
    BY OrderFields
  <2> QED BY <2>1, <1>5 DEF Resting, RestingOrders
<1>9. CASE m.rem = 0
  <2> DEFINE y == Tail(x)
  <2>1. /\ y \in Seq(RestingOrders) /\ Len(y) = Len(x) - 1 /\ Len(x) \in Nat
        /\ \A i \in 1 .. Len(y) : y[i] = x[i + 1]
    BY <1>4, HeadTailProperties, LenProperties
  <2> HIDE DEF y
  <2>2. Len(y) = Len(Live(q2)) /\ k2 = k + 1
    BY <2>1, <1>1, <1>2, <1>4, <1>7, <1>9 DEF LiveAfter
  <2>3. \A i \in 1 .. Len(Live(q2)) : y[i] = Resting(q2[i + k2])
    <3> SUFFICES ASSUME NEW i \in 1 .. Len(Live(q2)) PROVE y[i] = Resting(q2[i + k2])
      OBVIOUS
    <3>1. y[i] = x[i + 1] /\ i + 1 \in 1 .. Len(x)
      BY <2>1, <2>2
    <3>2. x[i + 1] = Resting(q[(i + 1) + k]) /\ (i + 1) + k \in 1 .. Len(q)
      BY <3>1, <1>3 DEF LiveAfter
    <3>3. (i + 1) + k = i + k2 /\ i + k2 # k + 1
      BY <1>1, <2>2
    <3> QED BY <3>1, <3>2, <3>3, <1>1, <1>2
  <2>4. Live(q2) = y
    BY <2>1, <2>2, <2>3, <1>7, LiveEqual
  <2>5. Head(x).rem = n
    BY <1>1, <1>8, <1>9
  <2> QED BY <2>4, <2>5, <1>2, <1>5, <1>6 DEF Promise!Served, q2, x, y
<1>10. CASE m.rem # 0
  <2> DEFINE y == <<h>> \o Tail(x)
  <2>1. /\ Tail(x) \in Seq(RestingOrders) /\ Len(Tail(x)) = Len(x) - 1 /\ Len(x) \in Nat
        /\ \A i \in 1 .. Len(Tail(x)) : Tail(x)[i] = x[i + 1]
    BY <1>4, HeadTailProperties, LenProperties
  <2> HIDE DEF h
  <2>2. /\ y \in Seq(RestingOrders) /\ Len(y) = Len(x)
        /\ \A i \in 1 .. Len(x) : y[i] = IF i = 1 THEN h ELSE Tail(x)[i - 1]
    BY <1>8, <2>1, PrependIs
  <2> HIDE DEF y
  <2>3. Len(y) = Len(Live(q2)) /\ k2 = k
    <3>1. Len(x) = Len(q) - k
      BY <1>4 DEF LiveAfter
    <3>2. Len(Live(q2)) = Len(q2) - k2 /\ k2 = k
      BY <1>7, <1>10 DEF LiveAfter
    <3> QED BY <1>2, <2>2, <3>1, <3>2
  <2>4. \A i \in 1 .. Len(Live(q2)) : y[i] = Resting(q2[i + k2])
    <3> SUFFICES ASSUME NEW i \in 1 .. Len(Live(q2)) PROVE y[i] = Resting(q2[i + k2])
      OBVIOUS
    <3>1. CASE i = 1
      <4>1. 1 \in 1 .. Len(x) /\ i + k2 = k + 1
        BY <3>1, <2>2, <2>3, <1>1
      <4>2. y[i] = h /\ q2[i + k2] = m
        BY <4>1, <3>1, <2>2, <1>1, <1>2
      <4> QED BY <4>2, <1>8
    <3>2. CASE i # 1
      <4>1. i - 1 \in 1 .. Len(Tail(x)) /\ (i - 1) + 1 = i /\ i \in 1 .. Len(x)
        BY <3>2, <2>1, <2>2, <2>3
      <4>2. y[i] = x[i]
        BY <4>1, <2>1, <2>2
      <4>3. x[i] = Resting(q[i + k]) /\ i + k \in 1 .. Len(q) /\ i + k # k + 1
        BY <4>1, <3>2, <1>1, <1>3 DEF LiveAfter
      <4> QED BY <4>2, <4>3, <2>3, <1>1, <1>2
    <3> QED BY <3>1, <3>2
  <2>5. Live(q2) = y
    BY <2>2, <2>3, <2>4, <1>4, <1>7, LiveEqual
  <2>6. Head(x).rem # n
    BY <1>1, <1>8, <1>10
  <2> QED BY <2>5, <2>6, <1>2, <1>5, <1>6 DEF Promise!Served, q2, x, y, h
<1> QED BY <1>9, <1>10

\* Unlinking an order that has nothing left changes nothing clients see.
LEMMA LiveUnlinked ==
    ASSUME NEW q \in Seq(Orders(OrderIds)), NEW k \in 0 .. Len(q), FilledUpTo(q, k),
           NEW i \in 1 .. Len(q), q[i].rem = 0
    PROVE  LET q2 == RemoveAt(q, i) IN
           /\ q2 \in Seq(Orders(OrderIds)) /\ k - 1 \in 0 .. Len(q2)
           /\ FilledUpTo(q2, k - 1) /\ Live(q2) = Live(q)
<1> DEFINE q2 == RemoveAt(q, i)
<1>1. Len(q) \in Nat /\ DOMAIN q = 1 .. Len(q)
  BY RemType
<1>2. /\ q2 \in Seq(Orders(OrderIds)) /\ Len(q2) = Len(q) - 1
      /\ \A j \in 1 .. Len(q) - 1 : q2[j] = IF j < i THEN q[j] ELSE q[j + 1]
  BY RemoveAtFacts
<1>3. DOMAIN q2 = 1 .. Len(q) - 1
  BY <1>2, RemType
<1> HIDE DEF q2
<1>4. i <= k /\ k - 1 \in 0 .. Len(q2)
  BY <1>1, <1>2 DEF FilledUpTo
<1>5. FilledUpTo(q2, k - 1)
  <2> SUFFICES ASSUME NEW j \in 1 .. Len(q) - 1 PROVE q2[j].rem = 0 <=> j <= k - 1
    BY <1>3 DEF FilledUpTo
  <2>1. CASE j < i
    <3>1. q2[j] = q[j] /\ j \in DOMAIN q /\ j <= k /\ j <= k - 1
      BY <2>1, <1>1, <1>2, <1>4
    <3> QED BY <3>1 DEF FilledUpTo
  <2>2. CASE ~(j < i)
    <3>1. q2[j] = q[j + 1] /\ j + 1 \in DOMAIN q /\ (j + 1 <= k <=> j <= k - 1)
      BY <2>2, <1>1, <1>2
    <3> QED BY <3>1 DEF FilledUpTo
  <2> QED BY <2>1, <2>2
<1>6. LiveAfter(q2, k - 1, Live(q2)) /\ LiveAfter(q, k, Live(q))
  BY <1>2, <1>4, <1>5, FilledIs
<1>7. Len(Live(q)) = Len(Live(q2)) /\ Live(q) \in Seq(RestingOrders)
  BY <1>1, <1>2, <1>6 DEF LiveAfter
<1>8. \A j \in 1 .. Len(Live(q2)) : Live(q)[j] = Resting(q2[j + (k - 1)])
  <2> SUFFICES ASSUME NEW j \in 1 .. Len(Live(q2))
               PROVE  Live(q)[j] = Resting(q2[j + (k - 1)])
    OBVIOUS
  <2>1. Live(q)[j] = Resting(q[j + k]) /\ j + k \in 1 .. Len(q)
    BY <1>6, <1>7 DEF LiveAfter
  <2>2. j + (k - 1) \in 1 .. Len(q) - 1 /\ ~(j + (k - 1) < i) /\ (j + (k - 1)) + 1 = j + k
    BY <2>1, <1>1, <1>4
  <2> QED BY <2>1, <2>2, <1>2
<1>9. Live(q2) = Live(q)
  BY <1>6, <1>7, <1>8, LiveEqual
<1> QED BY <1>2, <1>4, <1>5, <1>9 DEF q2

\* Cancelling takes one offer away and moves no other.
LEMMA LiveWithdrawn ==
    ASSUME NEW q \in Seq(Orders(OrderIds)), FilledUpTo(q, 0), NEW i \in 1 .. Len(q)
    PROVE  /\ FilledUpTo(RemoveAt(q, i), 0)
           /\ i \in DOMAIN Live(q) /\ Live(RemoveAt(q, i)) = RemoveAt(Live(q), i)
<1> DEFINE q2 == RemoveAt(q, i)
           y == RemoveAt(Live(q), i)
<1>1. Len(q) \in Nat /\ DOMAIN q = 1 .. Len(q)
  BY RemType
<1>2. /\ q2 \in Seq(Orders(OrderIds)) /\ Len(q2) = Len(q) - 1
      /\ \A j \in 1 .. Len(q) - 1 : q2[j] = IF j < i THEN q[j] ELSE q[j + 1]
  BY RemoveAtFacts
<1>3. DOMAIN q2 = 1 .. Len(q) - 1
  BY <1>2, RemType
<1>4. LiveAfter(q, 0, Live(q))
  BY <1>1, FilledIs
<1>5. Len(Live(q)) = Len(q) /\ DOMAIN Live(q) = 1 .. Len(q)
  BY <1>1, <1>4, LenProperties DEF LiveAfter
<1>6. /\ y \in Seq(RestingOrders) /\ Len(y) = Len(q) - 1
      /\ \A j \in 1 .. Len(q) - 1 : y[j] = IF j < i THEN Live(q)[j] ELSE Live(q)[j + 1]
  <2>1. Live(q) \in Seq(RestingOrders) /\ i \in 1 .. Len(Live(q))
    BY <1>4, <1>5 DEF LiveAfter
  <2> QED BY <1>5, <2>1, RemoveAtFacts
<1> HIDE DEF q2, y
<1>7. FilledUpTo(q2, 0)
  <2> SUFFICES ASSUME NEW j \in 1 .. Len(q) - 1 PROVE q2[j].rem = 0 <=> j <= 0
    BY <1>3 DEF FilledUpTo
  <2>1. j \in DOMAIN q /\ j + 1 \in DOMAIN q /\ ~(j <= 0) /\ ~(j + 1 <= 0)
    BY <1>1
  <2> QED BY <2>1, <1>2 DEF FilledUpTo
<1>8. LiveAfter(q2, 0, Live(q2))
  BY <1>1, <1>2, <1>7, FilledIs
<1>9. Len(y) = Len(Live(q2))
  BY <1>1, <1>2, <1>6, <1>8 DEF LiveAfter
<1>10. \A j \in 1 .. Len(Live(q2)) : y[j] = Resting(q2[j + 0])
  <2> SUFFICES ASSUME NEW j \in 1 .. Len(q) - 1 PROVE y[j] = Resting(q2[j + 0])
    BY <1>6, <1>9
  <2>1. j + 0 = j /\ j \in 1 .. Len(q) /\ j + 1 \in 1 .. Len(q) /\ (j + 1) + 0 = j + 1
    BY <1>1
  <2>2. Live(q)[j] = Resting(q[j]) /\ Live(q)[j + 1] = Resting(q[j + 1])
    BY <2>1, <1>4, <1>5 DEF LiveAfter
  <2> QED BY <2>1, <2>2, <1>2, <1>6
<1>11. Live(q2) = y
  BY <1>6, <1>8, <1>9, <1>10, LiveEqual
<1> QED BY <1>5, <1>7, <1>11 DEF q2, y

-----------------------------------------------------------------------------
(* What the queues of the promise are in a state of the book               *)

QueueInv == FilledComeFirst /\ LevelsOffer /\ WalkIsBestFirst

\* An order of level p of side s is offered to clients.
Offered(s, p) == PromisedQueue[s][p] # <<>>

LEMMA AllLiveLevel ==
    ASSUME IInv, OwnerInv, ~Working, NEW s \in Sides, NEW p \in Prices
    PROVE  FilledUpTo(LevelOrders(s, p), 0)
BY AllLive, LiveOfEmpty DEF LevelOrders

LEMMA FilledOfLevel ==
    ASSUME FilledComeFirst, NEW s \in Sides, NEW p \in Prices
    PROVE  \E k \in 0 .. Len(LevelOrders(s, p)) : FilledUpTo(LevelOrders(s, p), k)
<1>1. CASE p \in levels[s]
  BY <1>1 DEF FilledComeFirst, LevelOrders
<1>2. CASE p \notin levels[s]
  <2> DEFINE q == <<>>
  <2>1. q \in Seq(Orders(OrderIds)) /\ Len(q) = 0
    BY EmptySeq
  <2>2. FilledUpTo(q, 0)
    BY LiveOfEmpty
  <2>3. LevelOrders(s, p) = q
    BY <1>2 DEF LevelOrders
  <2> HIDE DEF q
  <2> QED BY <2>1, <2>2, <2>3
<1> QED BY <1>1, <1>2

\* Clients are offered something exactly at the prices with a total.
LEMMA OfferIsTotal ==
    ASSUME IInv, QueueInv, NEW s \in Sides, NEW p \in Prices
    PROVE  Offered(s, p) <=> LevelTotal(s, p) > 0
<1> DEFINE q == LevelOrders(s, p)
<1>1. /\ q \in Seq(Orders(OrderIds)) /\ DOMAIN q = 1 .. Len(q)
      /\ \A i \in DOMAIN q : q[i].rem \in Nat /\ q[i].rem <= LevelTotal(s, p)
  BY LevelOrdersFacts
<1>2. LevelTotal(s, p) \in Nat
  BY LevelType
<1>3. PICK k \in 0 .. Len(q) : FilledUpTo(q, k)
  BY FilledOfLevel DEF QueueInv
<1>4. Live(q) # <<>> <=> HasOffer(q)
  BY <1>1, <1>3, LiveIsOffer
<1>5. Offered(s, p) <=> HasOffer(q)
  BY <1>4 DEF Offered, PromisedQueue
<1> HIDE DEF q
<1>6. HasOffer(q) => LevelTotal(s, p) > 0
  BY <1>1, <1>2 DEF HasOffer
<1>7. ASSUME LevelTotal(s, p) > 0 PROVE HasOffer(q)
  <2>1. p \in levels[s] /\ total[s][p] > 0
    BY <1>7 DEF LevelTotal
  <2> QED BY <2>1 DEF QueueInv, LevelsOffer, LevelOrders, q
<1> QED BY <1>5, <1>6, <1>7

LEMMA OffersAre ==
    ASSUME IInv, QueueInv, NEW s \in Sides
    PROVE  Promise!Offers(s) = {p \in Prices : LevelTotal(s, p) > 0}
BY OfferIsTotal DEF Offered, Promise!Offers

\* When no match is in progress the levels of a side are its offers.
LEMMA OffersAreLevels ==
    ASSUME IInv, QueueInv, ~Working, NEW s \in Sides
    PROVE  Promise!Offers(s) = levels[s]
<1>1. levels[s] \subseteq Prices
  BY DEF IInv, TypeOK
<1>2. ASSUME NEW p \in levels[s] PROVE LevelTotal(s, p) > 0
  <2>1. total[s][p] \in Nat /\ total[s][p] # 0
    BY <1>1 DEF IInv, TypeOK, QueueInv, LevelsOffer, Working
  <2> QED BY <2>1 DEF LevelTotal
<1>3. ASSUME NEW p \in Prices, p \notin levels[s] PROVE ~(LevelTotal(s, p) > 0)
  BY <1>3 DEF LevelTotal
<1> QED BY <1>1, <1>2, <1>3, OffersAre

\* Nothing moves in the queues if nothing moves in the book.
LEMMA PromisedFrame ==
    ASSUME UNCHANGED <<levels, orders>>
    PROVE  PromisedQueue' = PromisedQueue
BY DEF PromisedQueue, LevelOrders

LEMMA FilledFrame ==
    ASSUME FilledComeFirst, UNCHANGED <<levels, orders>>
    PROVE  FilledComeFirst'
BY DEF FilledComeFirst

LEMMA WriteAt ==
    ASSUME NEW S, NEW T, NEW f, f = [x \in S |-> [r \in T |-> f[x][r]]],
           NEW s \in S, NEW p \in T, NEW l
    PROVE  [f EXCEPT ![s][p] = l] =
               [x \in S |-> [r \in T |-> IF x = s /\ r = p THEN l ELSE f[x][r]]]
<1> DEFINE g == [f EXCEPT ![s][p] = l]
           h(x) == [r \in T |-> IF x = s /\ r = p THEN l ELSE f[x][r]]
<1>1. DOMAIN f = S /\ \A x \in S : f[x] = [r \in T |-> f[x][r]]
  OBVIOUS
<1>2. g = [x \in S |-> g[x]]
  BY <1>1
<1>3. ASSUME NEW x \in S PROVE g[x] = h(x)
  <2>1. CASE x = s
    <3>1. g[x] = [f[s] EXCEPT ![p] = l]
      BY <2>1, <1>1
    <3>2. f[s] = [r \in T |-> f[s][r]]
      BY <1>1
    <3>3. [f[s] EXCEPT ![p] = l] = [r \in T |-> IF r = p THEN l ELSE f[s][r]]
      BY <3>2
    <3> QED BY <3>1, <3>3, <2>1
  <2>2. CASE x # s
    <3>1. g[x] = f[x]
      BY <2>2, <1>1
    <3> QED BY <3>1, <2>2, <1>1
  <2> QED BY <2>1, <2>2
<1> HIDE DEF g
<1>4. g = [x \in S |-> h(x)]
  BY <1>2, <1>3
<1> QED BY <1>4 DEF g

\* Writing one level of the book writes one queue.
LEMMA PromisedAfterWrite ==
    ASSUME TypeOK, NEW s \in Sides, NEW p \in Prices, NEW q,
           orders' = [orders EXCEPT ![s][p] = q],
           levels' \in [Sides -> SUBSET Prices],
           \A x \in Sides, r \in Prices :
               ~(x = s /\ r = p) => (r \in levels'[x] <=> r \in levels[x]),
           p \in levels'[s] \/ Live(q) = <<>>
    PROVE  PromisedQueue' = [PromisedQueue EXCEPT ![s][p] = Live(q)]
<1> DEFINE l == Live(q)
<1>1. \A x \in Sides, r \in Prices :
        orders'[x][r] = IF x = s /\ r = p THEN q ELSE orders[x][r]
  BY DEF TypeOK
<1>2. \A x \in Sides, r \in Prices : ~(x = s /\ r = p) => LevelOrders(x, r)' = LevelOrders(x, r)
  BY <1>1 DEF LevelOrders
<1>3. Live(LevelOrders(s, p)') = l
  BY <1>1, LiveOfEmpty DEF LevelOrders
<1> HIDE DEF l
<1>4. PromisedQueue' = [x \in Sides |-> [r \in Prices |-> Live(LevelOrders(x, r)')]]
  BY DEF PromisedQueue
<1>5. \A x \in Sides, r \in Prices :
        Live(LevelOrders(x, r)') = IF x = s /\ r = p THEN l ELSE PromisedQueue[x][r]
  BY <1>2, <1>3 DEF PromisedQueue
<1>6. PromisedQueue = [x \in Sides |-> [r \in Prices |-> PromisedQueue[x][r]]]
  BY DEF PromisedQueue
<1>7. [PromisedQueue EXCEPT ![s][p] = l] =
        [x \in Sides |-> [r \in Prices |->
            IF x = s /\ r = p THEN l ELSE PromisedQueue[x][r]]]
  BY <1>6, WriteAt
<1> QED BY <1>4, <1>5, <1>7 DEF l

LEMMA FilledAfterWrite ==
    ASSUME TypeOK, FilledComeFirst, NEW s \in Sides, NEW p \in Prices, NEW q,
           orders' = [orders EXCEPT ![s][p] = q],
           levels' \in [Sides -> SUBSET Prices],
           \A x \in Sides, r \in Prices :
               ~(x = s /\ r = p) => (r \in levels'[x] <=> r \in levels[x]),
           \E k \in 0 .. Len(q) : FilledUpTo(q, k)
    PROVE  FilledComeFirst'
<1> SUFFICES ASSUME NEW x \in Sides, NEW r \in levels'[x]
             PROVE  \E k \in 0 .. Len(orders'[x][r]) : FilledUpTo(orders'[x][r], k)
  BY DEF FilledComeFirst
<1>1. r \in Prices
  OBVIOUS
<1>2. CASE x = s /\ r = p
  <2>1. orders'[x][r] = q
    BY <1>2 DEF TypeOK
  <2> QED BY <2>1
<1>3. CASE ~(x = s /\ r = p)
  <2>1. orders'[x][r] = orders[x][r] /\ r \in levels[x]
    BY <1>1, <1>3 DEF TypeOK
  <2> QED BY <2>1 DEF FilledComeFirst
<1> QED BY <1>2, <1>3

-----------------------------------------------------------------------------
(* Steps clients do not see                                                *)

Unseen == UNCHANGED <<PromisedQueue, Taker, Phase>>

LEMMA OfferFrame ==
    ASSUME LevelsOffer, UNCHANGED <<levels, orders, total>>,
           \A s \in Sides : \A p \in levels[s] : total[s][p] = 0 =>
               pc' \in {"match", "level"} /\ s = CurSide' /\ p \in Owed' \cup {at'}
    PROVE  LevelsOffer'
BY DEF LevelsOffer, HasOffer

LEMMA QueueQuiet ==
    ASSUME QueueInv,
           \/ ReportModified \/ PublishTrade \/ PublishLevelUpdate
           \/ (\E id \in OrderIds : CancelUnknown(id)) \/ UNCHANGED vars
    PROVE  QueueInv' /\ Unseen
<1>1. UNCHANGED <<levels, orders, total, pc, cur, at, todo>>
  BY DEF ReportModified, PublishTrade, PublishLevelUpdate, CancelUnknown, vars, book, walk
<1>2. FilledComeFirst' /\ PromisedQueue' = PromisedQueue
  BY <1>1, FilledFrame, PromisedFrame DEF QueueInv
<1>3. pc = "publish" \/ UNCHANGED updates
  BY DEF ReportModified, PublishTrade, PublishLevelUpdate, CancelUnknown, vars, outbox
<1>4. CurSide' = CurSide /\ (pc = "publish" \/ Owed' = Owed)
  BY <1>1, <1>3 DEF CurSide, Owed
<1>5. LevelsOffer'
  BY <1>1, <1>4, OfferFrame DEF QueueInv, LevelsOffer
<1>6. WalkIsBestFirst'
  BY <1>1, <1>4 DEF QueueInv, WalkIsBestFirst
<1>7. Taker' = Taker /\ Phase' = Phase
  BY <1>1 DEF Taker, Phase
<1> QED BY <1>2, <1>5, <1>6, <1>7 DEF QueueInv, Unseen

LEMMA QueueMatchLevel ==
    ASSUME IInv, QueueInv, MatchLevel
    PROVE  QueueInv' /\ Unseen
<1>1. UNCHANGED <<levels, orders, total, cur, updates>> /\ pc = "match" /\ pc' = "level"
  BY DEF MatchLevel, book, outbox
<1>2. FilledComeFirst' /\ PromisedQueue' = PromisedQueue
  BY <1>1, FilledFrame, PromisedFrame DEF QueueInv
<1>3. CurSide' = CurSide /\ Owed' = Owed
  BY <1>1 DEF CurSide, Owed
<1>4. at = None /\ None \notin Prices /\ levels \in [Sides -> SUBSET Prices]
  BY <1>1, NoneAssumption DEF IInv, TypeOK
<1>5. LevelsOffer'
  BY <1>1, <1>3, <1>4, OfferFrame DEF QueueInv, LevelsOffer
<1>6. WalkIsBestFirst'
  BY <1>3 DEF MatchLevel, BestToDo, WalkIsBestFirst
<1>7. Taker' = Taker /\ Phase' = Phase
  BY <1>1 DEF Taker, Phase
<1> QED BY <1>2, <1>5, <1>6, <1>7 DEF QueueInv, Unseen

LEMMA QueueLevelDone ==
    ASSUME IInv, QueueInv, LevelDone
    PROVE  QueueInv' /\ Unseen
<1>1. /\ UNCHANGED <<levels, orders, total, cur>> /\ pc = "level" /\ pc' = "match"
      /\ updates' = Append(updates, LevelUpdate)
  BY DEF LevelDone, book
<1>2. FilledComeFirst' /\ PromisedQueue' = PromisedQueue
  BY <1>1, FilledFrame, PromisedFrame DEF QueueInv
<1>3. CurSide' = CurSide
  BY <1>1 DEF CurSide
<1>4. LevelUpdate \in Updates /\ LevelUpdate.price = at /\ updates \in Seq(Updates)
  <2>1. at \in Prices /\ total[CurSide][at] \in Nat /\ updates \in Seq(Updates)
    BY <1>1, CurSideType DEF IInv, TypeOK
  <2> QED BY <2>1 DEF LevelUpdate, Updates
<1>5. Owed \cup {at} \subseteq Owed'
  <2>1. /\ DOMAIN updates' = DOMAIN updates \cup {Len(updates) + 1}
        /\ \A i \in DOMAIN updates : updates'[i] = updates[i]
        /\ updates'[Len(updates) + 1] = LevelUpdate
    BY <1>1, <1>4, AppendCases
  <2> QED BY <2>1, <1>4 DEF Owed
<1>6. LevelsOffer'
  BY <1>1, <1>3, <1>5, OfferFrame DEF QueueInv, LevelsOffer
<1>7. WalkIsBestFirst' /\ Taker' = Taker /\ Phase' = Phase
  BY <1>1 DEF Taker, Phase, WalkIsBestFirst
<1> QED BY <1>2, <1>6, <1>7 DEF QueueInv, Unseen

LEMMA QueueMatchDone ==
    ASSUME IInv, FeedInv, QueueInv, MatchDone
    PROVE  QueueInv' /\ Unseen
<1>1. /\ UNCHANGED <<orders, total, cur, updates>> /\ pc = "match" /\ pc' = "publish"
      /\ levels' = [levels EXCEPT ![CurSide] = @ \ Exhausted]
  BY DEF MatchDone, outbox
<1>2. /\ CurSide \in Sides /\ at = None /\ None \notin Prices
      /\ levels \in [Sides -> SUBSET Prices] /\ total \in [Sides -> [Prices -> Nat]]
  BY <1>1, CurSideType, NoneAssumption DEF IInv, TypeOK
<1>3. \A s \in Sides : levels'[s] = IF s = CurSide THEN levels[s] \ Exhausted ELSE levels[s]
  BY <1>1, <1>2
<1>4. FilledComeFirst'
  BY <1>1, <1>3 DEF QueueInv, FilledComeFirst
<1>5. ASSUME NEW s \in Sides, NEW p \in levels'[s]
      PROVE  (total[s][p] > 0 => HasOffer(orders[s][p])) /\ total[s][p] # 0
  <2>1. p \in levels[s] /\ p \in Prices
    BY <1>2, <1>3, <1>5
  <2>2. total[s][p] > 0 => HasOffer(orders[s][p])
    BY <2>1 DEF QueueInv, LevelsOffer
  <2>3. ASSUME total[s][p] = 0 PROVE FALSE
    <3>1. s = CurSide /\ p \in Owed
      BY <1>1, <1>2, <2>1, <2>3 DEF QueueInv, LevelsOffer
    <3>2. PICK i \in DOMAIN updates : updates[i].price = p
      BY <3>1 DEF Owed
    <3>3. updates[i].total = LevelTotal(s, p)
      BY <3>1, <3>2 DEF FeedInv, UpdatesHold
    <3>4. updates[i].total = 0
      BY <3>3, <2>1, <2>3 DEF LevelTotal
    <3>5. p \in Exhausted
      BY <3>2, <3>4 DEF Exhausted
    <3> QED BY <3>1, <3>5, <1>3, <1>5
  <2> QED BY <2>2, <2>3
<1>6. LevelsOffer'
  BY <1>1, <1>5 DEF LevelsOffer, HasOffer
<1>7. WalkIsBestFirst' /\ Taker' = Taker /\ Phase' = Phase
  BY <1>1 DEF Taker, Phase, WalkIsBestFirst
<1>8. ASSUME NEW s \in Sides, NEW p \in Prices
      PROVE  Live(LevelOrders(s, p)') = Live(LevelOrders(s, p))
  <2>1. CASE p \in levels'[s] <=> p \in levels[s]
    BY <2>1, <1>1 DEF LevelOrders
  <2>2. CASE ~(p \in levels'[s] <=> p \in levels[s])
    <3>1. s = CurSide /\ p \in Exhausted /\ p \notin levels'[s]
      BY <2>2, <1>3
    <3>2. LevelTotal(s, p) = 0
      BY <3>1, <1>1, ErasedAreEmpty
    <3>3. ~Offered(s, p)
      BY <3>2, OfferIsTotal
    <3>4. LevelOrders(s, p)' = <<>>
      BY <3>1 DEF LevelOrders
    <3> QED BY <3>3, <3>4, LiveOfEmpty DEF Offered, PromisedQueue
  <2> QED BY <2>1, <2>2
<1>9. PromisedQueue' = PromisedQueue
  BY <1>8 DEF PromisedQueue
<1> QED BY <1>4, <1>6, <1>7, <1>9 DEF QueueInv, Unseen

LEMMA QueueRemoveMarked ==
    ASSUME IInv, QueueInv, RemoveMarkedNode
    PROVE  QueueInv' /\ Unseen
<1>1. UNCHANGED <<levels, total, pc, cur, at, todo, updates>> /\ pc = "publish"
  BY DEF RemoveMarkedNode, outbox
<1>2. CurSide' = CurSide /\ Taker' = Taker /\ Phase' = Phase /\ WalkIsBestFirst'
  BY <1>1 DEF CurSide, Taker, Phase, WalkIsBestFirst
<1>3. CASE orders' = orders
  <2>1. FilledComeFirst' /\ PromisedQueue' = PromisedQueue
    BY <1>1, <1>3, FilledFrame, PromisedFrame DEF QueueInv
  <2>2. LevelsOffer'
    BY <1>1, <1>3, OfferFrame DEF QueueInv, LevelsOffer
  <2> QED BY <2>1, <2>2, <1>2 DEF QueueInv, Unseen
<1>4. CASE orders' # orders
  <2>1. PICK s \in Sides, p \in Prices :
          \E i \in DOMAIN orders[s][p] :
          /\ s = CurSide /\ marked[p] # <<>> /\ orders[s][p][i].id = Head(marked[p])
          /\ orders' = [orders EXCEPT ![s][p] = RemoveAt(orders[s][p], i)]
    <3>1. CurSide \in Sides /\ Head(purge) \in Prices
      BY <1>1, CurSideType, TailCases DEF IInv, TypeOK, RemoveMarkedNode
    <3> QED BY <3>1, <1>4 DEF RemoveMarkedNode
  <2>2. PICK i \in DOMAIN orders[s][p] :
          /\ s = CurSide /\ marked[p] # <<>> /\ orders[s][p][i].id = Head(marked[p])
          /\ orders' = [orders EXCEPT ![s][p] = RemoveAt(orders[s][p], i)]
    BY <2>1
  <2> DEFINE q == orders[s][p]
             q2 == RemoveAt(q, i)
  <2>3. q \in Seq(Orders(OrderIds)) /\ DOMAIN q = 1 .. Len(q)
    BY OrdersType DEF IInv
  <2> HIDE DEF q2
  <2>4. ASSUME p \in levels[s]
        PROVE  /\ \E k \in 0 .. Len(q2) : FilledUpTo(q2, k)
               /\ Live(q2) = Live(q) /\ (HasOffer(q2) <=> HasOffer(q))
    <3>1. PICK k \in 0 .. Len(q) : FilledUpTo(q, k)
      BY <2>4 DEF QueueInv, FilledComeFirst
    <3>2. q[i].rem = 0
      <4>1. 1 \in DOMAIN marked[p] /\ Head(marked[p]) = marked[p][1]
        BY <2>2, TailCases DEF IInv, TypeOK
      <4> QED BY <4>1, <2>2, <2>4, <1>1 DEF IInv, MarksAreFilled
    <3>3. /\ q2 \in Seq(Orders(OrderIds)) /\ k - 1 \in 0 .. Len(q2)
          /\ FilledUpTo(q2, k - 1) /\ Live(q2) = Live(q)
      BY <2>3, <3>1, <3>2, LiveUnlinked DEF q2
    <3> QED BY <2>3, <3>1, <3>3, LiveIsOffer
  <2> HIDE DEF q
  <2>5. \A x \in Sides, r \in Prices :
          orders'[x][r] = IF x = s /\ r = p THEN q2 ELSE orders[x][r]
    BY <2>2 DEF IInv, TypeOK, q, q2
  <2>6. levels \in [Sides -> SUBSET Prices]
    BY DEF IInv, TypeOK
  <2>7. FilledComeFirst'
    BY <1>1, <2>4, <2>5, <2>6 DEF QueueInv, FilledComeFirst
  <2>8. LevelsOffer'
    <3>1. \A x \in Sides : \A r \in levels[x] : HasOffer(orders'[x][r]) <=> HasOffer(orders[x][r])
      BY <2>4, <2>5, <2>6 DEF q
    <3>2. \A x \in Sides : \A r \in levels[x] : HasOffer(orders[x][r])' <=> HasOffer(orders[x][r])
      BY <3>1 DEF HasOffer
    <3> QED BY <1>1, <3>2 DEF QueueInv, LevelsOffer
  <2>9. \A x \in Sides, r \in Prices : Live(LevelOrders(x, r)') = Live(LevelOrders(x, r))
    BY <1>1, <2>4, <2>5 DEF LevelOrders, q
  <2>10. PromisedQueue' = PromisedQueue
    BY <2>9 DEF PromisedQueue
  <2> QED BY <2>7, <2>8, <2>10, <1>2 DEF QueueInv, Unseen
<1> QED BY <1>3, <1>4

-----------------------------------------------------------------------------
(* Steps clients see                                                       *)

LEMMA OtherSide ==
    /\ \A s : Promise!Other(s) = Opposite(s)
    /\ \A s, p, q : Promise!NoWorse(s, p, q) <=> AtLeastAsGood(s, p, q)
    /\ \A q, i : Promise!RemoveAt(q, i) = RemoveAt(q, i)
BY DEF Promise!Other, Promise!NoWorse, Opposite, AtLeastAsGood, Promise!RemoveAt, RemoveAt

LEMMA QueueSubmit ==
    ASSUME FreshOrders, IInv, OwnerInv, QueueInv, Submit
    PROVE  QueueInv' /\ Promise!Arrive
<1>1. PICK o \in Incoming :
        /\ Accept(o)
        /\ LET a == Identified(o) IN
           \/ /\ o.type = "LIMIT"
              /\ \/ IsCrossing(a) /\ StartMatch(a)
                 \/ ~IsCrossing(a) /\ cur' = a /\ pc' = AfterMatching(a) /\ UNCHANGED todo
           \/ /\ o.type = "MARKET"
              /\ \/ levels[Opposite(a.side)] # {} /\ StartMatch(a)
                 \/ levels[Opposite(a.side)] = {} /\ Reject(a)
           \/ /\ o.type = "FILL_AND_KILL"
              /\ \/ IsCrossing(a) /\ StartMatch(a)
                 \/ ~IsCrossing(a) /\ Reject(a)
  BY DEF Submit, LimitOrder, MarketOrder, FillAndKillOrder
<1> DEFINE i == FirstId + issued
           a == [o EXCEPT !.id = i]
<1>2. /\ Identified(o) = a /\ pc = "idle" /\ cur = None
      /\ UNCHANGED <<levels, orders, total, at>>
      /\ o \in Orders(Nat) /\ o.status = "OPEN" /\ submitted < MaxOrders
  BY <1>1, IncomingAssumption DEF FreshOrders, Identified, Accept, book, IInv, TypeOK
<1>3. a \in Orders(OrderIds) /\ i \in OrderIds
  <2>1. a \in Orders(OrderIds)
    BY <1>2, IdentifiedType DEF IInv
  <2>2. a.id = i
    BY <1>2 DEF Orders
  <2> QED BY <2>1, <2>2, OrderFields
<1>4. /\ a.side = o.side /\ a.price = o.price /\ a.type = o.type /\ a.status = "OPEN"
      /\ a.side \in Sides /\ Opposite(a.side) \in Sides
  BY <1>2, <1>3, OppositeType DEF Orders
<1> DEFINE b == Taking(a)
<1>5. b \in Takers
  BY <1>3 DEF Takers
<1>6. /\ b.side = a.side /\ b.price = a.price /\ b.type = a.type
      /\ Taking(a) = b /\ Taking([a EXCEPT !.status = "REJECTED"]) = b
  BY <1>2 DEF Taking, Orders
<1> HIDE DEF a, b, i
<1>7. Promise!Offers(Opposite(a.side)) = levels[Opposite(a.side)]
  BY <1>2, <1>4, OffersAreLevels DEF Working
<1>8. Promise!Takes(b) <=>
        IF a.type = "MARKET" THEN levels[Opposite(a.side)] # {} ELSE IsCrossing(a)
  BY <1>6, <1>7, OtherSide DEF Promise!Takes, IsCrossing
<1>9. /\ cur' # None /\ Taking(cur') = b
      /\ pc' = IF Promise!Takes(b) THEN "match"
               ELSE IF a.type = "LIMIT" THEN "rest" ELSE "done"
  <2>1. cur' \in {a, [a EXCEPT !.status = "REJECTED"]}
    BY <1>1, <1>2 DEF StartMatch, Reject
  <2>2. a # None /\ [a EXCEPT !.status = "REJECTED"] # None
    <3>1. [a EXCEPT !.status = "REJECTED"] \in Orders(OrderIds)
      BY <1>3 DEF Orders, Statuses
    <3> QED BY <1>3, <3>1, NoneAssumption
  <2>3. AfterMatching(a) = IF a.type = "LIMIT" THEN "rest" ELSE "done"
    BY <1>4 DEF AfterMatching
  <2>4. cur' # None /\ Taking(cur') = b
    BY <2>1, <2>2, <1>6
  <2>5. pc' = IF Promise!Takes(b) THEN "match" ELSE IF a.type = "LIMIT" THEN "rest" ELSE "done"
    BY <2>3, <1>1, <1>2, <1>4, <1>8 DEF StartMatch, Reject
  <2> QED BY <2>4, <2>5
<1>10. Taker = None /\ Taker' = b
  BY <1>2, <1>9 DEF Taker
<1>11. Phase' = IF Promise!Takes(b) THEN "take" ELSE IF b.type = "LIMIT" THEN "rest" ELSE "leave"
  BY <1>6, <1>9 DEF Phase
<1>12. PromisedQueue' = PromisedQueue /\ FilledComeFirst'
  BY <1>2, PromisedFrame, FilledFrame DEF QueueInv
<1>13. Promise!Arrive
  BY <1>5, <1>10, <1>11, <1>12 DEF Promise!Arrive
<1>14. LevelsOffer'
  BY <1>2, OfferFrame DEF QueueInv, LevelsOffer
<1>15. WalkIsBestFirst'
  BY <1>9 DEF WalkIsBestFirst
<1> QED BY <1>12, <1>13, <1>14, <1>15 DEF QueueInv

LEMMA TakerIs ==
    ASSUME IInv, pc # "idle"
    PROVE  /\ cur \in Orders(OrderIds) /\ Taker = Taking(cur)
           /\ Taker.id = cur.id /\ Taker.side = cur.side /\ Taker.price = cur.price
           /\ Taker.rem = cur.rem /\ Taker.type = cur.type
<1>1. cur \in Orders(OrderIds) /\ cur # None
  BY CurSideType, NoneAssumption DEF IInv
<1> QED BY <1>1 DEF Taker, Taking

LEMMA QueueMatchReturns ==
    ASSUME IInv, OwnerInv, QueueInv, MatchReturns
    PROVE  QueueInv' /\ Promise!Settle
<1>1. /\ UNCHANGED <<levels, orders, total, cur, at>> /\ pc = "publish"
      /\ pc' = AfterMatching(cur) /\ pc' \in {"rest", "done"}
  BY DEF MatchReturns, book, AfterMatching
<1>2. FilledComeFirst' /\ PromisedQueue' = PromisedQueue
  BY <1>1, FilledFrame, PromisedFrame DEF QueueInv
<1>3. LevelsOffer' /\ WalkIsBestFirst' /\ Taker' = Taker
  BY <1>1, OfferFrame DEF QueueInv, LevelsOffer, WalkIsBestFirst, Taker
<1>4. /\ CurSide \in Sides /\ cur.rem \in Nat /\ Taker.rem = cur.rem
      /\ Taker.type = cur.type /\ Promise!Other(Taker.side) = CurSide
  BY <1>1, CurSideType, TakerIs, OrderFields, OtherSide DEF IInv, CurSide
<1>5. cur.status = "FILLED" <=> cur.rem = 0
  BY <1>1 DEF OwnerInv, CurIsOpen
<1>6. Phase = "take" /\ Phase' = IF Taker.type = "LIMIT" /\ Taker.rem > 0 THEN "rest" ELSE "leave"
  BY <1>1, <1>4, <1>5 DEF Phase, AfterMatching
<1>7. ASSUME cur.rem # 0 PROVE Promise!Offers(CurSide) = {}
  <2>1. levels[CurSide] = {}
    BY <1>1, <1>4, <1>7 DEF IInv, RestDoesNotCross
  <2> QED BY <2>1, <1>4, OffersAre DEF LevelTotal
<1>8. Promise!Settle
  BY <1>2, <1>3, <1>4, <1>6, <1>7 DEF Promise!Settle
<1> QED BY <1>2, <1>3, <1>8 DEF QueueInv

LEMMA QueueReturn ==
    ASSUME IInv, QueueInv, Return
    PROVE  QueueInv' /\ Promise!Leave
<1>1. /\ UNCHANGED <<levels, orders, total>> /\ pc = "done" /\ pc' = "idle" /\ cur' = None
  BY DEF Return, book
<1>2. FilledComeFirst' /\ PromisedQueue' = PromisedQueue
  BY <1>1, FilledFrame, PromisedFrame DEF QueueInv
<1>3. LevelsOffer' /\ WalkIsBestFirst'
  BY <1>1, OfferFrame DEF QueueInv, LevelsOffer, WalkIsBestFirst
<1>4. Promise!Leave
  BY <1>1, <1>2 DEF Promise!Leave, Taker, Phase
<1> QED BY <1>2, <1>3, <1>4 DEF QueueInv

\* Between matches, a level that is written and stays has something to offer.
LEMMA OfferAfterWrite ==
    ASSUME TypeOK, LevelsOffer, ~Working, NEW s \in Sides, NEW p \in Prices, NEW q, NEW t,
           orders' = [orders EXCEPT ![s][p] = q],
           total' = [total EXCEPT ![s][p] = t],
           levels' \in [Sides -> SUBSET Prices],
           \A x \in Sides, r \in Prices :
               ~(x = s /\ r = p) => (r \in levels'[x] <=> r \in levels[x]),
           p \in levels'[s] => HasOffer(q) /\ t # 0
    PROVE  LevelsOffer'
<1> SUFFICES ASSUME NEW x \in Sides, NEW r \in levels'[x]
             PROVE  HasOffer(orders'[x][r]) /\ total'[x][r] # 0
  BY DEF LevelsOffer, HasOffer
<1>1. r \in Prices
  OBVIOUS
<1>2. CASE x = s /\ r = p
  <2>1. orders'[x][r] = q /\ total'[x][r] = t
    BY <1>2 DEF TypeOK
  <2> QED BY <2>1, <1>2
<1>3. CASE ~(x = s /\ r = p)
  <2>1. orders'[x][r] = orders[x][r] /\ total'[x][r] = total[x][r] /\ r \in levels[x]
    BY <1>1, <1>3 DEF TypeOK
  <2>2. total[x][r] \in Nat
    BY <1>1 DEF TypeOK
  <2> QED BY <2>1, <2>2 DEF LevelsOffer, Working
<1> QED BY <1>2, <1>3

LEMMA QueueRest ==
    ASSUME IInv, OwnerInv, QueueInv, RestOrder
    PROVE  QueueInv' /\ Promise!Rest
<1> DEFINE s == cur.side
           p == cur.price
           q == LevelOrders(s, p)
           q2 == Append(q, cur)
<1>1. /\ s \in Sides /\ p \in Prices /\ cur \in Orders(OrderIds)
      /\ q \in Seq(Orders(OrderIds))
      /\ levels' = [levels EXCEPT ![s] = @ \cup {p}]
      /\ orders' = [orders EXCEPT ![s][p] = q2]
  BY RestIsAppend
<1>2. PICK q3 \in Seq(Orders(OrderIds)), t \in Nat :
        /\ orders' = [orders EXCEPT ![s][p] = q3]
        /\ total' = [total EXCEPT ![s][p] = t]
        /\ Tally(q3, t)
  BY RestFacts
<1>3. /\ pc = "rest" /\ pc' = "done" /\ cur' = cur /\ ~Working
      /\ cur.rem > 0 /\ cur.rem \in Nat
  BY <1>1, OrderFields DEF RestOrder, Working, OwnerInv, CurIsOpen
<1>4. FilledUpTo(q, 0)
  BY <1>1, <1>3, AllLiveLevel
<1> DEFINE r == [id |-> Taker.id, rem |-> Taker.rem]
<1>5. /\ Taker.side = s /\ Taker.price = p /\ r = Resting(cur) /\ Taker' = Taker
  BY <1>3, TakerIs DEF Resting, Taker
<1> HIDE DEF s, p, q, q2, r
<1>6. FilledUpTo(q2, 0) /\ Live(q2) = Append(Live(q), r)
  BY <1>1, <1>3, <1>4, <1>5, LiveAppend DEF q2
<1>7. q2 = q3
  <2>1. orders'[s][p] = q2 /\ orders'[s][p] = q3
    BY <1>1, <1>2 DEF IInv, TypeOK
  <2> QED BY <2>1
<1>8. /\ levels' \in [Sides -> SUBSET Prices] /\ p \in levels'[s]
      /\ \A x \in Sides, y \in Prices :
            ~(x = s /\ y = p) => (y \in levels'[x] <=> y \in levels[x])
  BY <1>1 DEF IInv, TypeOK
<1>9. PromisedQueue' = [PromisedQueue EXCEPT ![s][p] = Live(q2)]
  <2>1. TypeOK /\ s \in Sides /\ p \in Prices /\ orders' = [orders EXCEPT ![s][p] = q2]
    BY <1>1 DEF IInv
  <2> QED BY <2>1, <1>8, PromisedAfterWrite
<1>10. PromisedQueue[s][p] = Live(q)
  BY <1>1 DEF PromisedQueue, q
<1>11. PromisedQueue' = [PromisedQueue EXCEPT ![s][p] = Append(@, r)]
  BY <1>6, <1>9, <1>10
<1>12. Promise!Rest
  BY <1>3, <1>5, <1>11 DEF Promise!Rest, Phase, r
<1>13. q2 \in Seq(Orders(OrderIds)) /\ DOMAIN q2 = 1 .. Len(q2) /\ Len(q2) \in Nat
       /\ \E i \in DOMAIN q2 : q2[i] = cur
  BY <1>1, AppendCases, RemType DEF q2
<1>14. HasOffer(q2) /\ t # 0
  <2>1. PICK i \in DOMAIN q2 : q2[i] = cur
    BY <1>13
  <2>2. q2[i].rem <= t
    BY <1>2, <1>7, <1>13, TallyBounds
  <2> QED BY <2>1, <2>2, <1>3 DEF HasOffer
<1>15. FilledComeFirst'
  <2>1. 0 \in 0 .. Len(q2)
    BY <1>13
  <2> QED BY <2>1, <1>1, <1>6, <1>8, FilledAfterWrite DEF IInv, QueueInv
<1>16. LevelsOffer'
  BY <1>1, <1>2, <1>3, <1>8, <1>14, OfferAfterWrite DEF IInv, QueueInv
<1>17. WalkIsBestFirst'
  BY <1>3 DEF WalkIsBestFirst
<1> QED BY <1>12, <1>15, <1>16, <1>17 DEF QueueInv

\* A total above zero is somebody's.
LEMMA TallyOffers ==
    ASSUME NEW q \in Seq(Orders(OrderIds)), NEW t \in Nat, Tally(q, t), FilledUpTo(q, 0)
    PROVE  HasOffer(q) <=> t # 0
<1>1. Len(q) \in Nat /\ DOMAIN q = 1 .. Len(q) /\ \A i \in DOMAIN q : q[i].rem \in Nat
  BY RemType
<1>2. PICK ss \in [0 .. Len(q) -> 0 .. t] : ss[0] = 0 /\ ss[Len(q)] = t
  BY DEF Tally, RunningTotals
<1>3. ASSUME t # 0 PROVE HasOffer(q)
  <2>1. Len(q) # 0
    BY <1>2, <1>3
  <2>2. 1 \in DOMAIN q /\ ~(1 <= 0)
    BY <2>1, <1>1
  <2>3. q[1].rem > 0
    BY <2>2, <1>1 DEF FilledUpTo
  <2> QED BY <2>2, <2>3 DEF HasOffer
<1>4. ASSUME HasOffer(q) PROVE t # 0
  <2>1. PICK i \in DOMAIN q : q[i].rem > 0
    BY <1>4 DEF HasOffer
  <2> QED BY <2>1, <1>1, TallyBounds
<1> QED BY <1>3, <1>4

LEMMA QueueCancel ==
    ASSUME IInv, OwnerInv, QueueInv, NEW id \in OrderIds, CancelResting(id) \/ CancelStale(id)
    PROVE  QueueInv' /\ (Promise!Withdraw \/ Unseen)
<1>1. PICK s \in Sides, p \in Prices, q \in Seq(Orders(OrderIds)), t \in Nat :
        /\ orders' = [orders EXCEPT ![s][p] = q]
        /\ CloseCancel(id, s, p, t)
        /\ Tally(q, t)
        /\ \/ q = LevelOrders(s, p) /\ t = LevelTotal(s, p)
           \/ /\ p \in levels[s]
              /\ t <= total[s][p]
              /\ \E i \in 1 .. Len(orders[s][p]) :
                    q = RemoveAt(orders[s][p], i) /\ orders[s][p][i].id = id
  BY CancelFacts
<1>2. /\ pc = "idle" /\ pc' = "idle" /\ cur' = cur /\ ~Working
      /\ total' = [total EXCEPT ![s][p] = t]
      /\ levels' = [levels EXCEPT ![s] = IF t = 0 THEN @ \ {p} ELSE @ \cup {p}]
  BY <1>1 DEF CancelResting, CancelStale, CloseCancel, Working
<1>3. cur = None
  BY <1>2 DEF IInv, TypeOK
<1>4. Taker = None /\ Taker' = Taker /\ Phase' = Phase
  BY <1>2, <1>3 DEF Taker, Phase
<1> DEFINE q1 == LevelOrders(s, p)
<1>5. q1 \in Seq(Orders(OrderIds)) /\ FilledUpTo(q1, 0)
  BY <1>2, AllLiveLevel, LevelType
<1>6. /\ FilledUpTo(q, 0)
      /\ Live(q) = Live(q1) \/ \E i \in DOMAIN Live(q1) : Live(q) = RemoveAt(Live(q1), i)
  <2>1. CASE q = q1
    BY <2>1, <1>5
  <2>2. CASE q # q1
    <3>1. q1 = orders[s][p] /\ \E i \in 1 .. Len(q1) : q = RemoveAt(q1, i)
      BY <2>2, <1>1 DEF LevelOrders
    <3> QED BY <3>1, <1>5, LiveWithdrawn
  <2> QED BY <2>1, <2>2
<1>7. PromisedQueue[s][p] = Live(q1)
  BY DEF PromisedQueue
<1> HIDE DEF q1
<1>8. /\ levels' \in [Sides -> SUBSET Prices] /\ (p \in levels'[s] <=> t # 0)
      /\ \A x \in Sides, y \in Prices :
            ~(x = s /\ y = p) => (y \in levels'[x] <=> y \in levels[x])
  BY <1>2 DEF IInv, TypeOK
<1>9. HasOffer(q) <=> t # 0
  BY <1>1, <1>6, TallyOffers
<1>10. Live(q) # <<>> <=> HasOffer(q)
  <2>1. 0 \in 0 .. Len(q)
    BY RemType
  <2> QED BY <2>1, <1>6, LiveIsOffer
<1>11. PromisedQueue' = [PromisedQueue EXCEPT ![s][p] = Live(q)]
  <2>1. p \in levels'[s] \/ Live(q) = <<>>
    BY <1>8, <1>9, <1>10
  <2>2. TypeOK /\ orders' = [orders EXCEPT ![s][p] = q]
    BY <1>1 DEF IInv
  <2> QED BY <2>1, <2>2, <1>8, PromisedAfterWrite
<1>12. PromisedQueue = [x \in Sides |-> [r \in Prices |-> PromisedQueue[x][r]]]
  BY DEF PromisedQueue
<1>13. Promise!Withdraw \/ Unseen
  <2>1. CASE Live(q) = Live(q1)
    <3>1. PromisedQueue' = PromisedQueue
      BY <2>1, <1>7, <1>11, <1>12
    <3> QED BY <3>1, <1>4 DEF Unseen
  <2>2. ASSUME NEW i \in DOMAIN Live(q1), Live(q) = RemoveAt(Live(q1), i)
        PROVE  Promise!Withdraw
    <3>1. PromisedQueue' = [PromisedQueue EXCEPT ![s][p] = Promise!RemoveAt(@, i)]
      BY <2>2, <1>7, <1>11, OtherSide
    <3>2. s \in DOMAIN PromisedQueue /\ i \in DOMAIN PromisedQueue[s][p]
      BY <2>2, <1>7, <1>12
    <3> QED BY <3>1, <3>2, <1>4 DEF Promise!Withdraw
  <2> QED BY <2>1, <2>2, <1>6
<1>14. FilledComeFirst'
  <2>1. 0 \in 0 .. Len(q)
    BY RemType
  <2> QED BY <2>1, <1>1, <1>6, <1>8, FilledAfterWrite DEF IInv, QueueInv
<1>15. LevelsOffer'
  BY <1>1, <1>2, <1>8, <1>9, OfferAfterWrite DEF IInv, QueueInv
<1>16. WalkIsBestFirst'
  BY <1>2 DEF WalkIsBestFirst
<1> QED BY <1>13, <1>14, <1>15, <1>16 DEF QueueInv

\* The orders a level's loop has been through are the filled ones.
LEMMA ScanIsFilled ==
    ASSUME IInv, FilledComeFirst, pc = "level", cur.rem > 0, NEW o,
           pos \in DOMAIN orders[CurSide][at], o = orders[CurSide][at][pos], o.rem > 0
    PROVE  /\ FilledUpTo(orders[CurSide][at], pos - 1)
           /\ pos - 1 \in 0 .. Len(orders[CurSide][at])
           /\ pos = Len(orders[CurSide][at]) => total[CurSide][at] = o.rem
<1> DEFINE q == orders[CurSide][at]
           t == total[CurSide][at]
<1>1. CurSide \in Sides /\ at \in levels[CurSide] /\ at \in Prices
  BY CurSideType DEF IInv, TypeOK, WalkLeavesNothing
<1>2. q \in Seq(Orders(OrderIds)) /\ t \in Nat
  BY <1>1, OrdersType DEF IInv
<1>3. PICK ss \in [0 .. Len(q) -> 0 .. t] : RunningTotals(q, t, ss) /\ ss[pos - 1] = 0
  BY DEF IInv, ScanLeavesNothing
<1>4. PICK k \in 0 .. Len(q) : FilledUpTo(q, k)
  BY <1>1 DEF FilledComeFirst
<1>5. q[pos].rem > 0 /\ pos \in DOMAIN q
  OBVIOUS
<1> HIDE DEF q, t
<1>6. /\ Len(q) \in Nat /\ DOMAIN q = 1 .. Len(q) /\ pos \in 1 .. Len(q)
      /\ \A i \in DOMAIN q : q[i].rem \in Nat
  BY <1>2, <1>5, RemType
<1>7. k < pos
  BY <1>4, <1>5, <1>6 DEF FilledUpTo
<1>8. ASSUME pos - 1 # 0 PROVE q[pos - 1].rem = 0
  <2>1. pos - 1 \in 1 .. Len(q) /\ (pos - 1) - 1 \in 0 .. Len(q) /\ pos - 1 \in 0 .. Len(q)
    BY <1>6, <1>8
  <2>2. ss[pos - 1] = ss[(pos - 1) - 1] + q[pos - 1].rem /\ ss[(pos - 1) - 1] \in 0 .. t
    BY <2>1, <1>3 DEF RunningTotals
  <2> QED BY <2>1, <2>2, <1>2, <1>3, <1>6
<1>9. ASSUME pos - 1 # 0 PROVE pos - 1 <= k
  <2>1. pos - 1 \in DOMAIN q
    BY <1>6, <1>9
  <2> QED BY <2>1, <1>4, <1>8, <1>9 DEF FilledUpTo
<1>10. k = pos - 1
  BY <1>6, <1>7, <1>9
<1>11. ASSUME pos = Len(q) PROVE t = q[pos].rem
  <2>1. ss[Len(q)] = t /\ ss[pos] = ss[pos - 1] + q[pos].rem
    BY <1>3, <1>6 DEF RunningTotals
  <2> QED BY <2>1, <1>3, <1>6, <1>11
<1> QED BY <1>4, <1>10, <1>11 DEF q, t

\* The level the walk is in is the best offer.
LEMMA WalkIsAtBest ==
    ASSUME IInv, FeedInv, QueueInv, pc = "level", cur.rem > 0, total[CurSide][at] > 0
    PROVE  Promise!Best(CurSide, at)
<1>1. CurSide \in Sides /\ at \in levels[CurSide] /\ at \in Prices /\ levels[CurSide] \subseteq Prices
  BY CurSideType DEF IInv, TypeOK, WalkLeavesNothing
<1>2. Promise!Offers(CurSide) = {p \in Prices : LevelTotal(CurSide, p) > 0}
  BY <1>1, OffersAre
<1>3. LevelTotal(CurSide, at) > 0
  BY <1>1 DEF LevelTotal
<1>4. ASSUME NEW p \in Prices, LevelTotal(CurSide, p) > 0 PROVE AtLeastAsGood(CurSide, at, p)
  <2>1. p \in levels[CurSide]
    BY <1>4 DEF LevelTotal
  <2>2. CASE p = at
    BY <2>2, <1>1, PricesAssumption DEF AtLeastAsGood
  <2>3. CASE p \in todo
    BY <2>3 DEF QueueInv, WalkIsBestFirst
  <2>4. CASE p \notin todo \cup {at}
    <3>1. PICK i \in DOMAIN updates : updates[i] = [price |-> p, total |-> 0]
      BY <2>1, <2>4 DEF IInv, WalkLeavesNothing
    <3>2. updates[i].total = LevelTotal(CurSide, p)
      BY <3>1 DEF FeedInv, UpdatesHold
    <3> QED BY <3>1, <3>2, <1>4
  <2> QED BY <2>2, <2>3, <2>4
<1> QED BY <1>1, <1>2, <1>3, <1>4, OtherSide DEF Promise!Best

LEMMA QueueMatchOrder ==
    ASSUME IInv, FeedInv, OwnerInv, QueueInv, MatchOrder
    PROVE  QueueInv' /\ Promise!Take
<1>1. PICK s \in Sides, p \in Prices, o \in Orders(OrderIds), m \in Orders(OrderIds),
           n \in Nat \ {0} :
        /\ s = CurSide /\ p = at /\ p \in levels[s]
        /\ pos \in DOMAIN orders[s][p] /\ o = orders[s][p][pos]
        /\ n <= o.rem /\ n <= cur.rem /\ m.id = o.id /\ m.rem = o.rem - n
        /\ cur' \in Orders(OrderIds) /\ cur'.id = cur.id /\ cur'.side = cur.side
        /\ cur'.type = cur.type /\ cur'.rem = cur.rem - n
        /\ orders' = [orders EXCEPT ![s][p][pos] = m]
        /\ total' = [total EXCEPT ![s][p] = @ - n]
  BY MatchedOrder
<1> DEFINE q == orders[s][p]
           q2 == [q EXCEPT ![pos] = m]
<1>2. /\ UNCHANGED <<levels, todo, at, pc>> /\ pc = "level" /\ cur \in Orders(OrderIds)
      /\ cur.rem \in Nat /\ o.rem \in Nat /\ m.rem \in Nat /\ cur.rem > 0 /\ o.rem > 0
  <2>1. UNCHANGED <<levels, todo, at, pc>> /\ pc = "level"
    BY DEF MatchOrder
  <2>2. cur \in Orders(OrderIds)
    BY <2>1, CurSideType DEF IInv
  <2>3. cur.rem \in Nat /\ o.rem \in Nat /\ m.rem \in Nat
    BY <2>2, OrderFields
  <2> QED BY <2>1, <2>2, <2>3, <1>1
<1>3. n = (IF o.rem < cur.rem THEN o.rem ELSE cur.rem) /\ cur'.price = cur.price
  <2> DEFINE n2 == MatchedQty(o, cur)
             left == o.rem - n2
  <2>1. n2 = (IF o.rem < cur.rem THEN o.rem ELSE cur.rem) /\ left \in Nat
        /\ n2 \in Nat /\ n2 <= cur.rem
    BY <1>2 DEF MatchedQty
  <2>2. cur' = Reduced(cur, n2, left)
    BY <1>1 DEF MatchOrder
  <2> HIDE DEF n2, left
  <2>3. cur'.rem = cur.rem - n2 /\ cur'.price = cur.price
    BY <2>1, <2>2, <1>2 DEF Reduced, Orders
  <2> QED BY <2>1, <2>3, <1>1, <1>2
<1>4. /\ FilledUpTo(q, pos - 1) /\ pos - 1 \in 0 .. Len(q) /\ (pos - 1) + 1 = pos
      /\ pos = Len(q) => total[s][p] = o.rem
  <2>1. FilledComeFirst /\ pos \in DOMAIN orders[CurSide][at] /\ o = orders[CurSide][at][pos]
    BY <1>1 DEF QueueInv
  <2>2. /\ FilledUpTo(orders[CurSide][at], pos - 1)
        /\ pos - 1 \in 0 .. Len(orders[CurSide][at])
        /\ pos = Len(orders[CurSide][at]) => total[CurSide][at] = o.rem
    BY <2>1, <1>2, ScanIsFilled
  <2>3. (pos - 1) + 1 = pos
    BY DEF IInv, TypeOK
  <2> QED BY <2>2, <2>3, <1>1
<1>5. q \in Seq(Orders(OrderIds)) /\ DOMAIN q = 1 .. Len(q) /\ Len(q) \in Nat
  BY OrdersType DEF IInv
<1> DEFINE k2 == IF m.rem = 0 THEN pos ELSE pos - 1
           k == pos - 1
<1>6. /\ q2 \in Seq(Orders(OrderIds)) /\ Len(q2) = Len(q)
      /\ FilledUpTo(q2, k2)
      /\ Head(Live(q)) = Resting(o)
      /\ Live(q2) = Promise!Served(Live(q), n)
  <2>1. /\ k \in 0 .. Len(q) /\ FilledUpTo(q, k) /\ k + 1 = pos /\ n \in Nat
        /\ n <= q[k + 1].rem /\ m.id = q[k + 1].id /\ m.rem = q[k + 1].rem - n
        /\ k + 1 \in DOMAIN q
    BY <1>1, <1>4
  <2> HIDE DEF k, q
  <2>2. LET q3 == [q EXCEPT ![k + 1] = m] IN
        /\ q3 \in Seq(Orders(OrderIds)) /\ Len(q3) = Len(q)
        /\ FilledUpTo(q3, IF m.rem = 0 THEN k + 1 ELSE k)
        /\ Head(Live(q)) = Resting(q[k + 1])
        /\ Live(q3) = Promise!Served(Live(q), n)
    BY <2>1, <1>5, LiveServed
  <2>3. [q EXCEPT ![k + 1] = m] = q2 /\ (IF m.rem = 0 THEN k + 1 ELSE k) = k2 /\ q[k + 1] = o
    BY <2>1, <1>1 DEF k, q
  <2> HIDE DEF q2, k2
  <2> QED BY <2>2, <2>3
<1>7. k2 \in 0 .. Len(q2)
  BY <1>1, <1>4, <1>5, <1>6
<1>8. orders' = [orders EXCEPT ![s][p] = q2]
  BY <1>1
<1>9. PromisedQueue[s][p] = Live(q)
  BY <1>1 DEF PromisedQueue, LevelOrders
<1>10. total[s][p] \in Nat /\ total[s][p] >= o.rem /\ total'[s][p] = total[s][p] - n
  <2>1. Tally(q, total[s][p]) /\ total[s][p] \in Nat
    BY <1>1 DEF IInv, LevelTotals, TypeOK
  <2>2. o.rem <= total[s][p]
    BY <2>1, <1>1, <1>5, TallyBounds
  <2>3. total'[s][p] = total[s][p] - n
    BY <1>1 DEF IInv, TypeOK
  <2> QED BY <2>1, <2>2, <2>3, <1>2
<1> HIDE DEF q, q2, k, k2
<1>11. /\ levels' \in [Sides -> SUBSET Prices] /\ p \in levels'[s]
       /\ \A x \in Sides, y \in Prices :
             ~(x = s /\ y = p) => (y \in levels'[x] <=> y \in levels[x])
  BY <1>1, <1>2 DEF IInv, TypeOK
<1>12. PromisedQueue' = [PromisedQueue EXCEPT ![s][p] = Live(q2)]
  <2>1. TypeOK
    BY DEF IInv
  <2> QED BY <2>1, <1>8, <1>11, PromisedAfterWrite
<1>13. FilledComeFirst'
  <2>1. TypeOK /\ FilledComeFirst
    BY DEF IInv, QueueInv
  <2> QED BY <2>1, <1>6, <1>7, <1>8, <1>11, FilledAfterWrite
<1>14. CurSide' = CurSide
  BY <1>1 DEF CurSide
<1>15. WalkIsBestFirst'
  BY <1>2, <1>14 DEF QueueInv, WalkIsBestFirst
<1>16. Owed' = Owed
  BY DEF MatchOrder, Owed
<1>17. HasOffer(q2) \/ total'[s][p] = 0
  <2>1. Live(q2) # <<>> <=> HasOffer(q2)
    BY <1>6, <1>7, LiveIsOffer
  <2>2. Live(q2) # <<>> <=> k2 < Len(q2)
    BY <1>6, <1>7, LiveIsOffer
  <2>3. k2 < Len(q) \/ total'[s][p] = 0
    <3>1. pos \in 1 .. Len(q) /\ (pos = Len(q) => total[s][p] = o.rem)
      BY <1>1, <1>4, <1>5 DEF q
    <3> QED BY <3>1, <1>1, <1>2, <1>5, <1>10 DEF k2
  <2> QED BY <2>1, <2>2, <2>3, <1>6
<1>18. LevelsOffer'
  <2> SUFFICES ASSUME NEW x \in Sides, NEW r \in levels'[x]
               PROVE  /\ total'[x][r] > 0 => HasOffer(orders'[x][r])
                      /\ total'[x][r] = 0 => /\ pc' \in {"match", "level"} /\ x = CurSide'
                                             /\ r \in Owed' \cup {at'}
    BY DEF LevelsOffer, HasOffer
  <2>1. r \in Prices /\ r \in levels[x]
    BY <1>2, <1>11
  <2>2. CASE x = s /\ r = p
    <3>1. orders'[x][r] = q2
      BY <2>2, <1>8 DEF IInv, TypeOK
    <3>2. pc' = "level" /\ x = CurSide' /\ r = at'
      BY <2>2, <1>1, <1>2, <1>14
    <3>3. total'[x][r] > 0 => total'[s][p] # 0
      BY <2>2, <1>10
    <3> QED BY <3>1, <3>2, <3>3, <1>17
  <2>3. CASE ~(x = s /\ r = p)
    <3>1. orders'[x][r] = orders[x][r]
      BY <2>1, <2>3, <1>8 DEF IInv, TypeOK
    <3>2. total'[x][r] = total[x][r]
      BY <2>1, <2>3, <1>1 DEF IInv, TypeOK
    <3> QED BY <3>1, <3>2, <2>1, <1>2, <1>14, <1>16 DEF QueueInv, LevelsOffer
  <2> QED BY <2>2, <2>3
<1>19. Promise!Best(s, p)
  <2>1. total[CurSide][at] > 0
    BY <1>1, <1>2, <1>10
  <2> QED BY <2>1, <1>1, <1>2, WalkIsAtBest
<1>20. /\ Phase = "take" /\ Phase' = Phase /\ Taker.rem = cur.rem
       /\ Promise!Other(Taker.side) = s
       /\ Taker' = [Taker EXCEPT !.rem = @ - n]
  <2>1. Taker = Taking(cur) /\ Taker.side = cur.side /\ Taker.rem = cur.rem
    BY <1>2, TakerIs
  <2>2. Taker' = Taking(cur')
    BY <1>1, NoneAssumption DEF Taker
  <2>3. Taking(cur') = [Taking(cur) EXCEPT !.rem = @ - n]
    BY <1>1, <1>3 DEF Taking
  <2>4. Phase = "take" /\ Phase' = Phase
    BY <1>2 DEF Phase
  <2> QED BY <2>1, <2>2, <2>3, <2>4, <1>1, OtherSide DEF CurSide
<1>21. Head(PromisedQueue[s][p]).rem = o.rem
  BY <1>6, <1>9 DEF Resting
<1>22. PromisedQueue' = [PromisedQueue EXCEPT ![s][p] = Promise!Served(@, n)]
  BY <1>6, <1>9, <1>12
<1>23. Promise!Take
  BY <1>2, <1>3, <1>19, <1>20, <1>21, <1>22 DEF Promise!Take
<1> QED BY <1>13, <1>15, <1>18, <1>23 DEF QueueInv

-----------------------------------------------------------------------------
(* Every step of the book is a step of the promise, or one clients do not  *)
(* see                                                                     *)

LEMMA PromiseStep ==
    ASSUME FreshOrders, IInv, FeedInv, OwnerInv, QueueInv, [Next]_vars
    PROVE  QueueInv' /\ (Promise!PTNext \/ Unseen)
<1>1. CASE Submit
  BY <1>1, QueueSubmit DEF Promise!PTNext
<1>2. CASE \E id \in OrderIds : CancelResting(id) \/ CancelStale(id)
  BY <1>2, QueueCancel DEF Promise!PTNext
<1>3. CASE MatchLevel
  BY <1>3, QueueMatchLevel
<1>4. CASE MatchOrder
  BY <1>4, QueueMatchOrder DEF Promise!PTNext
<1>5. CASE LevelDone
  BY <1>5, QueueLevelDone
<1>6. CASE MatchDone
  BY <1>6, QueueMatchDone
<1>7. CASE RemoveMarkedNode
  BY <1>7, QueueRemoveMarked
<1>8. CASE MatchReturns
  BY <1>8, QueueMatchReturns DEF Promise!PTNext
<1>9. CASE RestOrder
  BY <1>9, QueueRest DEF Promise!PTNext
<1>10. CASE Return
  BY <1>10, QueueReturn DEF Promise!PTNext
<1>11. CASE \/ ReportModified \/ PublishTrade \/ PublishLevelUpdate
            \/ (\E id \in OrderIds : CancelUnknown(id)) \/ UNCHANGED vars
  BY <1>11, QueueQuiet
<1> QED BY <1>1, <1>2, <1>3, <1>4, <1>5, <1>6, <1>7, <1>8, <1>9, <1>10, <1>11
        DEF Next, Cancel, Engine

LEMMA InitPromise ==
    ASSUME Init
    PROVE  QueueInv /\ Promise!PTInit
<1>1. levels = [s \in Sides |-> {}] /\ pc = "idle" /\ cur = None
  BY DEF Init
<1>2. QueueInv
  BY <1>1 DEF QueueInv, FilledComeFirst, LevelsOffer, WalkIsBestFirst
<1>3. \A s \in Sides, p \in Prices : Live(LevelOrders(s, p)) = <<>>
  BY <1>1, LiveOfEmpty DEF LevelOrders
<1>4. PromisedQueue = [s \in Sides |-> [p \in Prices |-> <<>>]]
  BY <1>3 DEF PromisedQueue
<1>5. Promise!PTInit
  BY <1>1, <1>4 DEF Promise!PTInit, Taker, Phase, Sides
<1> QED BY <1>2, <1>5

\* What a match knows of the levels it walks: filled orders come first, a
\* level without an offer is erased before the walk ends, and the walk visits
\* the best level first (BookSide::match_order, PriceLevel::match_order).
THEOREM PromiseInvariant ==
    ASSUME FreshOrders
    PROVE  Spec => []PromiseInv
<1>1. Init => QueueInv
  BY InitPromise
<1>2. IInv /\ FeedInv /\ OwnerInv /\ QueueInv /\ [Next]_vars => QueueInv'
  BY PromiseStep
<1>3. OwnerInv /\ QueueInv => PromiseInv
  BY DEF QueueInv, PromiseInv
<1> QED BY <1>1, <1>2, <1>3, OwnerInvariant, PTL DEF Spec

\* Price-time priority: OrderBook implements PriceTimeBook. Matching takes
\* from the head of the best price only, an order rests behind its equals,
\* and cancelling moves nobody (OrderBook, BookSide, PriceLevel and
\* MatchingEngine together).
THEOREM PriceTimePriorityCorrect ==
    ASSUME FreshOrders
    PROVE  Spec => PriceTimePriority
<1>1. Init => Promise!PTInit
  BY InitPromise
<1>2. PromiseInv => QueueInv /\ OwnerInv
  BY DEF QueueInv, PromiseInv
<1>3. IInv /\ FeedInv /\ OwnerInv /\ QueueInv /\ [Next]_vars =>
        [Promise!PTNext]_Promise!ptVars
  BY PromiseStep DEF Unseen, Promise!ptVars
<1> QED
  BY <1>1, <1>2, <1>3, OwnerInvariant, PromiseInvariant, PTL
  DEF Spec, PriceTimePriority, Promise!PTSafety

=============================================================================
