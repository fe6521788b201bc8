------------------------ MODULE HashedLinkedListProofs ------------------------
(***************************************************************************)
(* Proof that the lists of the price levels and the pool they share keep   *)
(* their promises, for any number of lists, ids and slots.  The properties *)
(* are inductive together and none of them is alone: the links are right   *)
(* because the map finds the node to unlink, the map because no slot is in *)
(* use twice.                                                              *)
(***************************************************************************)
EXTENDS HashedLinkedList, SequenceTheorems, TLAPS

ListInv == TypeOK /\ IterationIsQueue /\ BackwardIsQueue /\ FindsItsNode /\ SlotsConserved

-----------------------------------------------------------------------------
(* What the invariant says of one node                                     *)

LEMMA QueueType ==
    ASSUME TypeOK, NEW l \in Lists
    PROVE  /\ queue[l] \in Seq(Ids) /\ Len(queue[l]) \in Nat
           /\ DOMAIN queue[l] = 1 .. Len(queue[l])
           /\ \A n \in DOMAIN queue[l] : queue[l][n] \in Ids
<1>1. queue[l] \in Seq(Ids)
  BY DEF TypeOK
<1> QED BY <1>1, LenProperties, ElementOfSeq

LEMMA SlotsType ==
    ASSUME TypeOK
    PROVE  /\ slots \in Nat \ {0} /\ MaxSlots \in Nat \ {0} /\ 1 .. slots \subseteq Addresses
           /\ NodeBytes \in Nat \ {0} /\ PoolSize \in 1 .. MaxSlots
           /\ \A l \in Lists, i \in Ids :
                 nodeMap[l][i] \in 0 .. slots /\ (nodeMap[l][i] # Null => nodeMap[l][i] \in 1 .. slots)
BY SizesAssumption DEF TypeOK, Addresses, Null

\* A slot is the node of one id of one list.
LEMMA OneUser ==
    ASSUME TypeOK, SlotsConserved, NEW l \in Lists, NEW m \in Lists, NEW i \in Ids, NEW j \in Ids,
           nodeMap[l][i] # Null, nodeMap[l][i] = nodeMap[m][j]
    PROVE  l = m /\ i = j
<1>1. nodeMap[l][i] \in 1 .. slots
  BY SlotsType
<1> QED BY <1>1 DEF SlotsConserved, IsNodeOf

LEMMA NodeIs ==
    ASSUME ListInv, NEW l \in Lists, NEW n \in 1 .. Len(queue[l])
    PROVE  /\ Node(l, n) \in 1 .. slots /\ Node(l, n) \in Addresses /\ Node(l, n) # Null
           /\ id[Node(l, n)] = queue[l][n]
           /\ right[Node(l, n)] = IF n = Len(queue[l]) THEN Null ELSE Node(l, n + 1)
           /\ left[Node(l, n)] = IF n = 1 THEN Null ELSE Node(l, n - 1)
           /\ ~IsFree(Node(l, n))
           /\ front[l] = Node(l, 1) /\ back[l] = Node(l, Len(queue[l]))
<1>1. /\ Len(queue[l]) \in Nat /\ DOMAIN queue[l] = 1 .. Len(queue[l]) /\ queue[l][n] \in Ids
      /\ queue[l] # <<>>
  BY QueueType, EmptySeq DEF ListInv
<1>2. /\ Node(l, n) # Null /\ id[Node(l, n)] = queue[l][n]
      /\ right[Node(l, n)] = IF n = Len(queue[l]) THEN Null ELSE Node(l, n + 1)
      /\ left[Node(l, n)] = IF n = 1 THEN Null ELSE Node(l, n - 1)
  BY <1>1 DEF ListInv, IterationIsQueue, BackwardIsQueue
<1>3. Node(l, n) \in 1 .. slots
  BY <1>1, <1>2, SlotsType DEF ListInv, Node
<1>4. ~IsFree(Node(l, n))
  BY <1>1, <1>3 DEF ListInv, SlotsConserved, IsNodeOf, Node
<1>5. front[l] = Node(l, 1) /\ back[l] = Node(l, Len(queue[l]))
  BY <1>1 DEF ListInv, IterationIsQueue, BackwardIsQueue
<1> QED BY <1>2, <1>3, <1>4, <1>5, SlotsType DEF ListInv

LEMMA NodesDiffer ==
    ASSUME ListInv, NEW l \in Lists, NEW m \in Lists,
           NEW n \in 1 .. Len(queue[l]), NEW k \in 1 .. Len(queue[m]),
           Node(l, n) = Node(m, k)
    PROVE  l = m /\ n = k
<1>1. queue[l][n] \in Ids /\ queue[m][k] \in Ids /\ n \in DOMAIN queue[l] /\ k \in DOMAIN queue[m]
  BY QueueType DEF ListInv
<1>2. Node(l, n) # Null
  BY NodeIs
<1>3. l = m /\ queue[l][n] = queue[m][k]
  BY <1>1, <1>2, OneUser DEF ListInv, Node
<1> QED BY <1>1, <1>3 DEF ListInv, FindsItsNode

\* The map and the queue name the same ids.
LEMMA MapIsQueue ==
    ASSUME ListInv, NEW l \in Lists, NEW i \in Ids
    PROVE  HasId(l, i) <=> \E n \in 1 .. Len(queue[l]) : queue[l][n] = i
BY QueueType DEF ListInv, FindsItsNode

LEMMA EmptyIs ==
    ASSUME ListInv, NEW l \in Lists
    PROVE  /\ Empty(l) <=> queue[l] = <<>>
           /\ queue[l] = <<>> <=> Len(queue[l]) = 0
           /\ front[l] = Null <=> queue[l] = <<>>
<1>1. /\ queue[l] \in Seq(Ids) /\ Len(queue[l]) \in Nat /\ DOMAIN queue[l] = 1 .. Len(queue[l])
      /\ \A n \in DOMAIN queue[l] : queue[l][n] \in Ids
  BY QueueType DEF ListInv
<1>2. queue[l] = <<>> <=> Len(queue[l]) = 0
  BY <1>1, EmptySeq
<1>3. CASE queue[l] = <<>>
  <2>1. \A i \in Ids : ~HasId(l, i)
    BY <1>1, <1>2, <1>3, MapIsQueue
  <2> QED BY <2>1, <1>2, <1>3 DEF Empty, HasId, ListInv, IterationIsQueue
<1>4. CASE queue[l] # <<>>
  <2>1. 1 \in 1 .. Len(queue[l])
    BY <1>1, <1>2, <1>4
  <2>2. Node(l, 1) # Null /\ front[l] = Node(l, 1)
    BY <2>1, NodeIs
  <2> QED BY <2>1, <2>2, <1>1, <1>2, <1>4 DEF Empty, Node
<1> QED BY <1>3, <1>4

-----------------------------------------------------------------------------
(* Removing a node                                                         *)

LEMMA RemoveAtFacts ==
    ASSUME NEW S, NEW q \in Seq(S), NEW i \in 1 .. Len(q)
    PROVE  /\ RemoveAt(q, i) \in Seq(S)
           /\ Len(RemoveAt(q, i)) = Len(q) - 1
           /\ \A j \in 1 .. Len(q) - 1 :
                 RemoveAt(q, i)[j] = IF j < i THEN q[j] ELSE q[j + 1]
<1> DEFINE a == SubSeq(q, 1, i - 1)
           b == SubSeq(q, i + 1, Len(q))
<1>1. a \in Seq(S) /\ Len(a) = i - 1 /\ \A j \in 1 .. i - 1 : a[j] = q[j]
  BY SubSeqProperties
<1>2. b \in Seq(S) /\ Len(b) = Len(q) - i /\ \A j \in 1 .. Len(q) - i : b[j] = q[i + j]
  BY SubSeqProperties
<1>3. RemoveAt(q, i) = a \o b
  BY DEF RemoveAt
<1> HIDE DEF a, b
<1>4. /\ a \o b \in Seq(S) /\ Len(a \o b) = Len(a) + Len(b)
      /\ \A j \in 1 .. Len(a) + Len(b) :
            (a \o b)[j] = IF j <= Len(a) THEN a[j] ELSE b[j - Len(a)]
  BY <1>1, <1>2, ConcatProperties
<1>5. Len(q) \in Nat
  BY LenProperties
<1>6. ASSUME NEW j \in 1 .. Len(q) - 1
      PROVE  (a \o b)[j] = IF j < i THEN q[j] ELSE q[j + 1]
  <2>1. CASE j < i
    BY <2>1, <1>1, <1>2, <1>4, <1>5
  <2>2. CASE ~(j < i)
    <3> DEFINE k == j - Len(a)
    <3>1. /\ k \in 1 .. Len(q) - i /\ i + k = j + 1 /\ ~(j <= Len(a))
          /\ j \in 1 .. Len(a) + Len(b)
      BY <2>2, <1>1, <1>2, <1>5
    <3>2. (a \o b)[j] = b[k]
      BY <3>1, <1>4
    <3>3. b[k] = q[i + k]
      BY <3>1, <1>2
    <3> QED BY <3>1, <3>2, <3>3, <2>2
  <2> QED BY <2>1, <2>2
<1> QED BY <1>1, <1>2, <1>3, <1>4, <1>5, <1>6

\* What every way to remove node a, number n of list l, comes to.
Unlinked(l, n, a) ==
    /\ n \in 1 .. Len(queue[l]) /\ a = Node(l, n)
    /\ queue' = [queue EXCEPT ![l] = RemoveAt(@, n)]
    /\ front' = [front EXCEPT ![l] = IF n = 1 THEN right[a] ELSE @]
    /\ back' = [back EXCEPT ![l] = IF n = Len(queue[l]) THEN left[a] ELSE @]
    /\ nodeMap' = [nodeMap EXCEPT ![l][queue[l][n]] = Null]
    /\ id' = [id EXCEPT ![a] = None]
    /\ left' = [x \in Addresses |->
            IF x = a THEN Null ELSE IF x = right[a] THEN left[a] ELSE left[x]]
    /\ right' = [x \in Addresses |->
            IF x = a THEN Null ELSE IF x = left[a] THEN right[a] ELSE right[x]]
    /\ free' = Append(free, a) /\ UNCHANGED <<slots, poolSize>>

LEMMA LinksType ==
    ASSUME TypeOK
    PROVE  /\ left \in [Addresses -> 0 .. slots] /\ right \in [Addresses -> 0 .. slots]
           /\ front \in [Lists -> 0 .. slots] /\ back \in [Lists -> 0 .. slots]
           /\ id \in [Addresses -> Ids \cup {None}]
           /\ nodeMap \in [Lists -> [Ids -> 0 .. slots]]
           /\ queue \in [Lists -> Seq(Ids)] /\ free \in Seq(1 .. slots)
           /\ Null \notin Addresses
BY SizesAssumption DEF TypeOK, Addresses, Null

\* A place in a sequence that is not its last, or not its first, has a neighbour.
LEMMA Neighbours ==
    ASSUME NEW k \in Nat, NEW n \in 1 .. k
    PROVE  (n # k => n + 1 \in 1 .. k) /\ (n # 1 => n - 1 \in 1 .. k)
OBVIOUS

LEMMA Ends ==
    ASSUME NEW k \in Nat, k # 0
    PROVE  1 \in 1 .. k /\ k \in 1 .. k
OBVIOUS

LEMMA UnlinkFront ==
    ASSUME ListInv, NEW l \in Lists, NEW n \in 1 .. Len(queue[l]), n = 1, PopFront(l),
           queue' = [queue EXCEPT ![l] = RemoveAt(@, n)]
    PROVE  Unlinked(l, n, Node(l, n))
<1> DEFINE a == Node(l, n)
           b == right[a]
<1>1. TypeOK
  BY DEF ListInv
<1>2. /\ a \in Addresses /\ a # Null /\ a = front[l] /\ id[a] = queue[l][n] /\ left[a] = Null
      /\ b = IF n = Len(queue[l]) THEN Null ELSE Node(l, n + 1)
  BY NodeIs
<1>3. Len(queue[l]) \in Nat
  BY <1>1, QueueType
<1>4. n = Len(queue[l]) <=> b = Null
  <2>1. CASE n # Len(queue[l])
    <3>1. n + 1 \in 1 .. Len(queue[l])
      BY <2>1, <1>3, Neighbours
    <3> QED BY <2>1, <3>1, <1>2, NodeIs
  <2> QED BY <2>1, <1>2
<1>5. b \in 0 .. slots /\ (b # Null => b \in Addresses)
  BY <1>1, <1>2, LinksType, SlotsType DEF Null
<1> HIDE DEF a, b
<1>6. /\ front' = [front EXCEPT ![l] = b]
      /\ back' = IF b = Null THEN [back EXCEPT ![l] = Null] ELSE back
      /\ nodeMap' = [nodeMap EXCEPT ![l][queue[l][n]] = Null]
      /\ free' = Append(free, a) /\ UNCHANGED <<slots, poolSize>>
      /\ id' = [id EXCEPT ![a] = None]
      /\ left' = [(IF b = Null THEN left ELSE [left EXCEPT ![b] = Null]) EXCEPT ![a] = Null]
      /\ right' = [right EXCEPT ![a] = Null]
  BY <1>2 DEF PopFront, Deallocate, Erased, Freed, b
<1>7. back' = [back EXCEPT ![l] = IF n = Len(queue[l]) THEN left[a] ELSE @]
  BY <1>1, <1>2, <1>4, <1>6, LinksType
<1>8. left' = [x \in Addresses |-> IF x = a THEN Null ELSE IF x = right[a] THEN left[a] ELSE left[x]]
  BY <1>1, <1>2, <1>5, <1>6, LinksType DEF b
<1>9. right' = [x \in Addresses |-> IF x = a THEN Null ELSE IF x = left[a] THEN right[a] ELSE right[x]]
  BY <1>1, <1>2, <1>6, LinksType
<1>10. front' = [front EXCEPT ![l] = IF n = 1 THEN right[a] ELSE @]
  BY <1>6 DEF b
<1>11. a = Node(l, n)
  BY DEF a
<1> QED BY <1>6, <1>7, <1>8, <1>9, <1>10, <1>11 DEF Unlinked

LEMMA UnlinkBack ==
    ASSUME ListInv, NEW l \in Lists, NEW n \in 1 .. Len(queue[l]), n # 1, n = Len(queue[l]),
           PopBack(l), queue' = [queue EXCEPT ![l] = RemoveAt(@, n)]
    PROVE  Unlinked(l, n, Node(l, n))
<1> DEFINE a == Node(l, n)
           b == left[a]
<1>1. TypeOK
  BY DEF ListInv
<1>2. /\ a \in Addresses /\ a = back[l] /\ id[a] = queue[l][n] /\ right[a] = Null
      /\ b = Node(l, n - 1)
  BY NodeIs
<1>3. b \in Addresses /\ b # Null
  <2>1. n - 1 \in 1 .. Len(queue[l])
    BY <1>1, QueueType, Neighbours
  <2> QED BY <2>1, <1>2, NodeIs
<1> HIDE DEF a, b
<1>4. /\ back' = [back EXCEPT ![l] = b] /\ front' = front
      /\ nodeMap' = [nodeMap EXCEPT ![l][queue[l][n]] = Null]
      /\ free' = Append(free, a) /\ UNCHANGED <<slots, poolSize>>
      /\ id' = [id EXCEPT ![a] = None]
      /\ left' = [left EXCEPT ![a] = Null]
      /\ right' = [[right EXCEPT ![b] = Null] EXCEPT ![a] = Null]
  BY <1>2, <1>3 DEF PopBack, Deallocate, Erased, Freed, b
<1>5. front' = [front EXCEPT ![l] = IF n = 1 THEN right[a] ELSE @]
  BY <1>1, <1>4, LinksType
<1>6. left' = [x \in Addresses |-> IF x = a THEN Null ELSE IF x = right[a] THEN left[a] ELSE left[x]]
  BY <1>1, <1>2, <1>4, LinksType
<1>7. right' = [x \in Addresses |-> IF x = a THEN Null ELSE IF x = left[a] THEN right[a] ELSE right[x]]
  BY <1>1, <1>2, <1>3, <1>4, LinksType DEF b
<1>8. back' = [back EXCEPT ![l] = IF n = Len(queue[l]) THEN left[a] ELSE @]
  BY <1>4 DEF b
<1>9. a = Node(l, n)
  BY DEF a
<1> QED BY <1>4, <1>5, <1>6, <1>7, <1>8, <1>9 DEF Unlinked

LEMMA UnlinkMiddle ==
    ASSUME ListInv, NEW l \in Lists, NEW n \in 1 .. Len(queue[l]), n # 1, n # Len(queue[l]),
           PopMiddle(l, Node(l, n)), queue' = [queue EXCEPT ![l] = RemoveAt(@, n)]
    PROVE  Unlinked(l, n, Node(l, n))
<1> DEFINE a == Node(l, n)
           b == left[a]
           c == right[a]
<1>1. TypeOK
  BY DEF ListInv
<1>2. a \in Addresses /\ id[a] = queue[l][n] /\ b = Node(l, n - 1) /\ c = Node(l, n + 1)
  BY NodeIs
<1>3. b \in Addresses /\ c \in Addresses
  <2>1. n - 1 \in 1 .. Len(queue[l]) /\ n + 1 \in 1 .. Len(queue[l])
    BY <1>1, QueueType, Neighbours
  <2> QED BY <2>1, <1>2, NodeIs
<1> HIDE DEF a, b, c
<1>4. /\ UNCHANGED <<front, back>>
      /\ nodeMap' = [nodeMap EXCEPT ![l][queue[l][n]] = Null]
      /\ free' = Append(free, a) /\ UNCHANGED <<slots, poolSize>>
      /\ id' = [id EXCEPT ![a] = None]
      /\ left' = [[left EXCEPT ![c] = b] EXCEPT ![a] = Null]
      /\ right' = [[right EXCEPT ![b] = c] EXCEPT ![a] = Null]
  BY <1>2 DEF PopMiddle, Deallocate, Erased, Freed, Bypassed, a, b, c
<1>5. /\ front' = [front EXCEPT ![l] = IF n = 1 THEN right[a] ELSE @]
      /\ back' = [back EXCEPT ![l] = IF n = Len(queue[l]) THEN left[a] ELSE @]
  BY <1>1, <1>4, LinksType
<1>6. left' = [x \in Addresses |-> IF x = a THEN Null ELSE IF x = c THEN b ELSE left[x]]
  BY <1>1, <1>2, <1>3, <1>4, LinksType
<1>7. right' = [x \in Addresses |-> IF x = a THEN Null ELSE IF x = b THEN c ELSE right[x]]
  BY <1>1, <1>2, <1>3, <1>4, LinksType
<1> QED BY <1>4, <1>5, <1>6, <1>7 DEF Unlinked, a, b, c


\* Node number j of list m once number n of list l is gone.
OldPlace(l, n, m, j) == IF m = l /\ j >= n THEN j + 1 ELSE j

LEMMA UnlinkedQueue ==
    ASSUME ListInv, NEW l \in Lists, NEW n, NEW a, Unlinked(l, n, a), NEW m \in Lists
    PROVE  /\ queue'[m] \in Seq(Ids)
           /\ Len(queue'[m]) = IF m = l THEN Len(queue[m]) - 1 ELSE Len(queue[m])
           /\ DOMAIN queue'[m] = 1 .. Len(queue'[m])
           /\ \A j \in 1 .. Len(queue'[m]) :
                 /\ OldPlace(l, n, m, j) \in 1 .. Len(queue[m])
                 /\ ~(m = l /\ OldPlace(l, n, m, j) = n)
                 /\ queue'[m][j] = queue[m][OldPlace(l, n, m, j)]
<1>1. TypeOK /\ n \in 1 .. Len(queue[l]) /\ queue' = [queue EXCEPT ![l] = RemoveAt(@, n)]
  BY DEF ListInv, Unlinked
<1>2. queue[l] \in Seq(Ids) /\ queue[m] \in Seq(Ids) /\ Len(queue[m]) \in Nat
  BY <1>1, QueueType
<1>3. /\ RemoveAt(queue[l], n) \in Seq(Ids) /\ Len(RemoveAt(queue[l], n)) = Len(queue[l]) - 1
      /\ \A j \in 1 .. Len(queue[l]) - 1 :
            RemoveAt(queue[l], n)[j] = IF j < n THEN queue[l][j] ELSE queue[l][j + 1]
  BY <1>1, <1>2, RemoveAtFacts
<1>4. queue'[m] = IF m = l THEN RemoveAt(queue[l], n) ELSE queue[m]
  BY <1>1, LinksType
<1>5. CASE m = l
  <2>1. queue'[m] = RemoveAt(queue[l], n)
    BY <1>4, <1>5
  <2>2. n \in Nat /\ Len(queue[l]) \in Nat /\ DOMAIN queue'[m] = 1 .. Len(queue[l]) - 1
    BY <1>1, <1>2, <1>3, <2>1, LenProperties
  <2>3. ASSUME NEW j \in 1 .. Len(queue[l]) - 1
        PROVE  /\ OldPlace(l, n, m, j) \in 1 .. Len(queue[m])
               /\ OldPlace(l, n, m, j) # n
               /\ queue'[m][j] = queue[m][OldPlace(l, n, m, j)]
    BY <1>1, <1>3, <1>5, <2>1, <2>2 DEF OldPlace
  <2> QED BY <1>3, <1>5, <2>1, <2>2, <2>3
<1>6. CASE m # l
  BY <1>1, <1>2, <1>4, <1>6, LenProperties DEF OldPlace
<1> QED BY <1>5, <1>6

LEMMA UnlinkedNodes ==
    ASSUME ListInv, NEW l \in Lists, NEW n, NEW a, Unlinked(l, n, a), NEW m \in Lists,
           NEW j \in 1 .. Len(queue'[m])
    PROVE  /\ nodeMap'[m][queue'[m][j]] = Node(m, OldPlace(l, n, m, j))
           /\ Node(m, OldPlace(l, n, m, j)) # a
<1> DEFINE k == OldPlace(l, n, m, j)
<1>1. k \in 1 .. Len(queue[m]) /\ ~(m = l /\ k = n) /\ queue'[m][j] = queue[m][k]
  BY UnlinkedQueue
<1>2. TypeOK /\ n \in 1 .. Len(queue[l]) /\ a = Node(l, n)
      /\ nodeMap' = [nodeMap EXCEPT ![l][queue[l][n]] = Null]
  BY DEF ListInv, Unlinked
<1> HIDE DEF k
<1>3. queue[m][k] \in Ids /\ queue[l][n] \in Ids /\ k \in DOMAIN queue[m] /\ n \in DOMAIN queue[l]
  BY <1>1, <1>2, QueueType
<1>4. ~(m = l /\ queue[m][k] = queue[l][n])
  BY <1>1, <1>3 DEF ListInv, FindsItsNode
<1>5. nodeMap'[m][queue[m][k]] = nodeMap[m][queue[m][k]]
  BY <1>2, <1>3, <1>4, LinksType
<1>6. Node(m, k) # a
  BY <1>1, <1>2, NodesDiffer
<1> QED BY <1>1, <1>5, <1>6 DEF Node, k


LEMMA UnlinkedType ==
    ASSUME ListInv, NEW l \in Lists, NEW n, NEW a, Unlinked(l, n, a)
    PROVE  TypeOK'
<1>1. TypeOK /\ n \in 1 .. Len(queue[l]) /\ a = Node(l, n)
  BY DEF ListInv, Unlinked
<1>2. a \in 1 .. slots /\ a \in Addresses
  BY <1>1, NodeIs
<1>3. slots' \in Addresses /\ poolSize' \in Nat /\ slots' = slots
  BY <1>1 DEF TypeOK, Unlinked
<1>4. id' \in [Addresses -> Ids \cup {None}]
  BY <1>1, LinksType DEF Unlinked
<1>5. left[a] \in 0 .. slots /\ right[a] \in 0 .. slots /\ Null \in 0 .. slots
  BY <1>1, <1>2, LinksType, SlotsType DEF Null
<1>6. left' \in [Addresses -> 0 .. slots] /\ right' \in [Addresses -> 0 .. slots]
  BY <1>1, <1>5, LinksType DEF Unlinked
<1>7. front' \in [Lists -> 0 .. slots] /\ back' \in [Lists -> 0 .. slots]
  BY <1>1, <1>5, LinksType DEF Unlinked
<1>8. nodeMap' \in [Lists -> [Ids -> 0 .. slots]]
  BY <1>1, <1>5, LinksType DEF Unlinked
<1>9. free' \in Seq(1 .. slots)
  <2>1. free \in Seq(1 .. slots) /\ free' = Append(free, a)
    BY <1>1, LinksType DEF Unlinked
  <2> QED BY <1>2, <2>1, AppendProperties
<1>10. queue' \in [Lists -> Seq(Ids)]
  <2>1. queue' = [m \in Lists |-> queue'[m]]
    BY <1>1, LinksType DEF Unlinked
  <2>2. \A m \in Lists : queue'[m] \in Seq(Ids)
    BY UnlinkedQueue
  <2> QED BY <2>1, <2>2
<1> QED BY <1>3, <1>4, <1>6, <1>7, <1>8, <1>9, <1>10 DEF TypeOK

LEMMA UnlinkedFinds ==
    ASSUME ListInv, NEW l \in Lists, NEW n, NEW a, Unlinked(l, n, a)
    PROVE  FindsItsNode'
<1>1. TypeOK /\ n \in 1 .. Len(queue[l]) /\ a = Node(l, n)
      /\ nodeMap' = [nodeMap EXCEPT ![l][queue[l][n]] = Null]
  BY DEF ListInv, Unlinked
<1>2. ASSUME NEW m \in Lists, NEW j \in DOMAIN queue'[m], NEW k \in DOMAIN queue'[m],
             queue'[m][j] = queue'[m][k]
      PROVE  j = k
  <2>1. j \in 1 .. Len(queue'[m]) /\ k \in 1 .. Len(queue'[m])
    BY UnlinkedQueue
  <2>2. Node(m, OldPlace(l, n, m, j)) = Node(m, OldPlace(l, n, m, k))
    BY <1>2, <2>1, UnlinkedNodes
  <2>3. /\ OldPlace(l, n, m, j) \in 1 .. Len(queue[m]) /\ OldPlace(l, n, m, k) \in 1 .. Len(queue[m])
        /\ Len(queue'[m]) \in Int
    BY <1>1, <2>1, UnlinkedQueue, QueueType
  <2>4. OldPlace(l, n, m, j) = OldPlace(l, n, m, k)
    BY <2>2, <2>3, NodesDiffer
  <2>5. n \in Int /\ j \in Int /\ k \in Int
    BY <1>1, <2>1
  <2> QED BY <2>4, <2>5 DEF OldPlace
<1>3. ASSUME NEW m \in Lists, NEW i \in Ids
      PROVE  HasId(m, i)' <=> \E j \in DOMAIN queue'[m] : queue'[m][j] = i
  <2>1. queue[l][n] \in Ids
    BY <1>1, QueueType
  <2>2. nodeMap'[m][i] = IF m = l /\ i = queue[l][n] THEN Null ELSE nodeMap[m][i]
    BY <1>1, <2>1, LinksType
  <2>3. ASSUME NEW j \in DOMAIN queue'[m], queue'[m][j] = i
        PROVE  nodeMap'[m][i] # Null
    <3>1. j \in 1 .. Len(queue'[m])
      BY UnlinkedQueue
    <3>2. nodeMap'[m][i] = Node(m, OldPlace(l, n, m, j)) /\ OldPlace(l, n, m, j) \in 1 .. Len(queue[m])
      BY <2>3, <3>1, UnlinkedNodes, UnlinkedQueue
    <3> QED BY <3>2, NodeIs
  <2>4. ASSUME nodeMap'[m][i] # Null
        PROVE  \E j \in DOMAIN queue'[m] : queue'[m][j] = i
    <3>1. HasId(m, i) /\ ~(m = l /\ i = queue[l][n])
      BY <2>2, <2>4 DEF HasId
    <3>2. PICK k \in 1 .. Len(queue[m]) : queue[m][k] = i
      BY <3>1, MapIsQueue
    <3>3. ~(m = l /\ k = n)
      BY <3>1, <3>2
    <3>4. Len(queue[m]) \in Nat /\ n \in Int /\ k \in Int
      BY <1>1, QueueType
    <3> DEFINE j == IF m = l /\ k > n THEN k - 1 ELSE k
    <3>5. /\ Len(queue'[m]) = IF m = l THEN Len(queue[m]) - 1 ELSE Len(queue[m])
          /\ DOMAIN queue'[m] = 1 .. Len(queue'[m])
      BY UnlinkedQueue
    <3>6. j \in 1 .. Len(queue'[m]) /\ OldPlace(l, n, m, j) = k
      <4>1. CASE m = l
        BY <1>1, <3>2, <3>3, <3>4, <3>5, <4>1 DEF OldPlace
      <4>2. CASE m # l
        BY <3>2, <3>5, <4>2 DEF OldPlace
      <4> QED BY <4>1, <4>2
    <3> HIDE DEF j
    <3>7. queue'[m][j] = i
      BY <3>2, <3>6, UnlinkedQueue
    <3> QED BY <3>5, <3>6, <3>7
  <2> QED BY <2>3, <2>4 DEF HasId
<1> QED BY <1>2, <1>3 DEF FindsItsNode

LEMMA UnlinkedSlots ==
    ASSUME ListInv, NEW l \in Lists, NEW n, NEW a, Unlinked(l, n, a)
    PROVE  SlotsConserved'
<1>1. TypeOK /\ n \in 1 .. Len(queue[l]) /\ a = Node(l, n) /\ free' = Append(free, a)
      /\ nodeMap' = [nodeMap EXCEPT ![l][queue[l][n]] = Null] /\ slots' = slots
  BY DEF ListInv, Unlinked
<1>2. a \in 1 .. slots /\ a # Null /\ ~IsFree(a)
  BY <1>1, NodeIs
<1>3. queue[l][n] \in Ids /\ nodeMap[l][queue[l][n]] = a
  BY <1>1, QueueType DEF Node
<1>4. free \in Seq(1 .. slots)
  BY <1>1, LinksType
<1>5. /\ DOMAIN free = 1 .. Len(free) /\ Len(free) \in Nat /\ Len(free') = Len(free) + 1
      /\ DOMAIN free' = 1 .. Len(free) + 1 /\ free'[Len(free) + 1] = a
      /\ \A k \in 1 .. Len(free) : free'[k] = free[k]
  <2>1. free' \in Seq(1 .. slots) /\ Len(free') = Len(free) + 1
    BY <1>1, <1>2, <1>4, AppendProperties
  <2> QED BY <1>1, <1>2, <1>4, <2>1, AppendProperties, LenProperties
<1>6. \A m \in Lists, i \in Ids :
        nodeMap'[m][i] = IF m = l /\ i = queue[l][n] THEN Null ELSE nodeMap[m][i]
  BY <1>1, <1>3, LinksType
<1>7. \A j, k \in DOMAIN free' : free'[j] = free'[k] => j = k
  BY <1>2, <1>5 DEF IsFree, ListInv, SlotsConserved
<1>8. ASSUME NEW b \in 1 .. slots
      PROVE  IsFree(b)' <=> (b = a \/ IsFree(b))
  BY <1>5 DEF IsFree
<1>9. ASSUME NEW b \in 1 .. slots, NEW m \in Lists, NEW i \in Ids
      PROVE  IsNodeOf(b, m, i)' <=> (IsNodeOf(b, m, i) /\ b # a)
  <2>1. b # Null
    BY DEF Null
  <2>2. CASE m = l /\ i = queue[l][n]
    BY <1>3, <1>6, <2>1, <2>2 DEF IsNodeOf
  <2>3. CASE ~(m = l /\ i = queue[l][n])
    <3>1. nodeMap[m][i] # a
      BY <1>1, <1>2, <1>3, <2>3, OneUser DEF ListInv
    <3> QED BY <1>6, <2>3, <3>1 DEF IsNodeOf
  <2> QED BY <2>2, <2>3
<1>10. ASSUME NEW b \in 1 .. slots
       PROVE  /\ IsFree(b)' <=> \A m \in Lists, i \in Ids : ~IsNodeOf(b, m, i)'
              /\ \A k, m \in Lists, i, j \in Ids :
                    IsNodeOf(b, k, i)' /\ IsNodeOf(b, m, j)' => k = m /\ i = j
  BY <1>8, <1>9 DEF ListInv, SlotsConserved
<1> QED BY <1>1, <1>7, <1>10 DEF SlotsConserved


\* The links of the nodes that stay, in terms of where they were.
LEMMA UnlinkedLinks ==
    ASSUME ListInv, NEW l \in Lists, NEW n, NEW a, Unlinked(l, n, a), NEW m \in Lists,
           NEW k \in 1 .. Len(queue[m]), ~(m = l /\ k = n)
    PROVE  /\ id'[Node(m, k)] = queue[m][k]
           /\ right'[Node(m, k)] =
                 IF m = l /\ k = n - 1 THEN IF n = Len(queue[l]) THEN Null ELSE Node(l, n + 1)
                 ELSE IF k = Len(queue[m]) THEN Null ELSE Node(m, k + 1)
           /\ left'[Node(m, k)] =
                 IF m = l /\ k = n + 1 THEN IF n = 1 THEN Null ELSE Node(l, n - 1)
                 ELSE IF k = 1 THEN Null ELSE Node(m, k - 1)
<1> DEFINE x == Node(m, k)
<1>1. TypeOK /\ n \in 1 .. Len(queue[l]) /\ a = Node(l, n)
  BY DEF ListInv, Unlinked
<1>2. /\ x \in Addresses /\ x # Null /\ id[x] = queue[m][k]
      /\ right[x] = IF k = Len(queue[m]) THEN Null ELSE Node(m, k + 1)
      /\ left[x] = IF k = 1 THEN Null ELSE Node(m, k - 1)
  BY NodeIs
<1>3. /\ a \in Addresses
      /\ right[a] = IF n = Len(queue[l]) THEN Null ELSE Node(l, n + 1)
      /\ left[a] = IF n = 1 THEN Null ELSE Node(l, n - 1)
  BY <1>1, NodeIs
<1>4. x # a
  BY <1>1, NodesDiffer
<1>5. Len(queue[l]) \in Nat /\ Len(queue[m]) \in Nat /\ n \in Int /\ k \in Int
  BY <1>1, QueueType
<1>6. x = left[a] <=> m = l /\ k = n - 1
  <2>1. CASE n = 1
    BY <1>2, <1>3, <1>5, <2>1
  <2>2. CASE n # 1
    <3>1. n - 1 \in 1 .. Len(queue[l])
      BY <1>1, <1>5, <2>2, Neighbours
    <3>2. left[a] = Node(l, n - 1)
      BY <1>3, <2>2
    <3>3. x = Node(l, n - 1) => m = l /\ k = n - 1
      BY <3>1, NodesDiffer
    <3> QED BY <3>2, <3>3
  <2> QED BY <2>1, <2>2
<1>7. x = right[a] <=> m = l /\ k = n + 1
  <2>1. CASE n = Len(queue[l])
    BY <1>2, <1>3, <1>5, <2>1
  <2>2. CASE n # Len(queue[l])
    <3>1. n + 1 \in 1 .. Len(queue[l])
      BY <1>1, <1>5, <2>2, Neighbours
    <3>2. right[a] = Node(l, n + 1)
      BY <1>3, <2>2
    <3>3. x = Node(l, n + 1) => m = l /\ k = n + 1
      BY <3>1, NodesDiffer
    <3> QED BY <3>2, <3>3
  <2> QED BY <2>1, <2>2
<1> HIDE DEF x
<1>8. id'[x] = id[x]
  BY <1>1, <1>2, <1>4, LinksType DEF Unlinked
<1>9. right'[x] = IF x = left[a] THEN right[a] ELSE right[x]
  BY <1>2, <1>4 DEF Unlinked
<1>10. left'[x] = IF x = right[a] THEN left[a] ELSE left[x]
  BY <1>2, <1>4 DEF Unlinked
<1>11. /\ id'[x] = queue[m][k]
       /\ right'[x] =
             IF m = l /\ k = n - 1 THEN IF n = Len(queue[l]) THEN Null ELSE Node(l, n + 1)
             ELSE IF k = Len(queue[m]) THEN Null ELSE Node(m, k + 1)
       /\ left'[x] =
             IF m = l /\ k = n + 1 THEN IF n = 1 THEN Null ELSE Node(l, n - 1)
             ELSE IF k = 1 THEN Null ELSE Node(m, k - 1)
  BY <1>2, <1>3, <1>6, <1>7, <1>8, <1>9, <1>10
<1> QED BY <1>11 DEF x

LEMMA UnlinkedIterates ==
    ASSUME ListInv, NEW l \in Lists, NEW n, NEW a, Unlinked(l, n, a)
    PROVE  IterationIsQueue' /\ BackwardIsQueue'
<1> DEFINE Old(m, j) == OldPlace(l, n, m, j)
<1>1. TypeOK /\ n \in 1 .. Len(queue[l]) /\ a = Node(l, n)
  BY DEF ListInv, Unlinked
<1> SUFFICES ASSUME NEW m \in Lists
             PROVE  /\ front'[m] = IF queue'[m] = <<>> THEN Null ELSE Node(m, 1)'
                    /\ back'[m] = IF queue'[m] = <<>> THEN Null ELSE nodeMap'[m][queue'[m][Len(queue'[m])]]
                    /\ \A j \in DOMAIN queue'[m] :
                        /\ nodeMap'[m][queue'[m][j]] # Null
                        /\ id'[nodeMap'[m][queue'[m][j]]] = queue'[m][j]
                        /\ right'[nodeMap'[m][queue'[m][j]]] =
                             IF j = Len(queue'[m]) THEN Null ELSE nodeMap'[m][queue'[m][j + 1]]
                        /\ left'[nodeMap'[m][queue'[m][j]]] =
                             IF j = 1 THEN Null ELSE nodeMap'[m][queue'[m][j - 1]]
  BY DEF IterationIsQueue, BackwardIsQueue, Node
<1>2. /\ Len(queue'[m]) = IF m = l THEN Len(queue[m]) - 1 ELSE Len(queue[m])
      /\ DOMAIN queue'[m] = 1 .. Len(queue'[m]) /\ queue'[m] \in Seq(Ids)
      /\ Len(queue[m]) \in Nat /\ Len(queue[l]) \in Nat /\ n \in Int
      /\ Len(queue'[m]) \in Nat
  BY <1>1, UnlinkedQueue, QueueType, LenProperties
<1>3. queue'[m] = <<>> <=> Len(queue'[m]) = 0
  BY <1>2, EmptySeq
<1>4. ASSUME NEW j \in 1 .. Len(queue'[m])
      PROVE  /\ Old(m, j) \in 1 .. Len(queue[m]) /\ ~(m = l /\ Old(m, j) = n)
             /\ queue'[m][j] = queue[m][Old(m, j)]
             /\ nodeMap'[m][queue'[m][j]] = Node(m, Old(m, j))
  BY UnlinkedQueue, UnlinkedNodes
<1>5. front'[m] = IF queue'[m] = <<>> THEN Null ELSE nodeMap'[m][queue'[m][1]]
  <2>1. front'[m] = IF m = l /\ n = 1 THEN right[a] ELSE front[m]
    BY <1>1, LinksType DEF Unlinked
  <2>2. CASE Len(queue'[m]) = 0
    <3>1. CASE m = l
      <4>1. n = 1 /\ n = Len(queue[l])
        BY <1>1, <1>2, <2>2, <3>1
      <4>2. right[a] = Null
        BY <1>1, <4>1, NodeIs
      <4> QED BY <1>3, <2>1, <2>2, <3>1, <4>1, <4>2
    <3>2. CASE m # l
      <4>1. queue[m] = <<>>
        BY <1>2, <2>2, <3>2, EmptyIs
      <4> QED BY <1>3, <2>1, <2>2, <3>2, <4>1, EmptyIs
    <3> QED BY <3>1, <3>2
  <2>3. CASE Len(queue'[m]) # 0
    <3> Len(queue[m]) # 0
      BY <1>2, <2>3
    <3>1. 1 \in 1 .. Len(queue'[m]) /\ 1 \in 1 .. Len(queue[m])
      BY <1>2, <2>3, Ends
    <3>2. front[m] = Node(m, 1)
      BY <3>1, NodeIs
    <3>3. nodeMap'[m][queue'[m][1]] = Node(m, Old(m, 1))
      BY <3>1, <1>4
    <3>4. CASE m = l /\ n = 1
      <4>1. Old(m, 1) = 2 /\ n # Len(queue[l])
        BY <1>2, <2>3, <3>4 DEF OldPlace
      <4>2. right[a] = Node(l, n + 1)
        BY <1>1, <4>1, NodeIs
      <4> QED BY <1>3, <2>1, <2>3, <3>3, <3>4, <4>1, <4>2
    <3>5. CASE ~(m = l /\ n = 1)
      <4>1. Old(m, 1) = 1
        BY <1>1, <3>5 DEF OldPlace
      <4> QED BY <1>3, <2>1, <2>3, <3>2, <3>3, <3>5, <4>1
    <3> QED BY <3>4, <3>5
  <2> QED BY <2>2, <2>3
<1>6. back'[m] = IF queue'[m] = <<>> THEN Null ELSE nodeMap'[m][queue'[m][Len(queue'[m])]]
  <2>1. back'[m] = IF m = l /\ n = Len(queue[l]) THEN left[a] ELSE back[m]
    BY <1>1, LinksType DEF Unlinked
  <2>2. CASE Len(queue'[m]) = 0
    <3>1. CASE m = l
      <4>1. n = 1 /\ n = Len(queue[l])
        BY <1>1, <1>2, <2>2, <3>1
      <4>2. left[a] = Null
        BY <1>1, <4>1, NodeIs
      <4> QED BY <1>3, <2>1, <2>2, <3>1, <4>1, <4>2
    <3>2. CASE m # l
      <4>1. queue[m] = <<>>
        BY <1>2, <2>2, <3>2, EmptyIs
      <4> QED BY <1>3, <2>1, <2>2, <3>2, <4>1 DEF ListInv, BackwardIsQueue
    <3> QED BY <3>1, <3>2
  <2>3. CASE Len(queue'[m]) # 0
    <3> Len(queue[m]) # 0
      BY <1>2, <2>3
    <3>1. Len(queue'[m]) \in 1 .. Len(queue'[m]) /\ Len(queue[m]) \in 1 .. Len(queue[m])
      BY <1>2, <2>3, Ends
    <3>2. back[m] = Node(m, Len(queue[m]))
      BY <3>1, NodeIs
    <3>3. nodeMap'[m][queue'[m][Len(queue'[m])]] = Node(m, Old(m, Len(queue'[m])))
      BY <3>1, <1>4
    <3>4. CASE m = l /\ n = Len(queue[l])
      <4>1. Old(m, Len(queue'[m])) = n - 1 /\ n # 1
        BY <1>2, <2>3, <3>4 DEF OldPlace
      <4>2. left[a] = Node(l, n - 1)
        BY <1>1, <4>1, NodeIs
      <4> QED BY <1>3, <2>1, <2>3, <3>3, <3>4, <4>1, <4>2
    <3>5. CASE ~(m = l /\ n = Len(queue[l]))
      <4>1. Old(m, Len(queue'[m])) = Len(queue[m])
        BY <1>1, <1>2, <3>5 DEF OldPlace
      <4> QED BY <1>3, <2>1, <2>3, <3>2, <3>3, <3>5, <4>1
    <3> QED BY <3>4, <3>5
  <2> QED BY <2>2, <2>3
<1>7. ASSUME NEW j \in 1 .. Len(queue'[m])
      PROVE  /\ nodeMap'[m][queue'[m][j]] # Null
             /\ id'[nodeMap'[m][queue'[m][j]]] = queue'[m][j]
             /\ right'[nodeMap'[m][queue'[m][j]]] =
                  IF j = Len(queue'[m]) THEN Null ELSE nodeMap'[m][queue'[m][j + 1]]
             /\ left'[nodeMap'[m][queue'[m][j]]] =
                  IF j = 1 THEN Null ELSE nodeMap'[m][queue'[m][j - 1]]
  <2> DEFINE k == Old(m, j)
  <2>1. /\ k \in 1 .. Len(queue[m]) /\ ~(m = l /\ k = n)
        /\ queue'[m][j] = queue[m][k] /\ nodeMap'[m][queue'[m][j]] = Node(m, k)
    BY <1>4
  <2>2. /\ id'[Node(m, k)] = queue[m][k]
        /\ right'[Node(m, k)] =
              IF m = l /\ k = n - 1 THEN IF n = Len(queue[l]) THEN Null ELSE Node(l, n + 1)
              ELSE IF k = Len(queue[m]) THEN Null ELSE Node(m, k + 1)
        /\ left'[Node(m, k)] =
              IF m = l /\ k = n + 1 THEN IF n = 1 THEN Null ELSE Node(l, n - 1)
              ELSE IF k = 1 THEN Null ELSE Node(m, k - 1)
    BY <2>1, UnlinkedLinks
  <2>3. Node(m, k) # Null
    BY <2>1, NodeIs
  <2>4. right'[Node(m, k)] = IF j = Len(queue'[m]) THEN Null ELSE nodeMap'[m][queue'[m][j + 1]]
    <3>1. CASE j = Len(queue'[m])
      <4>1. IF m = l /\ k = n - 1 THEN n = Len(queue[l]) ELSE k = Len(queue[m])
        BY <1>1, <1>2, <3>1 DEF OldPlace
      <4> QED BY <2>2, <3>1, <4>1
    <3>2. CASE j # Len(queue'[m])
      <4>1. j + 1 \in 1 .. Len(queue'[m])
        BY <1>2, <3>2, Neighbours
      <4>2. nodeMap'[m][queue'[m][j + 1]] = Node(m, Old(m, j + 1))
        BY <4>1, <1>4
      <4>3. IF m = l /\ k = n - 1 THEN n # Len(queue[l]) /\ Old(m, j + 1) = n + 1
            ELSE k # Len(queue[m]) /\ Old(m, j + 1) = k + 1
        BY <1>1, <1>2, <3>2, <4>1 DEF OldPlace
      <4> HIDE DEF k
      <4> QED BY <2>2, <3>2, <4>2, <4>3
    <3> QED BY <3>1, <3>2
  <2>5. left'[Node(m, k)] = IF j = 1 THEN Null ELSE nodeMap'[m][queue'[m][j - 1]]
    <3>1. CASE j = 1
      <4>1. IF m = l /\ k = n + 1 THEN n = 1 ELSE k = 1
        BY <1>1, <1>2, <3>1 DEF OldPlace
      <4> QED BY <2>2, <3>1, <4>1
    <3>2. CASE j # 1
      <4>1. j - 1 \in 1 .. Len(queue'[m])
        BY <1>2, <3>2, Neighbours
      <4>2. nodeMap'[m][queue'[m][j - 1]] = Node(m, Old(m, j - 1))
        BY <4>1, <1>4
      <4>3. IF m = l /\ k = n + 1 THEN n # 1 /\ Old(m, j - 1) = n - 1
            ELSE k # 1 /\ Old(m, j - 1) = k - 1
        BY <1>1, <1>2, <3>2, <4>1 DEF OldPlace
      <4> HIDE DEF k
      <4> QED BY <2>2, <3>2, <4>2, <4>3
    <3> QED BY <3>1, <3>2
  <2> HIDE DEF k
  <2> QED BY <2>1, <2>2, <2>3, <2>4, <2>5
<1> QED BY <1>2, <1>5, <1>6, <1>7 DEF Node

LEMMA UnlinkedInv ==
    ASSUME ListInv, NEW l \in Lists, NEW n, NEW a, Unlinked(l, n, a)
    PROVE  ListInv'
BY UnlinkedType, UnlinkedIterates, UnlinkedFinds, UnlinkedSlots DEF ListInv


LEMMA RemoveIdInv ==
    ASSUME ListInv, NEW l \in Lists, NEW i \in Ids, RemoveId(l, i)
    PROVE  ListInv'
<1>1. PICK n \in DOMAIN queue[l] : queue[l][n] = i /\ queue' = [queue EXCEPT ![l] = RemoveAt(@, n)]
  BY DEF RemoveId
<1>2. n \in 1 .. Len(queue[l]) /\ Len(queue[l]) \in Nat
  BY QueueType DEF ListInv
<1>3. nodeMap[l][i] = Node(l, n) /\ RemoveNode(l, Node(l, n))
  BY <1>1 DEF RemoveId, Node
<1>4. front[l] = Node(l, 1) /\ back[l] = Node(l, Len(queue[l]))
  BY <1>2, NodeIs
<1>5. 1 \in 1 .. Len(queue[l]) /\ Len(queue[l]) \in 1 .. Len(queue[l])
  BY <1>2
<1>6. (Node(l, n) = front[l] <=> n = 1) /\ (Node(l, n) = back[l] <=> n = Len(queue[l]))
  BY <1>2, <1>4, <1>5, NodesDiffer
<1>7. Unlinked(l, n, Node(l, n))
  <2>1. CASE Node(l, n) = front[l] /\ PopFront(l)
    BY <1>1, <1>2, <1>6, <2>1, UnlinkFront
  <2>2. CASE Node(l, n) # front[l] /\ Node(l, n) = back[l] /\ PopBack(l)
    BY <1>1, <1>2, <1>6, <2>2, UnlinkBack
  <2>3. CASE Node(l, n) \notin {front[l], back[l]} /\ PopMiddle(l, Node(l, n))
    BY <1>1, <1>2, <1>6, <2>3, UnlinkMiddle
  <2> QED BY <1>3, <2>1, <2>2, <2>3 DEF RemoveNode
<1> QED BY <1>7, UnlinkedInv

LEMMA PopInv ==
    ASSUME ListInv, NEW l \in Lists, Pop(l)
    PROVE  ListInv'
<1>1. queue[l] \in Seq(Ids) /\ Len(queue[l]) \in Nat /\ TypeOK
  BY QueueType DEF ListInv
<1>2. Len(queue[l]) # 0
  BY EmptyIs DEF Pop
<1>3. 1 \in 1 .. Len(queue[l])
  BY <1>1, <1>2, Ends
<1>4. Tail(queue[l]) = RemoveAt(queue[l], 1)
  <2>1. queue[l] # <<>>
    BY <1>2, EmptyIs
  <2>2. /\ Tail(queue[l]) \in Seq(Ids) /\ Len(Tail(queue[l])) = Len(queue[l]) - 1
        /\ \A j \in 1 .. Len(Tail(queue[l])) : Tail(queue[l])[j] = queue[l][j + 1]
    BY <1>1, <2>1, HeadTailProperties
  <2>3. /\ RemoveAt(queue[l], 1) \in Seq(Ids) /\ Len(RemoveAt(queue[l], 1)) = Len(queue[l]) - 1
        /\ \A j \in 1 .. Len(queue[l]) - 1 : RemoveAt(queue[l], 1)[j] = queue[l][j + 1]
    BY <1>1, <1>3, RemoveAtFacts
  <2> QED BY <2>2, <2>3, SeqEqual
<1>5. queue' = [queue EXCEPT ![l] = RemoveAt(@, 1)] /\ PopFront(l)
  BY <1>4 DEF Pop
<1>6. Unlinked(l, 1, Node(l, 1))
  BY <1>3, <1>5, UnlinkFront
<1> QED BY <1>6, UnlinkedInv

-----------------------------------------------------------------------------
(* Pushing an id                                                           *)

\* Allocating hands out a slot that is nobody's: the last free one, after the
\* pool has grown if it had to.
LEMMA AllocateFacts ==
    ASSUME TypeOK, SlotsConserved, NEW a, Allocate(a)
    PROVE  /\ slots' \in Addresses /\ slots <= slots' /\ poolSize' \in Nat
           /\ free' \in Seq(1 .. slots')
           /\ a \in 1 .. slots' /\ (a > slots \/ IsFree(a))
           /\ \A j, k \in DOMAIN free' : free'[j] = free'[k] => j = k
           /\ \A b \in 1 .. slots' : IsFree(b)' <=> b # a /\ (b > slots \/ IsFree(b))
<1> DEFINE g == Growth
           w == NewSlots(g)
           f == free \o w
<1>0. PICK top, rest : top = slots' /\ rest = free'
  OBVIOUS
<1>1. /\ free \in Seq(1 .. slots) /\ Len(free) \in Nat /\ DOMAIN free = 1 .. Len(free)
      /\ \A k \in 1 .. Len(free) : free[k] \in 1 .. slots
  <2>1. free \in Seq(1 .. slots)
    BY LinksType
  <2> QED BY <2>1, LenProperties, ElementOfSeq
<1>2. slots \in Nat \ {0} /\ poolSize \in Nat /\ NodeBytes \in Nat \ {0} /\ MaxSlots \in Nat
  BY SlotsType DEF TypeOK
<1>3. g \in Nat /\ Len(free) + g # 0
  BY <1>1, <1>2 DEF Growth, Expands, Max2
<1>4. top = slots + g /\ top <= MaxSlots /\ a = Last(f) /\ rest = Front(f)
  BY <1>0 DEF Allocate
<1>5. poolSize' \in Nat
  BY <1>2, <1>3 DEF Allocate
<1> HIDE DEF g
<1>6. w \in Seq(1 .. top) /\ Len(w) = g /\ \A k \in 1 .. g : w[k] = slots + k
  <2>1. \A k \in 1 .. g : slots + k \in 1 .. top
    BY <1>2, <1>3, <1>4
  <2> QED BY <1>3, <2>1, IsASeq, LenProperties DEF NewSlots
<1> HIDE DEF w
<1>7. free \in Seq(1 .. top)
  <2>1. 1 .. slots \subseteq 1 .. top
    BY <1>2, <1>3, <1>4
  <2> QED BY <1>1, <2>1, SeqMonotonic
<1>8. /\ f \in Seq(1 .. top) /\ Len(f) = Len(free) + g
      /\ \A k \in 1 .. Len(free) + g :
            f[k] = IF k <= Len(free) THEN free[k] ELSE w[k - Len(free)]
  BY <1>6, <1>7, ConcatProperties
<1> HIDE DEF f
<1>9. \A k \in 1 .. Len(f) : f[k] = IF k <= Len(free) THEN free[k] ELSE slots + (k - Len(free))
  <2> SUFFICES ASSUME NEW k \in 1 .. Len(f)
               PROVE  f[k] = IF k <= Len(free) THEN free[k] ELSE slots + (k - Len(free))
    OBVIOUS
  <2>1. CASE k <= Len(free)
    BY <1>8, <2>1
  <2>2. CASE ~(k <= Len(free))
    <3>1. k - Len(free) \in 1 .. g
      BY <1>1, <1>3, <1>8, <2>2
    <3> QED BY <1>6, <1>8, <2>2, <3>1
  <2> QED BY <2>1, <2>2
<1>10. Len(f) \in Nat \ {0}
  BY <1>1, <1>3, <1>8
<1>11. \A j, k \in 1 .. Len(f) : f[j] = f[k] => j = k
  <2>1. ASSUME NEW k \in 1 .. Len(f)
        PROVE  f[k] <= slots <=> k <= Len(free)
    <3>1. CASE k <= Len(free)
      BY <1>1, <1>2, <1>9, <3>1
    <3>2. CASE ~(k <= Len(free))
      <4>1. f[k] = slots + (k - Len(free))
        BY <1>9, <3>2
      <4>2. k \in Int /\ Len(free) \in Int /\ slots \in Int
        BY <1>1, <1>2, <1>10
      <4> QED BY <3>2, <4>1, <4>2
    <3> QED BY <3>1, <3>2
  <2>2. ASSUME NEW j \in 1 .. Len(f), NEW k \in 1 .. Len(f), f[j] = f[k],
               j <= Len(free), k <= Len(free)
        PROVE  j = k
    <3>1. j \in DOMAIN free /\ k \in DOMAIN free /\ free[j] = free[k]
      BY <1>1, <1>9, <2>2
    <3> QED BY <3>1 DEF SlotsConserved
  <2>3. ASSUME NEW j \in 1 .. Len(f), NEW k \in 1 .. Len(f), f[j] = f[k],
               ~(j <= Len(free)), ~(k <= Len(free))
        PROVE  j = k
    <3>1. slots + (k - Len(free)) = slots + (j - Len(free))
      BY <1>9, <2>3
    <3> QED BY <1>1, <1>2, <1>10, <3>1
  <2> QED BY <2>1, <2>2, <2>3
<1>12. \A b \in 1 .. top : (\E k \in 1 .. Len(f) : f[k] = b) <=> (b > slots \/ IsFree(b))
  <2> SUFFICES ASSUME NEW b \in 1 .. top
               PROVE  (\E k \in 1 .. Len(f) : f[k] = b) <=> (b > slots \/ IsFree(b))
    OBVIOUS
  <2>1. ASSUME NEW k \in 1 .. Len(f), f[k] = b
        PROVE  b > slots \/ IsFree(b)
    <3>1. CASE k <= Len(free)
      BY <1>1, <1>9, <2>1, <3>1 DEF IsFree
    <3>2. CASE ~(k <= Len(free))
      <4>1. b = slots + (k - Len(free))
        BY <1>9, <2>1, <3>2
      <4> QED BY <1>1, <1>2, <1>10, <3>2, <4>1
    <3> QED BY <3>1, <3>2
  <2>2. ASSUME b > slots
        PROVE  \E k \in 1 .. Len(f) : f[k] = b
    <3> DEFINE k == Len(free) + (b - slots)
    <3>1. k \in 1 .. Len(f) /\ ~(k <= Len(free)) /\ slots + (k - Len(free)) = b
      BY <1>1, <1>2, <1>3, <1>4, <1>8, <2>2
    <3> HIDE DEF k
    <3> QED BY <1>9, <3>1
  <2>3. ASSUME IsFree(b)
        PROVE  \E k \in 1 .. Len(f) : f[k] = b
    <3>1. PICK k \in 1 .. Len(free) : free[k] = b
      BY <1>1, <2>3 DEF IsFree
    <3>2. k \in 1 .. Len(f) /\ k <= Len(free)
      BY <1>1, <1>3, <1>8
    <3> QED BY <1>9, <3>1, <3>2
  <2> QED BY <2>1, <2>2, <2>3
<1>13. a = f[Len(f)]
  BY <1>4 DEF Last
<1>14. /\ rest \in Seq(1 .. top) /\ Len(rest) = Len(f) - 1
       /\ \A k \in 1 .. Len(f) - 1 : rest[k] = f[k]
  <2>1. rest = SubSeq(f, 1, Len(f) - 1)
    BY <1>4 DEF Front
  <2>2. 1 \in 1 .. Len(f) + 1 /\ Len(f) - 1 \in 0 .. Len(f)
    BY <1>10
  <2>3. \A k \in 1 .. Len(f) : f[k] \in 1 .. top
    BY <1>8, ElementOfSeq
  <2> DEFINE h == Len(f) - 1
  <2>4. h \in Nat /\ \A k \in 1 .. h : f[k] \in 1 .. top
    BY <1>10, <2>3
  <2>5. rest = SubSeq(f, 1, h)
    BY <2>1
  <2> HIDE DEF h
  <2>6. /\ rest \in Seq(1 .. top) /\ Len(rest) = IF 1 <= h THEN h - 1 + 1 ELSE 0
        /\ \A k \in 1 .. h - 1 + 1 : rest[k] = f[1 + k - 1]
    BY <2>4, <2>5, SubSeqProperties
  <2>7. /\ rest \in Seq(1 .. top) /\ Len(rest) = h
        /\ \A k \in 1 .. h : rest[k] = f[k]
    BY <2>4, <2>6
  <2> QED BY <2>7 DEF h
<1>15. DOMAIN rest = 1 .. Len(f) - 1
  BY <1>14, LenProperties
<1>16. a \in 1 .. top /\ Len(f) \in 1 .. Len(f)
  <2>1. Len(f) \in 1 .. Len(f)
    BY <1>10
  <2> QED BY <1>8, <1>13, <2>1, ElementOfSeq
<1>17. a > slots \/ IsFree(a)
  BY <1>12, <1>13, <1>16
<1>18. \A j, k \in DOMAIN rest : rest[j] = rest[k] => j = k
  BY <1>10, <1>11, <1>14, <1>15
<1>19. ASSUME NEW b \in 1 .. top
       PROVE  IsFree(b)' <=> b # a /\ (b > slots \/ IsFree(b))
  <2>1. IsFree(b)' <=> \E k \in 1 .. Len(f) - 1 : f[k] = b
    BY <1>0, <1>14, <1>15 DEF IsFree
  <2>2. ASSUME NEW k \in 1 .. Len(f) - 1
        PROVE  k \in 1 .. Len(f) /\ f[k] # a
    BY <1>10, <1>11, <1>13
  <2>3. ASSUME NEW k \in 1 .. Len(f), f[k] = b, b # a
        PROVE  k \in 1 .. Len(f) - 1
    BY <1>10, <1>13, <2>3
  <2> QED BY <1>12, <2>1, <2>2, <2>3
<1>20. top \in Addresses /\ slots <= top
  BY <1>2, <1>3, <1>4 DEF Addresses
<1> QED BY <1>0, <1>5, <1>14, <1>16, <1>17, <1>18, <1>19, <1>20


\* The slot that Push takes is the node of no id.
LEMMA PushNode ==
    ASSUME ListInv, NEW a, Allocate(a), NEW m \in Lists, NEW i \in Ids
    PROVE  nodeMap[m][i] # a
<1>1. TypeOK /\ SlotsConserved
  BY DEF ListInv
<1>2. a \in 1 .. slots' /\ (a > slots \/ IsFree(a)) /\ slots' \in Nat /\ slots \in Nat
  BY <1>1, AllocateFacts, SlotsType DEF Addresses
<1>3. nodeMap[m][i] \in 0 .. slots
  BY <1>1, SlotsType
<1>4. CASE a > slots
  BY <1>2, <1>3, <1>4
<1>5. CASE ~(a > slots)
  BY <1>1, <1>2, <1>5 DEF SlotsConserved, IsNodeOf
<1> QED BY <1>4, <1>5

\* What Push does, with the slot a that it takes.
Pushed(l, i, a) ==
    /\ ~HasId(l, i) /\ Allocate(a)
    /\ id' = [id EXCEPT ![a] = i]
    /\ left' = [left EXCEPT ![a] = LeftOfNew(l)]
    /\ right' = [x \in Addresses |->
            IF x = a THEN Null ELSE IF ~Empty(l) /\ x = back[l] THEN a ELSE right[x]]
    /\ front' = IF Empty(l) THEN [front EXCEPT ![l] = a] ELSE front
    /\ back' = [back EXCEPT ![l] = a]
    /\ nodeMap' = [nodeMap EXCEPT ![l][i] = a]
    /\ queue' = [queue EXCEPT ![l] = Append(@, i)]

LEMMA PushedSlot ==
    ASSUME ListInv, NEW l \in Lists, NEW i \in Ids, NEW a, Pushed(l, i, a)
    PROVE  /\ a \in 1 .. slots' /\ a \in Addresses /\ a # Null
           /\ slots' \in Addresses /\ slots \in Nat /\ slots <= slots' /\ Len(queue[l]) \in Nat
           /\ \A m \in Lists, j \in Ids :
                 nodeMap'[m][j] = IF m = l /\ j = i THEN a ELSE nodeMap[m][j]
<1>1. TypeOK /\ SlotsConserved /\ Allocate(a) /\ nodeMap' = [nodeMap EXCEPT ![l][i] = a]
  BY DEF ListInv, Pushed
<1>2. a \in 1 .. slots' /\ slots' \in Addresses /\ slots <= slots'
  BY <1>1, AllocateFacts
<1>3. MaxSlots \in Nat
  BY <1>1, SlotsType
<1>4. \A m \in Lists, j \in Ids : nodeMap'[m][j] = IF m = l /\ j = i THEN a ELSE nodeMap[m][j]
  BY <1>1, LinksType
<1> QED BY <1>1, <1>2, <1>3, <1>4, SlotsType, QueueType DEF Addresses, Null

LEMMA PushedQueue ==
    ASSUME ListInv, NEW l \in Lists, NEW i \in Ids, NEW a, Pushed(l, i, a), NEW m \in Lists
    PROVE  /\ queue'[m] \in Seq(Ids) /\ Len(queue[m]) \in Nat
           /\ Len(queue'[m]) = IF m = l THEN Len(queue[m]) + 1 ELSE Len(queue[m])
           /\ DOMAIN queue'[m] = 1 .. Len(queue'[m])
           /\ \A k \in 1 .. Len(queue[m]) :
                 /\ queue'[m][k] = queue[m][k]
                 /\ nodeMap'[m][queue'[m][k]] = Node(m, k)
                 /\ Node(m, k) # a /\ ~(m = l /\ queue[m][k] = i)
           /\ m = l => /\ queue'[m][Len(queue[m]) + 1] = i
                       /\ nodeMap'[m][queue'[m][Len(queue[m]) + 1]] = a
<1>1. TypeOK /\ ~HasId(l, i) /\ queue' = [queue EXCEPT ![l] = Append(@, i)] /\ Allocate(a)
  BY DEF ListInv, Pushed
<1>2. queue[l] \in Seq(Ids) /\ queue[m] \in Seq(Ids) /\ Len(queue[m]) \in Nat
  BY <1>1, QueueType
<1>3. queue'[m] = IF m = l THEN Append(queue[l], i) ELSE queue[m]
  BY <1>1, LinksType
<1>4. /\ Append(queue[l], i) \in Seq(Ids) /\ Len(Append(queue[l], i)) = Len(queue[l]) + 1
      /\ \A k \in 1 .. Len(queue[l]) : Append(queue[l], i)[k] = queue[l][k]
      /\ Append(queue[l], i)[Len(queue[l]) + 1] = i
  BY <1>2, AppendProperties
<1>5. /\ queue'[m] \in Seq(Ids)
      /\ Len(queue'[m]) = IF m = l THEN Len(queue[m]) + 1 ELSE Len(queue[m])
      /\ \A k \in 1 .. Len(queue[m]) : queue'[m][k] = queue[m][k]
      /\ m = l => queue'[m][Len(queue[m]) + 1] = i
  BY <1>2, <1>3, <1>4
<1>6. ASSUME NEW k \in 1 .. Len(queue[m])
      PROVE  /\ nodeMap'[m][queue'[m][k]] = Node(m, k)
             /\ Node(m, k) # a /\ ~(m = l /\ queue[m][k] = i)
  <2>1. queue[m][k] \in Ids
    BY <1>1, <1>6, QueueType
  <2>2. ~(m = l /\ queue[m][k] = i)
    BY <1>1, MapIsQueue
  <2>3. Node(m, k) # a
    BY <1>1, <2>1, PushNode DEF Node
  <2>4. queue'[m][k] = queue[m][k]
    BY <1>5
  <2> QED BY <2>1, <2>2, <2>3, <2>4, PushedSlot DEF Node
<1>7. m = l => nodeMap'[m][i] = a
  BY PushedSlot
<1> QED BY <1>2, <1>5, <1>6, <1>7, LenProperties

LEMMA PushedType ==
    ASSUME ListInv, NEW l \in Lists, NEW i \in Ids, NEW a, Pushed(l, i, a)
    PROVE  TypeOK'
<1>1. TypeOK /\ SlotsConserved /\ Allocate(a)
  BY DEF ListInv, Pushed
<1>2. /\ slots' \in Addresses /\ poolSize' \in Nat /\ free' \in Seq(1 .. slots')
      /\ slots <= slots' /\ a \in 1 .. slots'
  BY <1>1, AllocateFacts
<1>3. slots \in Nat /\ slots' \in Nat
  BY <1>1, <1>2, SlotsType DEF Addresses
<1>4. PICK top : top = slots'
  OBVIOUS
<1>5. 0 .. slots \subseteq 0 .. top /\ a \in 0 .. top /\ Null \in 0 .. top /\ a \in Addresses
  BY <1>2, <1>3, <1>4, PushedSlot DEF Null
<1>6. id' \in [Addresses -> Ids \cup {None}]
  BY <1>1, LinksType DEF Pushed
<1>7. LeftOfNew(l) \in 0 .. top
  BY <1>1, <1>5, LinksType DEF LeftOfNew
<1>8. left' \in [Addresses -> 0 .. top]
  BY <1>1, <1>5, <1>7, LinksType DEF Pushed
<1>9. right' \in [Addresses -> 0 .. top]
  BY <1>1, <1>5, LinksType DEF Pushed
<1>10. front' \in [Lists -> 0 .. top] /\ back' \in [Lists -> 0 .. top]
  BY <1>1, <1>5, LinksType DEF Pushed
<1>11. nodeMap' \in [Lists -> [Ids -> 0 .. top]]
  BY <1>1, <1>5, LinksType DEF Pushed
<1>12. queue' \in [Lists -> Seq(Ids)]
  <2>1. queue' = [m \in Lists |-> queue'[m]]
    BY <1>1, LinksType DEF Pushed
  <2> QED BY <2>1, PushedQueue
<1> QED BY <1>2, <1>4, <1>6, <1>8, <1>9, <1>10, <1>11, <1>12 DEF TypeOK

LEMMA PushedFinds ==
    ASSUME ListInv, NEW l \in Lists, NEW i \in Ids, NEW a, Pushed(l, i, a)
    PROVE  FindsItsNode'
<1>1. ASSUME NEW m \in Lists, NEW j \in DOMAIN queue'[m], NEW k \in DOMAIN queue'[m],
             queue'[m][j] = queue'[m][k]
      PROVE  j = k
  <2>1. /\ j \in 1 .. Len(queue'[m]) /\ k \in 1 .. Len(queue'[m]) /\ Len(queue[m]) \in Nat
        /\ Len(queue'[m]) = IF m = l THEN Len(queue[m]) + 1 ELSE Len(queue[m])
        /\ m = l => queue'[m][Len(queue[m]) + 1] = i
        /\ DOMAIN queue[m] = 1 .. Len(queue[m])
    <3>1. DOMAIN queue[m] = 1 .. Len(queue[m])
      BY QueueType DEF ListInv
    <3>2. /\ Len(queue[m]) \in Nat /\ DOMAIN queue'[m] = 1 .. Len(queue'[m])
          /\ Len(queue'[m]) = IF m = l THEN Len(queue[m]) + 1 ELSE Len(queue[m])
          /\ m = l => queue'[m][Len(queue[m]) + 1] = i
      BY PushedQueue
    <3> QED BY <3>1, <3>2
  <2>2. \A x \in 1 .. Len(queue[m]) :
            queue'[m][x] = queue[m][x] /\ ~(m = l /\ queue[m][x] = i)
    BY PushedQueue
  <2>3. CASE j \in 1 .. Len(queue[m]) /\ k \in 1 .. Len(queue[m])
    BY <1>1, <2>1, <2>2, <2>3 DEF ListInv, FindsItsNode
  <2>4. CASE j \notin 1 .. Len(queue[m])
    <3>1. m = l /\ j = Len(queue[m]) + 1
      BY <2>1, <2>4
    <3>2. k \notin 1 .. Len(queue[m])
      BY <1>1, <2>1, <2>2, <3>1
    <3> QED BY <2>1, <3>1, <3>2
  <2>5. CASE k \notin 1 .. Len(queue[m])
    <3>1. m = l /\ k = Len(queue[m]) + 1
      BY <2>1, <2>5
    <3>2. j \notin 1 .. Len(queue[m])
      BY <1>1, <2>1, <2>2, <3>1
    <3> QED BY <2>1, <3>1, <3>2
  <2> QED BY <2>3, <2>4, <2>5
<1>2. ASSUME NEW m \in Lists, NEW j \in Ids
      PROVE  HasId(m, j)' <=> \E k \in DOMAIN queue'[m] : queue'[m][k] = j
  <2>1. HasId(m, j)' <=> (m = l /\ j = i) \/ HasId(m, j)
    BY PushedSlot DEF HasId
  <2>2. /\ DOMAIN queue'[m] = 1 .. Len(queue'[m]) /\ Len(queue[m]) \in Nat
        /\ Len(queue'[m]) = IF m = l THEN Len(queue[m]) + 1 ELSE Len(queue[m])
        /\ m = l => queue'[m][Len(queue[m]) + 1] = i
        /\ \A x \in 1 .. Len(queue[m]) : queue'[m][x] = queue[m][x]
    BY PushedQueue
  <2>3. HasId(m, j) <=> \E k \in 1 .. Len(queue[m]) : queue[m][k] = j
    BY MapIsQueue
  <2>4. CASE m = l
    <3>1. 1 .. Len(queue'[m]) = 1 .. Len(queue[m]) \cup {Len(queue[m]) + 1}
      BY <2>2, <2>4
    <3> QED BY <2>1, <2>2, <2>3, <2>4, <3>1
  <2>5. CASE m # l
    BY <2>1, <2>2, <2>3, <2>5
  <2> QED BY <2>4, <2>5
<1> QED BY <1>1, <1>2 DEF FindsItsNode

LEMMA PushedSlots ==
    ASSUME ListInv, NEW l \in Lists, NEW i \in Ids, NEW a, Pushed(l, i, a)
    PROVE  SlotsConserved'
<1>1. TypeOK /\ SlotsConserved /\ Allocate(a) /\ ~HasId(l, i)
  BY DEF ListInv, Pushed
<1>2. /\ \A j, k \in DOMAIN free' : free'[j] = free'[k] => j = k
      /\ \A b \in 1 .. slots' : IsFree(b)' <=> b # a /\ (b > slots \/ IsFree(b))
  BY <1>1, AllocateFacts
<1>3. /\ slots \in Nat /\ a \in 1 .. slots'
      /\ \A m \in Lists, j \in Ids : nodeMap'[m][j] = IF m = l /\ j = i THEN a ELSE nodeMap[m][j]
  BY PushedSlot
<1>4. ASSUME NEW b \in 1 .. slots', NEW m \in Lists, NEW j \in Ids
      PROVE  IsNodeOf(b, m, j)' <=> IF b = a THEN m = l /\ j = i ELSE IsNodeOf(b, m, j)
  <2>1. b # Null /\ nodeMap[m][j] # a
    BY <1>1, PushNode DEF Null
  <2>2. m = l /\ j = i => nodeMap[m][j] = Null
    BY <1>1 DEF HasId
  <2> QED BY <1>3, <2>1, <2>2 DEF IsNodeOf
<1>5. ASSUME NEW b \in 1 .. slots', b > slots, NEW m \in Lists, NEW j \in Ids
      PROVE  ~IsNodeOf(b, m, j)
  <2>1. nodeMap[m][j] \in 0 .. slots
    BY <1>1, SlotsType
  <2> QED BY <1>3, <1>5, <2>1 DEF IsNodeOf
<1>6. ASSUME NEW b \in 1 .. slots', ~(b > slots)
      PROVE  b \in 1 .. slots
  BY <1>3, <1>6
<1>7. ASSUME NEW b \in 1 .. slots'
      PROVE  /\ IsFree(b)' <=> \A m \in Lists, j \in Ids : ~IsNodeOf(b, m, j)'
             /\ \A k, m \in Lists, h, j \in Ids :
                   IsNodeOf(b, k, h)' /\ IsNodeOf(b, m, j)' => k = m /\ h = j
  <2>1. CASE b = a
    BY <1>2, <1>4, <2>1
  <2>2. CASE b # a /\ b > slots
    BY <1>2, <1>4, <1>5, <2>2
  <2>3. CASE b # a /\ ~(b > slots)
    BY <1>1, <1>2, <1>4, <1>6, <2>3 DEF SlotsConserved
  <2> QED BY <2>1, <2>2, <2>3
<1> QED BY <1>2, <1>7 DEF SlotsConserved

LEMMA PushedLinks ==
    ASSUME ListInv, NEW l \in Lists, NEW i \in Ids, NEW a, Pushed(l, i, a), NEW m \in Lists,
           NEW k \in 1 .. Len(queue[m])
    PROVE  /\ id'[Node(m, k)] = queue[m][k]
           /\ left'[Node(m, k)] = IF k = 1 THEN Null ELSE Node(m, k - 1)
           /\ right'[Node(m, k)] = IF k # Len(queue[m]) THEN Node(m, k + 1)
                                   ELSE IF m = l THEN a ELSE Null
<1> DEFINE x == Node(m, k)
<1>1. TypeOK
  BY DEF ListInv
<1>2. /\ x \in Addresses /\ id[x] = queue[m][k]
      /\ right[x] = IF k = Len(queue[m]) THEN Null ELSE Node(m, k + 1)
      /\ left[x] = IF k = 1 THEN Null ELSE Node(m, k - 1)
  BY NodeIs
<1>3. x # a
  BY PushedQueue
<1>4. ~Empty(l) /\ x = back[l] <=> m = l /\ k = Len(queue[m])
  <2>1. Len(queue[m]) \in Nat /\ Len(queue[l]) \in Nat
    BY <1>1, QueueType
  <2>2. CASE Empty(l)
    <3>1. Len(queue[l]) = 0
      BY <2>2, EmptyIs
    <3> QED BY <2>2, <3>1
  <2>3. CASE ~Empty(l)
    <3>1. Len(queue[l]) # 0
      BY <2>3, EmptyIs
    <3>2. Len(queue[l]) \in 1 .. Len(queue[l])
      BY <2>1, <3>1, Ends
    <3>3. back[l] = Node(l, Len(queue[l]))
      BY <3>2, NodeIs
    <3>4. x = Node(l, Len(queue[l])) => m = l /\ k = Len(queue[l])
      BY <3>2, NodesDiffer
    <3> QED BY <2>3, <3>3, <3>4
  <2> QED BY <2>2, <2>3
<1> HIDE DEF x
<1>5. id'[x] = id[x] /\ left'[x] = left[x]
  BY <1>1, <1>2, <1>3, LinksType DEF Pushed
<1>6. right'[x] = IF ~Empty(l) /\ x = back[l] THEN a ELSE right[x]
  BY <1>2, <1>3 DEF Pushed
<1>7. /\ id'[x] = queue[m][k]
      /\ left'[x] = IF k = 1 THEN Null ELSE Node(m, k - 1)
      /\ right'[x] = IF k # Len(queue[m]) THEN Node(m, k + 1) ELSE IF m = l THEN a ELSE Null
  BY <1>2, <1>4, <1>5, <1>6
<1> QED BY <1>7 DEF x


LEMMA PushedIterates ==
    ASSUME ListInv, NEW l \in Lists, NEW i \in Ids, NEW a, Pushed(l, i, a)
    PROVE  IterationIsQueue' /\ BackwardIsQueue'
<1>1. TypeOK
  BY DEF ListInv
<1> SUFFICES ASSUME NEW m \in Lists
             PROVE  /\ front'[m] = IF queue'[m] = <<>> THEN Null ELSE nodeMap'[m][queue'[m][1]]
                    /\ back'[m] = IF queue'[m] = <<>> THEN Null ELSE nodeMap'[m][queue'[m][Len(queue'[m])]]
                    /\ \A j \in DOMAIN queue'[m] :
                        /\ nodeMap'[m][queue'[m][j]] # Null
                        /\ id'[nodeMap'[m][queue'[m][j]]] = queue'[m][j]
                        /\ right'[nodeMap'[m][queue'[m][j]]] =
                             IF j = Len(queue'[m]) THEN Null ELSE nodeMap'[m][queue'[m][j + 1]]
                        /\ left'[nodeMap'[m][queue'[m][j]]] =
                             IF j = 1 THEN Null ELSE nodeMap'[m][queue'[m][j - 1]]
  BY DEF IterationIsQueue, BackwardIsQueue, Node
<1>2. /\ queue'[m] \in Seq(Ids) /\ Len(queue[m]) \in Nat
      /\ Len(queue'[m]) = IF m = l THEN Len(queue[m]) + 1 ELSE Len(queue[m])
      /\ DOMAIN queue'[m] = 1 .. Len(queue'[m])
      /\ m = l => /\ queue'[m][Len(queue[m]) + 1] = i
                  /\ nodeMap'[m][queue'[m][Len(queue[m]) + 1]] = a
  BY PushedQueue
<1>3. \A k \in 1 .. Len(queue[m]) :
        queue'[m][k] = queue[m][k] /\ nodeMap'[m][queue'[m][k]] = Node(m, k)
  BY PushedQueue
<1>4. queue'[m] = <<>> <=> Len(queue'[m]) = 0
  BY <1>2, EmptySeq
<1>5. (Empty(m) <=> Len(queue[m]) = 0) /\ (queue[m] = <<>> <=> Len(queue[m]) = 0)
  BY EmptyIs
<1>6. /\ front[m] = IF queue[m] = <<>> THEN Null ELSE Node(m, 1)
      /\ back[m] = IF queue[m] = <<>> THEN Null ELSE Node(m, Len(queue[m]))
  BY DEF ListInv, IterationIsQueue, BackwardIsQueue
<1>7. front'[m] = IF queue'[m] = <<>> THEN Null ELSE nodeMap'[m][queue'[m][1]]
  <2>1. front'[m] = IF m = l /\ Empty(l) THEN a ELSE front[m]
    BY <1>1, LinksType DEF Pushed
  <2>2. CASE Len(queue[m]) = 0
    BY <1>2, <1>4, <1>5, <1>6, <2>1, <2>2
  <2>3. CASE Len(queue[m]) # 0
    <3>1. 1 \in 1 .. Len(queue[m]) /\ Len(queue'[m]) # 0
      BY <1>2, <2>3, Ends
    <3> QED BY <1>3, <1>4, <1>5, <1>6, <2>1, <2>3, <3>1
  <2> QED BY <2>2, <2>3
<1>8. back'[m] = IF queue'[m] = <<>> THEN Null ELSE nodeMap'[m][queue'[m][Len(queue'[m])]]
  <2>1. back'[m] = IF m = l THEN a ELSE back[m]
    BY <1>1, LinksType DEF Pushed
  <2>2. CASE m = l
    BY <1>2, <1>4, <2>1, <2>2
  <2>3. CASE m # l /\ Len(queue[m]) = 0
    BY <1>2, <1>4, <1>5, <1>6, <2>1, <2>3
  <2>4. CASE m # l /\ Len(queue[m]) # 0
    <3>1. Len(queue[m]) \in 1 .. Len(queue[m]) /\ Len(queue'[m]) = Len(queue[m])
      BY <1>2, <2>4, Ends
    <3> QED BY <1>3, <1>4, <1>5, <1>6, <2>1, <2>4, <3>1
  <2> QED BY <2>2, <2>3, <2>4
<1>9. ASSUME NEW j \in 1 .. Len(queue[m])
      PROVE  /\ nodeMap'[m][queue'[m][j]] # Null
             /\ id'[nodeMap'[m][queue'[m][j]]] = queue'[m][j]
             /\ right'[nodeMap'[m][queue'[m][j]]] =
                  IF j = Len(queue'[m]) THEN Null ELSE nodeMap'[m][queue'[m][j + 1]]
             /\ left'[nodeMap'[m][queue'[m][j]]] =
                  IF j = 1 THEN Null ELSE nodeMap'[m][queue'[m][j - 1]]
  <2>1. /\ id'[Node(m, j)] = queue[m][j] /\ Node(m, j) # Null
        /\ left'[Node(m, j)] = IF j = 1 THEN Null ELSE Node(m, j - 1)
        /\ right'[Node(m, j)] = IF j # Len(queue[m]) THEN Node(m, j + 1)
                                ELSE IF m = l THEN a ELSE Null
    BY PushedLinks, NodeIs
  <2>2. left'[Node(m, j)] = IF j = 1 THEN Null ELSE nodeMap'[m][queue'[m][j - 1]]
    <3>1. CASE j = 1
      BY <2>1, <3>1
    <3>2. CASE j # 1
      <4>1. j - 1 \in 1 .. Len(queue[m])
        BY <1>2, <3>2, Neighbours
      <4> QED BY <1>3, <2>1, <3>2, <4>1
    <3> QED BY <3>1, <3>2
  <2>3. right'[Node(m, j)] = IF j = Len(queue'[m]) THEN Null ELSE nodeMap'[m][queue'[m][j + 1]]
    <3>1. CASE j # Len(queue[m])
      <4>1. j + 1 \in 1 .. Len(queue[m]) /\ j # Len(queue'[m])
        BY <1>2, <3>1, Neighbours
      <4> QED BY <1>3, <2>1, <3>1, <4>1
    <3>2. CASE j = Len(queue[m])
      BY <1>2, <2>1, <3>2
    <3> QED BY <3>1, <3>2
  <2> QED BY <1>3, <2>1, <2>2, <2>3
<1>10. ASSUME m = l, NEW j, j = Len(queue[m]) + 1
       PROVE  /\ nodeMap'[m][queue'[m][j]] # Null
              /\ id'[nodeMap'[m][queue'[m][j]]] = queue'[m][j]
              /\ right'[nodeMap'[m][queue'[m][j]]] =
                   IF j = Len(queue'[m]) THEN Null ELSE nodeMap'[m][queue'[m][j + 1]]
              /\ left'[nodeMap'[m][queue'[m][j]]] =
                   IF j = 1 THEN Null ELSE nodeMap'[m][queue'[m][j - 1]]
  <2>1. queue'[m][j] = i /\ nodeMap'[m][queue'[m][j]] = a /\ j = Len(queue'[m])
    BY <1>2, <1>10
  <2>2. a \in Addresses /\ a # Null
    BY PushedSlot
  <2>3. id'[a] = i /\ right'[a] = Null /\ left'[a] = LeftOfNew(l)
    BY <1>1, <2>2, LinksType DEF Pushed
  <2>4. LeftOfNew(l) = IF j = 1 THEN Null ELSE nodeMap'[m][queue'[m][j - 1]]
    <3>1. CASE Len(queue[m]) = 0
      BY <1>5, <1>10, <3>1 DEF LeftOfNew
    <3>2. CASE Len(queue[m]) # 0
      <4>1. Len(queue[m]) \in 1 .. Len(queue[m]) /\ j # 1 /\ j - 1 = Len(queue[m])
        BY <1>2, <1>10, <3>2, Ends
      <4> QED BY <1>3, <1>5, <1>6, <1>10, <3>2, <4>1 DEF LeftOfNew
    <3> QED BY <3>1, <3>2
  <2> QED BY <2>1, <2>2, <2>3, <2>4
<1>11. \A j \in DOMAIN queue'[m] : j \in 1 .. Len(queue[m]) \/ (m = l /\ j = Len(queue[m]) + 1)
  BY <1>2
<1> QED BY <1>7, <1>8, <1>9, <1>10, <1>11

LEMMA PushInv ==
    ASSUME ListInv, NEW l \in Lists, NEW i \in Ids, Push(l, i)
    PROVE  ListInv'
<1>1. PICK a \in Addresses : Pushed(l, i, a)
  BY DEF Push, Pushed
<1> QED BY <1>1, PushedType, PushedIterates, PushedFinds, PushedSlots DEF ListInv

-----------------------------------------------------------------------------
(* The theorems                                                            *)

LEMMA InitInv == Init => ListInv
<1> SUFFICES ASSUME Init PROVE ListInv
  OBVIOUS
<1>1. /\ PoolSize \in Nat \ {0} /\ MaxSlots \in Nat \ {0} /\ PoolSize <= MaxSlots
      /\ slots = PoolSize /\ 1 .. slots \subseteq Addresses /\ Null \in 0 .. slots
  BY SizesAssumption DEF Init, Addresses, Null
<1>2. /\ free \in Seq(1 .. slots) /\ DOMAIN free = 1 .. slots
      /\ \A k \in 1 .. slots : free[k] = k
  <2>1. free = [k \in 1 .. slots |-> k] /\ free \in [1 .. slots -> 1 .. slots]
    BY <1>1 DEF Init
  <2> QED BY <1>1, <2>1, SeqDef
<1>3. TypeOK
  <2>1. queue \in [Lists -> Seq(Ids)] /\ slots \in Addresses /\ poolSize \in Nat
    BY <1>1, EmptySeq DEF Init, Addresses
  <2> QED BY <1>1, <1>2, <2>1 DEF Init, TypeOK
<1>4. \A l \in Lists : queue[l] = <<>> /\ DOMAIN queue[l] = {}
  BY EmptySeq DEF Init
<1>5. IterationIsQueue /\ BackwardIsQueue
  BY <1>4 DEF Init, IterationIsQueue, BackwardIsQueue
<1>6. \A l \in Lists, i \in Ids : nodeMap[l][i] = Null
  BY DEF Init
<1>7. FindsItsNode
  BY <1>4, <1>6 DEF FindsItsNode, HasId
<1>8. SlotsConserved
  <2>1. \A a \in 1 .. slots : a # Null /\ IsFree(a)
    BY <1>2 DEF IsFree, Null
  <2> QED BY <1>2, <1>6, <2>1 DEF SlotsConserved, IsNodeOf
<1> QED BY <1>3, <1>5, <1>7, <1>8 DEF ListInv

\* Every call on a list or the pool keeps the lists, the maps, the links and
\* the free slots in agreement, whatever the lists, ids and sizes.
THEOREM ListInvariant == Spec => []ListInv
<1>1. ListInv /\ [Next]_vars => ListInv'
  <2> SUFFICES ASSUME ListInv, [Next]_vars PROVE ListInv'
    OBVIOUS
  <2>1. CASE \E l \in Lists : Pop(l)
    BY <2>1, PopInv
  <2>2. CASE \E l \in Lists, i \in Ids : Push(l, i)
    BY <2>2, PushInv
  <2>3. CASE \E l \in Lists, i \in Ids : RemoveId(l, i)
    BY <2>3, RemoveIdInv
  <2>4. CASE UNCHANGED vars
    BY <2>4 DEF vars, nodes, pool, ListInv, TypeOK, IterationIsQueue, BackwardIsQueue, Node,
        FindsItsNode, HasId, SlotsConserved, IsFree, IsNodeOf
  <2> QED BY <2>1, <2>2, <2>3, <2>4 DEF Next
<1> QED BY <1>1, InitInv, PTL DEF Spec

\* The links are null or slots the pool has, and the pool never has more slots
\* than it may (allocate, deallocate).
THEOREM ListTypes == Spec => []TypeOK
<1>1. ListInv => TypeOK
  BY DEF ListInv
<1> QED BY <1>1, ListInvariant, PTL

\* Iterating a list finds what was pushed and not removed, in that order.
THEOREM IterationCorrect == Spec => []IterationIsQueue
<1>1. ListInv => IterationIsQueue
  BY DEF ListInv
<1> QED BY <1>1, ListInvariant, PTL

\* So does going backwards, which pop_back and the next push rely on.
THEOREM BackwardCorrect == Spec => []BackwardIsQueue
<1>1. ListInv => BackwardIsQueue
  BY DEF ListInv
<1> QED BY <1>1, ListInvariant, PTL

\* A list holds an id once, and contains and find answer for what it holds.
THEOREM MapCorrect == Spec => []FindsItsNode
<1>1. ListInv => FindsItsNode
  BY DEF ListInv
<1> QED BY <1>1, ListInvariant, PTL

\* No slot of the pool is in two lists or in a list and free, and none is lost.
THEOREM PoolCorrect == Spec => []SlotsConserved
<1>1. ListInv => SlotsConserved
  BY DEF ListInv
<1> QED BY <1>1, ListInvariant, PTL


=============================================================================
