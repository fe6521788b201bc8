--------------------------- MODULE HashedLinkedList ---------------------------
(***************************************************************************)
(* The HashLinkedLists that hold the orders of the price levels, and the   *)
(* PoolAllocator all of them take their nodes from.  A node is a slot of   *)
(* the pool: its id and its links.  What a freed slot holds is nobody's to *)
(* read and is not kept: a stale pointer would find no id there.  Calls    *)
(* are single-threaded and call nobody, so each is one step.               *)
(*                                                                         *)
(* queue is no part of the code: it is what the callers of a list have     *)
(* pushed and not removed, oldest first, which is what it should hold.     *)
(* A definition whose name ends in Slip is a plausible slip in the         *)
(* operator of that name, against which the properties are tried.          *)
(***************************************************************************)
EXTENDS Integers, SequencesExt

CONSTANTS
    Lists,      \* the lists: one per price level
    Ids,        \* order ids
    None,       \* the id of a slot that holds no node
    NodeBytes,  \* sizeof(Node), which operator new passes to the pool as n
    PoolSize,   \* the pool's initial size
    MaxSlots    \* BOUND: slots the pool may come to have

Null == 0
Max2(a, b) == IF a > b THEN a ELSE b

ASSUME SizesAssumption == {NodeBytes, PoolSize, MaxSlots} \subseteq Nat \ {0} /\ PoolSize <= MaxSlots

VARIABLES
    id, left, right,    \* the nodes
    front, back,        \* front_ and back_ of each list
    nodeMap,            \* node_map_ of each list: Null where an id has no node
    free,               \* free_list_ of the pool
    slots,              \* slots in its blocks
    poolSize,           \* pool_size_
    queue               \* what each list should hold

nodes == <<id, left, right>>
pool == <<free, slots, poolSize>>
vars == <<nodes, front, back, nodeMap, pool, queue>>

Addresses == 1 .. MaxSlots
Pointers == Addresses \cup {Null}

TypeOK ==
    /\ slots \in Addresses /\ poolSize \in Nat
    /\ id \in [Addresses -> Ids \cup {None}]
    /\ left \in [Addresses -> 0 .. slots] /\ right \in [Addresses -> 0 .. slots]
    /\ front \in [Lists -> 0 .. slots] /\ back \in [Lists -> 0 .. slots]
    /\ nodeMap \in [Lists -> [Ids -> 0 .. slots]]
    /\ free \in Seq(1 .. slots)
    /\ queue \in [Lists -> Seq(Ids)]

Init ==
    /\ id = [a \in Addresses |-> None]
    /\ left = [a \in Addresses |-> Null] /\ right = [a \in Addresses |-> Null]
    /\ front = [l \in Lists |-> Null] /\ back = [l \in Lists |-> Null]
    /\ nodeMap = [l \in Lists |-> [i \in Ids |-> Null]]
    /\ free = [k \in 1 .. PoolSize |-> k]
    /\ slots = PoolSize /\ poolSize = 2 * PoolSize
    /\ queue = [l \in Lists |-> <<>>]

-----------------------------------------------------------------------------
(* PoolAllocator                                                           *)

\* expand_pool: a block of new slots, its last one on top of the free list.
NewSlotsSlip(n) == [k \in 1 .. n + 1 |-> slots + k]
NewSlots(n) == [k \in 1 .. n |-> slots + k]

\* allocate(n) makes sure of n free slots, not one, and takes one.
Expands == Len(free) < NodeBytes
Growth == IF Expands THEN Max2(poolSize, NodeBytes) ELSE 0

Allocate(a) ==
    /\ slots + Growth <= MaxSlots
    /\ LET f == free \o NewSlots(Growth) IN a = Last(f) /\ free' = Front(f)
    /\ slots' = slots + Growth
    /\ poolSize' = IF Expands THEN 2 * Growth ELSE poolSize

\* deallocate: the slot used last is the next to be used.
FreedSlip(a) == free
Freed(a) == Append(free, a)

Deallocate(a, newLeft, newRight) ==
    /\ free' = Freed(a) /\ UNCHANGED <<slots, poolSize>>
    /\ id' = [id EXCEPT ![a] = None]
    /\ left' = [newLeft EXCEPT ![a] = Null] /\ right' = [newRight EXCEPT ![a] = Null]

-----------------------------------------------------------------------------
(* HashLinkedList                                                          *)

Empty(l) == \A i \in Ids : nodeMap[l][i] = Null
HasId(l, i) == nodeMap[l][i] # Null

LeftOfNewSlip(l) == Null
LeftOfNew(l) == IF Empty(l) THEN Null ELSE back[l]

\* push; PriceLevel::add_order pushes no id that the list contains.
Push(l, i) ==
    /\ ~HasId(l, i)
    /\ \E a \in Addresses :
        /\ Allocate(a)
        /\ id' = [id EXCEPT ![a] = i]
        /\ left' = [left EXCEPT ![a] = LeftOfNew(l)]
        /\ right' = [x \in Addresses |->
                IF x = a THEN Null
                ELSE IF ~Empty(l) /\ x = back[l] THEN a ELSE right[x]]
        /\ front' = IF Empty(l) THEN [front EXCEPT ![l] = a] ELSE front
        /\ back' = [back EXCEPT ![l] = a]
        /\ nodeMap' = [nodeMap EXCEPT ![l][i] = a]
    /\ queue' = [queue EXCEPT ![l] = Append(@, i)]

ErasedSlip(l, a) == nodeMap
Erased(l, a) == [nodeMap EXCEPT ![l][id[a]] = Null]

PopFront(l) ==
    LET a == front[l]
        b == right[a]
    IN  /\ a # Null
        /\ front' = [front EXCEPT ![l] = b]
        /\ back' = IF b = Null THEN [back EXCEPT ![l] = Null] ELSE back
        /\ nodeMap' = Erased(l, a)
        /\ Deallocate(a, IF b = Null THEN left ELSE [left EXCEPT ![b] = Null], right)

PopBack(l) ==
    LET a == back[l]
        b == left[a]
    IN  /\ a # Null
        /\ back' = [back EXCEPT ![l] = b]
        /\ front' = IF b = Null THEN [front EXCEPT ![l] = Null] ELSE front
        /\ nodeMap' = Erased(l, a)
        /\ Deallocate(a, left, IF b = Null THEN right ELSE [right EXCEPT ![b] = Null])

BypassedSlip(a) == right
Bypassed(a) == [right EXCEPT ![left[a]] = right[a]]

PopMiddle(l, a) ==
    /\ nodeMap' = Erased(l, a)
    /\ Deallocate(a, [left EXCEPT ![right[a]] = left[a]], Bypassed(a))
    /\ UNCHANGED <<front, back>>

RemoveNode(l, a) ==
    \/ a = front[l] /\ PopFront(l)
    \/ a # front[l] /\ a = back[l] /\ PopBack(l)
    \/ a \notin {front[l], back[l]} /\ PopMiddle(l, a)

\* remove: by id, as PriceLevel::remove_order does, and through it what
\* remove_marked_order_nodes does with the node.
RemoveId(l, i) ==
    /\ HasId(l, i)
    /\ RemoveNode(l, nodeMap[l][i])
    /\ \E n \in DOMAIN queue[l] :
        queue[l][n] = i /\ queue' = [queue EXCEPT ![l] = RemoveAt(@, n)]

Pop(l) ==
    /\ front[l] # Null
    /\ PopFront(l)
    /\ queue' = [queue EXCEPT ![l] = Tail(@)]

Next == \E l \in Lists : Pop(l) \/ \E i \in Ids : Push(l, i) \/ RemoveId(l, i)

Spec == Init /\ [][Next]_vars

-----------------------------------------------------------------------------
(* Properties *)

\* The node that should be number n of list l: the one the map has for its id.
Node(l, n) == nodeMap[l][queue[l][n]]

\* Iterating a list (begin(), operator++) finds what was pushed and not removed,
\* in that order, and ends there: the time priority of a level is this order.
IterationIsQueue ==
    \A l \in Lists :
        /\ front[l] = IF queue[l] = <<>> THEN Null ELSE Node(l, 1)
        /\ \A n \in DOMAIN queue[l] :
            /\ Node(l, n) # Null /\ id[Node(l, n)] = queue[l][n]
            /\ right[Node(l, n)] = IF n = Len(queue[l]) THEN Null ELSE Node(l, n + 1)

\* So does going backwards, which pop_back and the next push rely on.
BackwardIsQueue ==
    \A l \in Lists :
        /\ back[l] = IF queue[l] = <<>> THEN Null ELSE Node(l, Len(queue[l]))
        /\ \A n \in DOMAIN queue[l] :
            /\ Node(l, n) # Null
            /\ left[Node(l, n)] = IF n = 1 THEN Null ELSE Node(l, n - 1)

\* A list holds an id once, and the map finds the node of every id in the list
\* and of no other (contains, find).
FindsItsNode ==
    \A l \in Lists :
        /\ \A m, n \in DOMAIN queue[l] : queue[l][m] = queue[l][n] => m = n
        /\ \A i \in Ids : HasId(l, i) <=> \E n \in DOMAIN queue[l] : queue[l][n] = i

\* Every slot of the pool is free once or the node of one id of one list:
\* no level's node is handed out again while it is in use, and none is lost.
IsFree(a) == \E k \in DOMAIN free : free[k] = a
IsNodeOf(a, l, i) == nodeMap[l][i] = a
SlotsConserved ==
    /\ \A j, k \in DOMAIN free : free[j] = free[k] => j = k
    /\ \A a \in 1 .. slots :
        /\ IsFree(a) <=> \A l \in Lists, i \in Ids : ~IsNodeOf(a, l, i)
        /\ \A l, m \in Lists, i, j \in Ids :
            IsNodeOf(a, l, i) /\ IsNodeOf(a, m, j) => l = m /\ i = j

=============================================================================
