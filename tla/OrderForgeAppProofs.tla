-------------------------- MODULE OrderForgeAppProofs --------------------------
(***************************************************************************)
(* Proof that the event loop calls no handler that is gone, never blocks   *)
(* in an accept or a read, leaves nothing behind in event_handlers_ but    *)
(* for peers that reset, gives every connection its feed exactly, and does *)
(* not end by anything polite peers do, for any number of connections and  *)
(* feeds, any sizes and any order of what peers, kernel and thread do.     *)
(***************************************************************************)
EXTENDS OrderForgeApp, SequenceTheorems, FiniteSetTheorems, WellFoundedInduction, TLAPS

-----------------------------------------------------------------------------
(* The ready list: what Only and RemoveFirst keep of a queue.  Only is     *)
(* recursive: the facts about it are of a least counterexample.            *)

LEMMA Least ==
    ASSUME NEW B \in SUBSET Nat, B # {}
    PROVE  \E n \in B : \A m \in B : ~(m < n)
<1>1. PICK n \in B : \A m \in B : ~(<<m, n>> \in OpToRel(<, Nat))
  BY NatLessThanWellFounded, WFMin
<1>2. \A m \in B : ~(m < n)
  BY <1>1 DEF OpToRel
<1> QED BY <1>2

Kept(q, S, f, i) ==
    IF i = 0 THEN <<>> ELSE IF q[i] \in S THEN Append(f[i - 1], q[i]) ELSE f[i - 1]

LEMMA KeptExists ==
    ASSUME NEW q, NEW S, NEW n \in Nat
    PROVE  \E f : f = [i \in 0 .. n |-> Kept(q, S, f, i)]
<1> DEFINE Has(k) == \E f : f = [i \in 0 .. k |-> Kept(q, S, f, i)]
           B == {k \in Nat : ~Has(k)}
<1> SUFFICES ASSUME B # {} PROVE FALSE
  <2>1. n \in B \/ Has(n)
    OBVIOUS
  <2> QED BY <2>1
<1>1. PICK k \in B : \A m \in B : ~(m < k)
  BY Least
<1>2. k # 0
  <2> SUFFICES ASSUME k = 0 PROVE Has(k)
    BY <1>1
  <2> DEFINE f == [i \in 0 .. 0 |-> <<>>]
  <2>1. f = [i \in 0 .. 0 |-> Kept(q, S, f, i)]
    BY DEF Kept
  <2> QED BY <2>1
<1>3. k - 1 \in Nat /\ Has(k - 1)
  <2>1. k - 1 \in Nat /\ k - 1 < k
    BY <1>2
  <2>2. k - 1 \notin B
    BY <1>1, <2>1
  <2> QED BY <2>1, <2>2
<1>4. PICK f : f = [i \in 0 .. k - 1 |-> Kept(q, S, f, i)]
  BY <1>3
<1> DEFINE g == [i \in 0 .. k |-> IF i < k THEN f[i] ELSE Kept(q, S, f, k)]
<1>5. ASSUME NEW i \in 0 .. k PROVE g[i] = Kept(q, S, g, i)
  <2>1. i = 0 \/ g[i - 1] = f[i - 1]
    BY <1>2
  <2>2. Kept(q, S, g, i) = Kept(q, S, f, i)
    BY <2>1 DEF Kept
  <2>3. CASE i < k
    <3>1. i \in 0 .. k - 1
      BY <1>3, <2>3
    <3>2. f[i] = Kept(q, S, f, i)
      BY <1>4, <3>1
    <3> QED BY <2>2, <2>3, <3>2
  <2>4. CASE i = k
    BY <2>2, <2>4
  <2> QED BY <2>3, <2>4
<1>6. g = [i \in 0 .. k |-> Kept(q, S, g, i)]
  BY <1>5
<1>7. Has(k)
  BY <1>6
<1> QED BY <1>1, <1>7

\* Only keeps elements of the set, and a queue without repetitions so.
LEMMA OnlyFacts ==
    ASSUME NEW T, NEW q \in Seq(T), NEW S
    PROVE  /\ Only(q, S) \in Seq(T)
           /\ \A n \in 1 .. Len(Only(q, S)) : Only(q, S)[n] \in S
           /\ IsInjective(q) => IsInjective(Only(q, S))
<1> DEFINE N == Len(q)
<1>1. N \in Nat
  BY LenProperties
<1>2. PICK f : f = [i \in 0 .. N |-> Kept(q, S, f, i)] /\ Only(q, S) = f[N]
  <2> DEFINE F == CHOOSE f : f = [i \in 0 .. N |-> Kept(q, S, f, i)]
  <2>1. F = [i \in 0 .. N |-> Kept(q, S, F, i)]
    BY <1>1, KeptExists
  <2>2. Only(q, S) = F[N]
    BY DEF Only, Kept
  <2> QED BY <2>1, <2>2
<1> HIDE DEF N
<1> DEFINE From(s, i) == \A n \in 1 .. Len(s) : \E j \in 1 .. i : q[j] = s[n] /\ q[j] \in S
           Good(i) == f[i] \in Seq(T) /\ From(f[i], i) /\ (IsInjective(q) => IsInjective(f[i]))
           B == {i \in 0 .. N : ~Good(i)}
<1>3. ASSUME B # {} PROVE FALSE
  <2>1. PICK k \in B : \A m \in B : ~(m < k)
    <3>1. B \in SUBSET Nat
      BY <1>1
    <3> QED BY <1>3, <3>1, Least
  <2>2. k # 0
    <3>1. ASSUME k = 0 PROVE f[k] = <<>>
      BY <1>1, <1>2, <3>1 DEF Kept
    <3>2. ASSUME f[k] = <<>> PROVE Good(k)
      BY <3>2 DEF IsInjective
    <3> QED BY <2>1, <3>1, <3>2
  <2>3. k \in 1 .. N /\ k - 1 \in 0 .. N /\ k \in Nat /\ k - 1 \in Nat /\ k - 1 < k
    BY <1>1, <2>1, <2>2
  <2>4. Good(k - 1)
    BY <2>1, <2>3
  <2>5. f[k] = IF q[k] \in S THEN Append(f[k - 1], q[k]) ELSE f[k - 1]
    BY <1>2, <2>1, <2>2 DEF Kept
  <2>6. CASE q[k] \notin S
    <3>1. \A j \in 1 .. k - 1 : j \in 1 .. k
      BY <2>3
    <3> QED BY <2>1, <2>4, <2>5, <2>6, <3>1
  <2>7. CASE q[k] \in S
    <3> DEFINE s == f[k - 1]
               t == f[k]
               l == Len(s)
    <3>1. q[k] \in T
      BY <2>3, ElementOfSeq DEF N
    <3>2. s \in Seq(T) /\ t = Append(s, q[k])
      BY <2>4, <2>5, <2>7
    <3> HIDE DEF s, t
    <3>3. /\ t \in Seq(T) /\ l \in Nat /\ Len(t) = l + 1 /\ t[l + 1] = q[k]
          /\ \A n \in 1 .. l : t[n] = s[n]
          /\ DOMAIN t = 1 .. l + 1 /\ DOMAIN s = 1 .. l
      BY <3>1, <3>2, AppendProperties, LenProperties
    <3>4. \A n \in 1 .. l : \E j \in 1 .. k - 1 : q[j] = s[n] /\ q[j] \in S
      BY <2>4 DEF s
    <3> HIDE DEF l
    <3>5. From(t, k)
      <4>1. ASSUME NEW n \in 1 .. l + 1
            PROVE  \E j \in 1 .. k : q[j] = t[n] /\ q[j] \in S
        <5>1. CASE n = l + 1
          BY <2>3, <2>7, <3>3, <5>1
        <5>2. CASE n # l + 1
          <6>1. n \in 1 .. l
            BY <3>3, <5>2
          <6>2. PICK j \in 1 .. k - 1 : q[j] = s[n] /\ q[j] \in S
            BY <3>4, <6>1
          <6>3. j \in 1 .. k
            BY <2>3
          <6> QED BY <3>3, <6>1, <6>2, <6>3
        <5> QED BY <5>1, <5>2
      <4> QED BY <3>3, <4>1
    <3>6. IsInjective(q) => IsInjective(t)
      <4> SUFFICES ASSUME IsInjective(q), NEW a \in 1 .. l + 1, NEW b \in 1 .. l + 1, t[a] = t[b]
                   PROVE  a = b
        BY <3>3 DEF IsInjective
      <4>1. IsInjective(s)
        BY <2>4 DEF s
      <4>2. \A n \in 1 .. l : t[n] # q[k]
        <5>1. SUFFICES ASSUME NEW n \in 1 .. l, t[n] = q[k] PROVE FALSE
          OBVIOUS
        <5>2. PICK j \in 1 .. k - 1 : q[j] = s[n]
          BY <3>4
        <5>3. j \in DOMAIN q /\ k \in DOMAIN q /\ j # k
          BY <2>3, LenProperties, <1>1 DEF N
        <5>4. q[j] = q[k]
          BY <3>3, <5>1, <5>2
        <5> QED BY <5>3, <5>4 DEF IsInjective
      <4>3. CASE a \in 1 .. l /\ b \in 1 .. l
        BY <3>3, <4>1, <4>3 DEF IsInjective
      <4>4. CASE a = l + 1 \/ b = l + 1
        <5>1. (a = l + 1 \/ a \in 1 .. l) /\ (b = l + 1 \/ b \in 1 .. l)
          BY <3>3
        <5> QED BY <3>3, <4>2, <4>4, <5>1
      <4> QED BY <3>3, <4>3, <4>4
    <3>7. Good(k)
      BY <3>3, <3>5, <3>6 DEF t
    <3> QED BY <2>1, <3>7
  <2> QED BY <2>6, <2>7
<1>4. N \in 0 .. N
  BY <1>1
<1>5. Good(N)
  BY <1>3, <1>4
<1> QED BY <1>2, <1>5

\* RemoveFirst removes an element of a queue without repetitions altogether.
LEMMA RemoveFacts ==
    ASSUME NEW T, NEW q \in Seq(T), IsInjective(q), NEW c
    PROVE  /\ RemoveFirst(q, c) \in Seq(T) /\ IsInjective(RemoveFirst(q, c))
           /\ \A n \in 1 .. Len(RemoveFirst(q, c)) :
                RemoveFirst(q, c)[n] # c /\ \E j \in 1 .. Len(q) : RemoveFirst(q, c)[n] = q[j]
<1> DEFINE l == Len(q)
<1>1. l \in Nat /\ DOMAIN q = 1 .. l
  BY LenProperties
<1>2. CASE ~(\E i \in 1 .. l : q[i] = c)
  <2>1. RemoveFirst(q, c) = q
    BY <1>2 DEF RemoveFirst
  <2> QED BY <1>2, <2>1
<1>3. CASE \E i \in 1 .. l : q[i] = c
  <2> DEFINE I == {i \in 1 .. l : q[i] = c}
             k == Min(I)
  <2>1. RemoveFirst(q, c) = SubSeq(q, 1, k - 1) \o SubSeq(q, k + 1, l)
    BY <1>3 DEF RemoveFirst, RemoveAt, SelectInSeq
  <2>2. k \in I
    <3>1. PICK i \in 1 .. l : q[i] = c
      BY <1>3
    <3>2. I = {i}
      BY <1>1, <3>1 DEF IsInjective
    <3>3. Min({i}) = i
      BY <1>1 DEF Min
    <3> QED BY <3>1, <3>2, <3>3
  <2> HIDE DEF k
  <2> DEFINE s == SubSeq(q, 1, k - 1)
             t == SubSeq(q, k + 1, l)
             r == s \o t
  <2>3. k \in Nat /\ 1 <= k /\ k <= l /\ q[k] = c /\ k \in 1 .. l
    BY <1>1, <2>2
  <2>4. s \in Seq(T) /\ Len(s) = k - 1 /\ \A i \in 1 .. k - 1 : s[i] = q[i]
    <3>1. \A i \in 1 .. k - 1 : q[i] \in T
      BY <1>1, <2>3, ElementOfSeq
    <3>2. k - 1 \in Int /\ 1 \in Int
      BY <2>3
    <3>3. /\ s \in Seq(T) /\ Len(s) = IF 1 <= k - 1 THEN (k - 1) - 1 + 1 ELSE 0
          /\ \A i \in 1 .. (k - 1) - 1 + 1 : s[i] = q[1 + i - 1]
      BY <3>1, <3>2, SubSeqProperties
    <3> QED BY <2>3, <3>3
  <2>5. t \in Seq(T) /\ Len(t) = l - k /\ \A i \in 1 .. l - k : t[i] = q[k + i]
    <3>1. \A i \in k + 1 .. l : q[i] \in T
      BY <1>1, <2>3, ElementOfSeq
    <3>2. k + 1 \in Int /\ l \in Int
      BY <1>1, <2>3
    <3> HIDE DEF l
    <3>3. /\ t \in Seq(T) /\ Len(t) = IF k + 1 <= l THEN l - (k + 1) + 1 ELSE 0
          /\ \A i \in 1 .. l - (k + 1) + 1 : t[i] = q[(k + 1) + i - 1]
      BY <3>1, <3>2, SubSeqProperties
    <3>4. l \in Nat
      BY <1>1
    <3> QED BY <2>3, <3>3, <3>4
  <2> DEFINE at(i) == IF i < k THEN i ELSE i + 1
  <2> HIDE DEF s, t
  <2>6. r \in Seq(T) /\ Len(r) = l - 1 /\ \A i \in 1 .. l - 1 : r[i] = q[at(i)]
    <3>1. /\ r \in Seq(T) /\ Len(r) = Len(s) + Len(t)
          /\ \A i \in 1 .. Len(s) + Len(t) : r[i] = IF i <= Len(s) THEN s[i] ELSE t[i - Len(s)]
      BY <2>4, <2>5, ConcatProperties
    <3> HIDE DEF l, r
    <3>2. l \in Nat
      BY <1>1
    <3>3. ASSUME NEW i \in 1 .. l - 1 PROVE r[i] = q[at(i)]
      <4>1. r[i] = IF i <= k - 1 THEN s[i] ELSE t[i - (k - 1)]
        BY <2>3, <2>4, <2>5, <3>1, <3>2
      <4>2. CASE i <= k - 1
        BY <2>3, <2>4, <4>1, <4>2, <3>2
      <4>3. CASE ~(i <= k - 1)
        <5>1. i - (k - 1) \in 1 .. l - k /\ k + (i - (k - 1)) = i + 1 /\ ~(i < k)
          BY <2>3, <3>2, <4>3
        <5> QED BY <2>5, <4>1, <4>3, <5>1
      <4> QED BY <4>2, <4>3
    <3>4. Len(r) = l - 1
      BY <2>3, <2>4, <2>5, <3>1, <3>2
    <3> QED BY <3>1, <3>3, <3>4
  <2>7. \A i \in 1 .. l - 1 : at(i) \in 1 .. l /\ at(i) # k
    BY <1>1, <2>3
  <2>8. \A i, j \in 1 .. l - 1 : at(i) = at(j) => i = j
    BY <1>1, <2>3
  <2>9. DOMAIN r = 1 .. l - 1
    BY <2>6, LenProperties
  <2> HIDE DEF at, r, l
  <2>10. IsInjective(r)
    BY <1>1, <2>6, <2>7, <2>8, <2>9 DEF IsInjective
  <2>11. \A n \in 1 .. Len(r) : r[n] # c /\ \E j \in 1 .. l : r[n] = q[j]
    BY <1>1, <2>3, <2>6, <2>7 DEF IsInjective
  <2>12. RemoveFirst(q, c) = r
    BY <2>1 DEF r, s, t
  <2> QED BY <2>6, <2>10, <2>11, <2>12 DEF l
<1> QED BY <1>2, <1>3

-----------------------------------------------------------------------------
(* The inductive invariant                                                 *)

\* Connections wait where they connected, and a reset is one of the peer.
Placed == \A l \in Feeds : \A i \in 1 .. Len(backlog[l]) : feed[backlog[l][i]] = l
Explained == \A c \in Conns : \A i \in 1 .. Len(inbox[c]) : inbox[c][i] = "RST" => peer[c] = "reset"

\* What epoll holds exists; what a batch holds is there once, and readable if
\* epoll_wait said so.
ReadyIsLive == ready \in Seq(alive \cup Feeds)
Batched ==
    /\ \A i \in 1 .. Len(batch) :
        /\ batch[i].handler \in alive \cup Feeds
        /\ batch[i].in => Readable(batch[i].handler)
    /\ \A i, j \in 1 .. Len(batch) : batch[i].handler = batch[j].handler => i = j

AppInv ==
    /\ TypeOK /\ IsFiniteSet(alive) /\ Placed /\ Explained /\ DanglingOnlyAfterReset
    /\ state = "up" => ReadyIsLive /\ Batched


LEMMA Facts ==
    ASSUME AppInv
    PROVE  /\ TypeOK /\ IsFiniteSet(alive) /\ Placed /\ Explained /\ DanglingOnlyAfterReset
           /\ ready \in Seq(Handlers) /\ IsInjective(ready) /\ batch \in Seq(Events)
           /\ alive \subseteq Conns /\ registered \subseteq Conns \X Feeds
           /\ \A l \in Feeds : backlog[l] \in Seq(Conns)
           /\ \A c \in Conns : inbox[c] \in Seq(Messages \cup {"FIN", "RST"})
           /\ \A c \in Conns : feed[c] \in Feeds /\ c \notin Feeds
BY SizesAssumption DEF AppInv, TypeOK

LEMMA EdgeFacts ==
    ASSUME AppInv, NEW h \in Handlers
    PROVE  /\ Edge(h) \in Seq(Handlers) /\ IsInjective(Edge(h))
           /\ \A L : ready \in Seq(L) /\ h \in L => Edge(h) \in Seq(L)
<1>1. ready \in Seq(Handlers) /\ IsInjective(ready)
  BY Facts
<1>2. CASE Contains(ready, h)
  BY <1>1, <1>2 DEF Edge
<1>3. CASE ~Contains(ready, h)
  <2>1. Edge(h) = Append(ready, h)
    BY <1>3 DEF Edge
  <2> DEFINE t == Append(ready, h)
             l == Len(ready)
  <2>2. /\ t \in Seq(Handlers) /\ l \in Nat /\ Len(t) = l + 1 /\ t[l + 1] = h
        /\ \A n \in 1 .. l : t[n] = ready[n]
        /\ DOMAIN t = 1 .. l + 1 /\ DOMAIN ready = 1 .. l
    BY <1>1, AppendProperties, LenProperties
  <2>3. \A n \in 1 .. l : ready[n] # h
    BY <1>3 DEF Contains
  <2> HIDE DEF t, l
  <2>4. IsInjective(t)
    <3> SUFFICES ASSUME NEW a \in 1 .. l + 1, NEW b \in 1 .. l + 1, t[a] = t[b] PROVE a = b
      BY <2>2 DEF IsInjective
    <3>1. (a = l + 1 \/ a \in 1 .. l) /\ (b = l + 1 \/ b \in 1 .. l)
      BY <2>2
    <3>2. CASE a \in 1 .. l /\ b \in 1 .. l
      BY <1>1, <2>2, <3>2 DEF IsInjective
    <3>3. CASE a = l + 1 \/ b = l + 1
      BY <2>2, <2>3, <3>1, <3>3
    <3> QED BY <3>1, <3>2, <3>3
  <2>5. \A L : ready \in Seq(L) /\ h \in L => t \in Seq(L)
    BY AppendProperties DEF t
  <2>6. Edge(h) = t
    BY <2>1 DEF t
  <2> QED BY <2>2, <2>4, <2>5, <2>6
<1> QED BY <1>2, <1>3

LEMMA ClientEdgeFacts ==
    ASSUME AppInv, NEW c \in Conns
    PROVE  /\ ClientEdge(c) \in Seq(Handlers) /\ IsInjective(ClientEdge(c))
           /\ ReadyIsLive => ClientEdge(c) \in Seq(alive \cup Feeds)
<1>1. c \in Handlers
  BY DEF Handlers
<1>2. CASE c \in alive
  BY <1>1, <1>2, EdgeFacts DEF ClientEdge, ReadyIsLive
<1>3. CASE c \notin alive
  BY <1>3, Facts DEF ClientEdge, ReadyIsLive
<1> QED BY <1>2, <1>3

\* What Dangling says is kept if only the peers go on.
LEMMA DanglingKept ==
    ASSUME AppInv, UNCHANGED <<feed, handlers>>, \A c \in Conns : peer[c] = "reset" => peer'[c] = "reset"
    PROVE  DanglingOnlyAfterReset'
<1>1. DanglingOnlyAfterReset
  BY Facts
<1> QED BY <1>1 DEF DanglingOnlyAfterReset, handlers

LEMMA BatchedKept ==
    ASSUME AppInv, Batched, UNCHANGED batch, alive \subseteq alive',
           \A l \in Feeds : backlog[l] # <<>> => backlog'[l] # <<>>,
           \A c \in Conns : inbox[c] # <<>> => inbox'[c] # <<>>
    PROVE  Batched'
<1>1. \A h \in Handlers : Readable(h) => IF h \in Feeds THEN backlog'[h] # <<>> ELSE inbox'[h] # <<>>
  BY DEF Readable, Handlers
<1>2. \A i \in 1 .. Len(batch) : batch[i].handler \in Handlers
  <2>1. batch \in Seq(Events)
    BY Facts
  <2>2. \A i \in 1 .. Len(batch) : batch[i] \in Events
    BY <2>1, ElementOfSeq
  <2> QED BY <2>2 DEF Events
<1>3. ASSUME NEW i \in 1 .. Len(batch'), batch'[i].in PROVE Readable(batch[i].handler)'
  <2>1. batch' = batch /\ Readable(batch[i].handler) /\ batch[i].handler \in Handlers
    BY <1>2, <1>3 DEF Batched
  <2> QED BY <1>1, <2>1 DEF Readable
<1>4. \A i \in 1 .. Len(batch') : batch'[i].handler \in alive' \cup Feeds
  BY DEF Batched
<1>5. \A i, j \in 1 .. Len(batch') : batch'[i].handler = batch'[j].handler => i = j
  BY DEF Batched
<1> QED BY <1>3, <1>4, <1>5 DEF Batched

\* A step of a peer.
LEMMA PeersInv ==
    ASSUME AppInv, Peers
    PROVE  AppInv'
<1>1. PICK c \in Conns :
        \/ Connect(c) \/ Close(c) \/ Reset(c) \/ Receive(c)
        \/ \E m \in Messages : SendMessage(c, m)
  BY DEF Peers
<1>2. /\ UNCHANGED <<batch, handlers, calls, targets, feeds, state>> /\ state = "up"
      /\ ReadyIsLive /\ Batched
  BY DEF Peers, AppInv
<1>3. /\ TypeOK /\ IsFiniteSet(alive) /\ Placed /\ Explained
      /\ \A l \in Feeds : backlog[l] \in Seq(Conns)
      /\ \A d \in Conns : inbox[d] \in Seq(Messages \cup {"FIN", "RST"})
      /\ \A d \in Conns : feed[d] \in Feeds
  BY Facts
<1>4. /\ ClientEdge(c) \in Seq(Handlers) /\ IsInjective(ClientEdge(c))
      /\ ClientEdge(c) \in Seq(alive \cup Feeds)
  BY <1>2, ClientEdgeFacts
<1>5. CASE Connect(c)
  <2>1. /\ peer[c] = "new" /\ peer' = [peer EXCEPT ![c] = "open"]
        /\ backlog' = [backlog EXCEPT ![feed[c]] = Append(@, c)]
        /\ ready' = Edge(feed[c])
        /\ UNCHANGED <<feed, messages, size, inbox, unread>>
    BY <1>5 DEF Connect
  <2> DEFINE l == feed[c]
             q == Append(backlog[l], c)
  <2>2. l \in Feeds /\ backlog[l] \in Seq(Conns)
    BY <1>3
  <2>3. /\ q \in Seq(Conns) /\ q # <<>> /\ Len(q) = Len(backlog[l]) + 1 /\ q[Len(backlog[l]) + 1] = c
        /\ \A i \in 1 .. Len(backlog[l]) : q[i] = backlog[l][i]
        /\ Len(backlog[l]) \in Nat
    BY <2>2, AppendProperties, LenProperties
  <2> HIDE DEF q
  <2>4. backlog' \in [Feeds -> Seq(Conns)] /\ backlog'[l] = q
        /\ \A k \in Feeds : k # l => backlog'[k] = backlog[k]
    BY <1>3, <2>1, <2>2, <2>3 DEF TypeOK, q
  <2>5. Edge(l) \in Seq(Handlers) /\ IsInjective(Edge(l)) /\ Edge(l) \in Seq(alive \cup Feeds)
    BY <1>2, <2>2, EdgeFacts DEF Handlers, ReadyIsLive
  <2>6. TypeOK'
    BY <1>2, <1>3, <2>1, <2>4, <2>5 DEF TypeOK, handlers, feeds
  <2>7. Placed'
    <3>1. ASSUME NEW i \in 1 .. Len(q) PROVE feed[q[i]] = l
      <4>1. CASE i = Len(backlog[l]) + 1
        BY <2>3, <4>1
      <4>2. CASE i # Len(backlog[l]) + 1
        <5>1. i \in 1 .. Len(backlog[l])
          BY <2>3, <4>2
        <5>2. feed[backlog[l][i]] = l
          BY <1>3, <2>2, <5>1 DEF Placed
        <5> QED BY <2>3, <5>1, <5>2
      <4> QED BY <4>1, <4>2
    <3> QED BY <1>3, <2>1, <2>4, <3>1 DEF Placed
  <2>8. \A d \in Conns : peer[d] = "reset" => peer'[d] = "reset"
    BY <1>3, <2>1 DEF TypeOK
  <2>9. Explained'
    BY <1>3, <2>1, <2>8 DEF Explained
  <2>10. DanglingOnlyAfterReset'
    BY <1>2, <2>1, <2>8, DanglingKept
  <2>11. Batched'
    BY <1>2, <2>1, <2>3, <2>4, BatchedKept DEF handlers
  <2>12. ReadyIsLive'
    BY <1>2, <2>1, <2>5 DEF ReadyIsLive, handlers
  <2> QED BY <1>2, <1>3, <2>6, <2>7, <2>9, <2>10, <2>11, <2>12 DEF AppInv, handlers
<1>6. ASSUME NEW m \in Messages \cup {"FIN", "RST"}, Arrives(c, m),
             m = "RST" => peer'[c] = "reset",
             peer' \in [Conns -> {"new", "open", "closed", "reset"}],
             \A d \in Conns : peer[d] = "reset" => peer'[d] = "reset",
             messages' \in 0 .. MaxMessages,
             UNCHANGED <<feed, size, backlog, unread>>
      PROVE  AppInv'
  <2> DEFINE q == Append(inbox[c], m)
  <2>1. inbox' = [inbox EXCEPT ![c] = q] /\ ready' = ClientEdge(c)
    BY <1>6 DEF Arrives
  <2>2. /\ q \in Seq(Messages \cup {"FIN", "RST"}) /\ q # <<>>
        /\ Len(q) = Len(inbox[c]) + 1 /\ q[Len(inbox[c]) + 1] = m
        /\ \A i \in 1 .. Len(inbox[c]) : q[i] = inbox[c][i]
        /\ Len(inbox[c]) \in Nat
    <3>1. inbox[c] \in Seq(Messages \cup {"FIN", "RST"})
      BY <1>3
    <3> QED BY <3>1, AppendProperties, LenProperties
  <2> HIDE DEF q
  <2>3. /\ inbox' \in [Conns -> Seq(Messages \cup {"FIN", "RST"})] /\ inbox'[c] = q
        /\ \A d \in Conns : d # c => inbox'[d] = inbox[d]
    BY <1>3, <2>1, <2>2 DEF TypeOK
  <2>4. TypeOK'
    BY <1>2, <1>3, <1>4, <1>6, <2>1, <2>3 DEF TypeOK, handlers, feeds
  <2>5. Placed'
    BY <1>3, <1>6 DEF Placed
  <2>6. Explained'
    <3>1. ASSUME NEW i \in 1 .. Len(q), q[i] = "RST" PROVE peer'[c] = "reset"
      <4>1. CASE i = Len(inbox[c]) + 1
        BY <1>6, <2>2, <3>1, <4>1
      <4>2. CASE i # Len(inbox[c]) + 1
        <5>1. i \in 1 .. Len(inbox[c])
          BY <2>2, <4>2
        <5>2. peer[c] = "reset"
          BY <1>3, <2>2, <3>1, <5>1 DEF Explained
        <5> QED BY <1>6, <5>2
      <4> QED BY <4>1, <4>2
    <3> QED BY <1>3, <1>6, <2>3, <3>1 DEF Explained
  <2>7. DanglingOnlyAfterReset'
    BY <1>2, <1>6, DanglingKept
  <2>8. Batched'
    BY <1>2, <1>6, <2>2, <2>3, BatchedKept DEF handlers
  <2>9. ReadyIsLive'
    BY <1>2, <1>4, <2>1 DEF ReadyIsLive, handlers
  <2> QED BY <1>2, <1>3, <2>4, <2>5, <2>6, <2>7, <2>8, <2>9 DEF AppInv, handlers
<1>7. CASE \E m \in Messages : SendMessage(c, m)
  <2>1. PICK m \in Messages : SendMessage(c, m)
    BY <1>7
  <2>2. /\ messages < MaxMessages /\ messages' = messages + 1 /\ Arrives(c, m)
        /\ UNCHANGED <<peer, feed, size, backlog, unread>>
    BY <2>1 DEF SendMessage
  <2>3. messages' \in 0 .. MaxMessages /\ m # "RST"
    BY <1>3, <2>2, SizesAssumption, KindsAssumption DEF TypeOK
  <2>4. peer' \in [Conns -> {"new", "open", "closed", "reset"}]
    BY <1>3, <2>2 DEF TypeOK
  <2> QED BY <1>6, <2>2, <2>3, <2>4
<1>8. CASE Close(c)
  <2>1. /\ peer[c] = "open" /\ peer' = [peer EXCEPT ![c] = "closed"] /\ Arrives(c, "FIN")
        /\ UNCHANGED <<feed, messages, size, backlog, unread>>
    BY <1>8 DEF Close, Connected
  <2>2. /\ peer' \in [Conns -> {"new", "open", "closed", "reset"}]
        /\ \A d \in Conns : peer[d] = "reset" => peer'[d] = "reset"
    BY <1>3, <2>1 DEF TypeOK
  <2>3. messages' \in 0 .. MaxMessages
    BY <1>3, <2>1 DEF TypeOK
  <2> QED BY <1>6, <2>1, <2>2, <2>3
<1>9. CASE Reset(c)
  <2>1. /\ peer' = [peer EXCEPT ![c] = "reset"] /\ Arrives(c, "RST")
        /\ UNCHANGED <<feed, messages, size, backlog, unread>>
    BY <1>9 DEF Reset
  <2>2. /\ peer' \in [Conns -> {"new", "open", "closed", "reset"}] /\ peer'[c] = "reset"
        /\ \A d \in Conns : peer[d] = "reset" => peer'[d] = "reset"
    BY <1>3, <2>1 DEF TypeOK
  <2>3. messages' \in 0 .. MaxMessages
    BY <1>3, <2>1 DEF TypeOK
  <2> QED BY <1>6, <2>1, <2>2, <2>3
<1>10. CASE Receive(c)
  <2>1. /\ unread[c] > 0 /\ unread' = [unread EXCEPT ![c] = @ - 1]
        /\ ready' = IF unread[c] = SendBuffer THEN ClientEdge(c) ELSE ready
        /\ UNCHANGED <<peer, feed, messages, size, backlog, inbox>>
    BY <1>10 DEF Receive, peers
  <2>2. unread' \in [Conns -> 0 .. SendBuffer]
    <3>1. unread \in [Conns -> 0 .. SendBuffer] /\ SendBuffer \in Nat
      BY <1>3, SizesAssumption DEF TypeOK
    <3>2. unread[c] - 1 \in 0 .. SendBuffer
      BY <2>1, <3>1
    <3> QED BY <2>1, <3>1, <3>2
  <2>3. ready' \in Seq(Handlers) /\ IsInjective(ready)' /\ ready' \in Seq(alive \cup Feeds)
    BY <1>2, <1>3, <1>4, <2>1 DEF TypeOK, ReadyIsLive
  <2>4. TypeOK'
    BY <1>2, <1>3, <2>1, <2>2, <2>3 DEF TypeOK, handlers, feeds
  <2>5. Placed' /\ Explained'
    BY <1>3, <2>1 DEF Placed, Explained
  <2>6. DanglingOnlyAfterReset'
    BY <1>2, <2>1, DanglingKept
  <2>7. Batched'
    BY <1>2, <2>1, BatchedKept DEF handlers
  <2>8. ReadyIsLive'
    BY <1>2, <2>3 DEF ReadyIsLive, handlers
  <2> QED BY <1>2, <1>3, <2>4, <2>5, <2>6, <2>7, <2>8 DEF AppInv, handlers
<1> QED BY <1>1, <1>5, <1>7, <1>8, <1>9, <1>10

-----------------------------------------------------------------------------
(* The thread's steps                                                      *)

LEMMA EpollWaitInv ==
    ASSUME AppInv, state = "up", EpollWait
    PROVE  AppInv'
<1> DEFINE S == {h \in Handlers : Reports(h)}
           q == Reporting
           n == Taken(Len(q))
<1>1. /\ batch' = [i \in 1 .. n |-> [handler |-> q[i], in |-> Readable(q[i])]]
      /\ ready' = SubSeq(q, n + 1, Len(q))
      /\ UNCHANGED <<peers, sockets, handlers, calls, targets, feeds, state>>
  BY DEF EpollWait
<1>2. /\ TypeOK /\ IsFiniteSet(alive) /\ Placed /\ Explained /\ DanglingOnlyAfterReset
      /\ ready \in Seq(Handlers) /\ IsInjective(ready)
  BY Facts
<1>3. ready \in Seq(alive \cup Feeds)
  BY DEF AppInv, ReadyIsLive
<1>4. /\ q \in Seq(Handlers) /\ q \in Seq(alive \cup Feeds) /\ IsInjective(q)
  BY <1>2, <1>3, OnlyFacts DEF Reporting
<1>5. n \in 0 .. Len(q) /\ n <= size.events /\ Len(q) \in Nat /\ DOMAIN q = 1 .. Len(q)
  <2>1. size.events \in Nat /\ Len(q) \in Nat /\ DOMAIN q = 1 .. Len(q)
    BY <1>2, <1>4, SizesAssumption, LenProperties DEF TypeOK
  <2>2. n \in {size.events, Len(q)} /\ n <= size.events /\ n <= Len(q)
    <3> DEFINE a == size.events
               b == Len(q)
    <3> HIDE DEF a, b
    <3>1. a \in Nat /\ b \in Nat
      BY <2>1 DEF a, b
    <3>2. Min({a, b}) \in {a, b} /\ Min({a, b}) <= a /\ Min({a, b}) <= b
      <4>1. \E x \in {a, b} : \A y \in {a, b} : x <= y
        BY <3>1
      <4> QED BY <4>1 DEF Min
    <3> QED BY <3>2 DEF Taken, a, b
  <2> QED BY <2>1, <2>2
<1> HIDE DEF q, n
<1>6. \A i \in 1 .. Len(q) : q[i] \in Handlers /\ q[i] \in alive \cup Feeds
  BY <1>4, ElementOfSeq
<1>7. /\ ready' \in Seq(Handlers) /\ ready' \in Seq(alive \cup Feeds)
      /\ IsInjective(ready')
  <2>1. n + 1 \in Int /\ Len(q) \in Int
    BY <1>5
  <2>2. \A i \in n + 1 .. Len(q) : q[i] \in Handlers /\ q[i] \in alive \cup Feeds
    BY <1>5, <1>6
  <2> DEFINE l == Len(q)
             r == SubSeq(q, n + 1, l)
  <2> HIDE DEF l
  <2>3. l \in Nat /\ n \in 0 .. l
    BY <1>5 DEF l
  <2>4. r \in Seq(Handlers) /\ r \in Seq(alive \cup Feeds)
    BY <2>1, <2>2, SubSeqProperties DEF l
  <2>5. /\ Len(r) = IF n + 1 <= l THEN l - (n + 1) + 1 ELSE 0
        /\ \A i \in 1 .. l - (n + 1) + 1 : r[i] = q[(n + 1) + i - 1]
    BY <2>1, <2>2, SubSeqProperties DEF l
  <2> HIDE DEF r
  <2>6. Len(r) = l - n /\ \A i \in 1 .. l - n : r[i] = q[n + i]
    BY <2>3, <2>5
  <2>7. \A i \in 1 .. l - n : n + i \in 1 .. l
    BY <2>3
  <2>8. DOMAIN r = 1 .. l - n
    BY <2>4, <2>6, LenProperties
  <2>9. \A i, j \in 1 .. l - n : n + i = n + j => i = j
    BY <2>3
  <2>10. IsInjective(r)
    <3> SUFFICES ASSUME NEW i \in 1 .. l - n, NEW j \in 1 .. l - n, r[i] = r[j] PROVE i = j
      BY <2>8 DEF IsInjective
    <3>1. q[n + i] = q[n + j] /\ n + i \in DOMAIN q /\ n + j \in DOMAIN q
      BY <1>5, <2>6, <2>7 DEF l
    <3>2. n + i = n + j
      BY <1>4, <3>1 DEF IsInjective
    <3> QED BY <2>9, <3>2
  <2>11. ready' = r
    BY <1>1 DEF l, r
  <2> QED BY <2>4, <2>10, <2>11
<1>8. /\ batch' \in Seq(Events) /\ Len(batch') = n
      /\ \A i \in 1 .. n : batch'[i] = [handler |-> q[i], in |-> Readable(q[i])]
  <2>1. \A i \in 1 .. n : q[i] \in Handlers
    BY <1>5, <1>6
  <2>2. \A i \in 1 .. n : Readable(q[i]) \in BOOLEAN
    BY DEF Readable
  <2>3. batch' \in [1 .. n -> Events]
    BY <1>1, <2>1, <2>2 DEF Events
  <2>4. batch' \in Seq(Events) /\ Len(batch') = n
    BY <1>5, <2>3, SeqDef
  <2> QED BY <1>1, <2>4
<1>9. TypeOK'
  <2>1. Len(batch') <= size'.events
    BY <1>1, <1>5, <1>8 DEF peers
  <2>2. IsInjective(ready)'
    BY <1>7
  <2> QED BY <1>1, <1>2, <1>7, <1>8, <2>1, <2>2 DEF TypeOK, peers, sockets, handlers, feeds
<1>10. Placed' /\ Explained' /\ DanglingOnlyAfterReset'
  BY <1>1, <1>2 DEF Placed, Explained, DanglingOnlyAfterReset, peers, sockets, handlers
<1>11. ReadyIsLive'
  BY <1>1, <1>7 DEF ReadyIsLive, handlers
<1>12. Batched'
  <2>1. \A i \in 1 .. n : batch'[i].handler \in alive \cup Feeds
    BY <1>5, <1>6, <1>8
  <2>2. ASSUME NEW i \in 1 .. n, batch'[i].in PROVE Readable(batch[i].handler)'
    <3>1. Readable(q[i]) /\ batch'[i].handler = q[i]
      BY <1>8, <2>2
    <3> QED BY <1>1, <3>1 DEF Readable, sockets
  <2>3. \A i, j \in 1 .. n : batch'[i].handler = batch'[j].handler => i = j
    <3>1. \A i \in 1 .. n : i \in DOMAIN q
      BY <1>5
    <3> QED BY <1>4, <1>8, <3>1 DEF IsInjective
  <2>4. alive' = alive /\ Len(batch') = n
    BY <1>1, <1>8 DEF handlers
  <2> QED BY <2>1, <2>2, <2>3, <2>4 DEF Batched
<1> QED BY <1>1, <1>2, <1>9, <1>10, <1>11, <1>12 DEF AppInv, handlers

\* Once an event is handled, the others of the batch are of other handlers.
LEMMA AfterEventFacts ==
    ASSUME AppInv, Batched, batch # <<>>
    PROVE  /\ AfterEvent \in Seq(Events) /\ Len(AfterEvent) <= size.events
           /\ \A i \in 1 .. Len(AfterEvent) :
                /\ AfterEvent[i].handler \in alive \cup Feeds
                /\ AfterEvent[i].handler # Now
                /\ AfterEvent[i].in => Readable(AfterEvent[i].handler)
           /\ \A i, j \in 1 .. Len(AfterEvent) :
                AfterEvent[i].handler = AfterEvent[j].handler => i = j
           /\ Now \in alive \cup Feeds /\ (Acts(Head(batch)) => Readable(Now))
<1>1. batch \in Seq(Events) /\ TypeOK
  BY Facts
<1> DEFINE t == Tail(batch)
           l == Len(batch)
<1>2. /\ t \in Seq(Events) /\ Len(t) = l - 1 /\ \A i \in 1 .. Len(t) : t[i] = batch[i + 1]
      /\ l \in Nat \ {0} /\ batch[1] = Head(batch)
  BY <1>1, HeadTailProperties, EmptySeq
<1> HIDE DEF t, l
<1>3. \A i \in 1 .. Len(t) : i + 1 \in 1 .. l /\ i + 1 # 1
  BY <1>2
<1>4. 1 \in 1 .. l
  BY <1>2
<1>5. /\ \A i \in 1 .. l : batch[i].handler \in alive \cup Feeds
      /\ \A i \in 1 .. l : batch[i].in => Readable(batch[i].handler)
      /\ \A i, j \in 1 .. l : batch[i].handler = batch[j].handler => i = j
  BY DEF Batched, l
<1>6. \A i \in 1 .. Len(t) :
        /\ t[i].handler \in alive \cup Feeds
        /\ t[i].in => Readable(t[i].handler)
  BY <1>2, <1>3, <1>5
<1>7. \A i \in 1 .. Len(t) : t[i].handler # Now
  BY <1>2, <1>3, <1>4, <1>5 DEF Now
<1>8. ASSUME NEW i \in 1 .. Len(t), NEW j \in 1 .. Len(t), t[i].handler = t[j].handler
      PROVE  i = j
  <2>1. i + 1 = j + 1
    BY <1>2, <1>3, <1>5, <1>8
  <2> QED BY <1>2, <2>1
<1>9. Len(t) <= size.events
  <2>1. l <= size.events /\ size.events \in Nat
    BY <1>1, SizesAssumption DEF TypeOK, l
  <2> QED BY <1>2, <2>1
<1>10. Now \in alive \cup Feeds /\ (Acts(Head(batch)) => Readable(Now))
  BY <1>2, <1>4, <1>5 DEF Now, Acts
<1>11. AfterEvent = t
  BY DEF AfterEvent, t
<1> QED BY <1>2, <1>6, <1>7, <1>8, <1>9, <1>10, <1>11

\* What handling the first event leaves of the batch still holds, if the other
\* handlers and what they may read are left alone.
LEMMA BatchedNext ==
    ASSUME AppInv, Batched, batch # <<>>, batch' = AfterEvent,
           alive \ {Now} \subseteq alive',
           \A l \in Feeds \ {Now} : backlog'[l] = backlog[l],
           \A c \in Conns \ {Now} : inbox'[c] = inbox[c]
    PROVE  Batched'
<1> DEFINE t == AfterEvent
<1>1. /\ t \in Seq(Events)
      /\ \A i \in 1 .. Len(t) :
           /\ t[i].handler \in alive \cup Feeds /\ t[i].handler # Now
           /\ t[i].in => Readable(t[i].handler)
      /\ \A i, j \in 1 .. Len(t) : t[i].handler = t[j].handler => i = j
  BY AfterEventFacts
<1>2. batch' = t
  OBVIOUS
<1> HIDE DEF t
<1>3. \A i \in 1 .. Len(batch') : batch'[i].handler \in alive' \cup Feeds
  BY <1>1, <1>2
<1>4. ASSUME NEW i \in 1 .. Len(t), batch'[i].in PROVE Readable(batch[i].handler)'
  <2>1. batch'[i].handler = t[i].handler /\ Readable(t[i].handler)
    BY <1>1, <1>2, <1>4
  <2>2. t[i].handler \in Handlers /\ t[i].handler # Now
    <3>1. alive \subseteq Conns
      BY Facts
    <3> QED BY <1>1, <3>1 DEF Handlers
  <2> QED BY <2>1, <2>2 DEF Readable, Handlers
<1> QED BY <1>1, <1>2, <1>3, <1>4 DEF Batched

LEMMA HandleNothingInv ==
    ASSUME AppInv, state = "up", HandleNothing
    PROVE  AppInv'
<1>1. /\ batch # <<>> /\ batch' = AfterEvent
      /\ UNCHANGED <<peers, sockets, ready, handlers, calls, targets, feeds, state>>
  BY DEF HandleNothing, Handling
<1>2. /\ TypeOK /\ IsFiniteSet(alive) /\ Placed /\ Explained /\ DanglingOnlyAfterReset
      /\ ReadyIsLive /\ Batched
  BY Facts DEF AppInv
<1>3. batch' \in Seq(Events) /\ Len(batch') <= size.events
  BY <1>1, <1>2, AfterEventFacts
<1>4. TypeOK'
  BY <1>1, <1>2, <1>3 DEF TypeOK, peers, sockets, handlers, feeds
<1>5. Placed' /\ Explained' /\ DanglingOnlyAfterReset' /\ ReadyIsLive'
  BY <1>1, <1>2 DEF Placed, Explained, DanglingOnlyAfterReset, ReadyIsLive, peers, sockets, handlers
<1>6. Batched'
  BY <1>1, <1>2, BatchedNext DEF sockets, handlers
<1> QED BY <1>1, <1>2, <1>4, <1>5, <1>6 DEF AppInv, handlers

\* An entry that has become a new handler's was left by a peer that reset.
LEMMA AddressFacts ==
    ASSUME AppInv, NEW c \in Conns, NEW r \in AddressTaken(c)
    PROVE  /\ r \subseteq Conns \X Feeds
           /\ \A d \in alive : <<d, feed[d]>> \in r
           /\ \A e \in r :
                \/ e[1] \in alive /\ e[2] = feed[e[1]]
                \/ \E d \in Conns : feed[d] = e[2] /\ peer[d] = "reset"
<1>1. DanglingOnlyAfterReset /\ registered \subseteq Conns \X Feeds /\ alive \subseteq Conns
  BY Facts
<1>2. CASE r = registered
  BY <1>1, <1>2 DEF DanglingOnlyAfterReset
<1>3. CASE r # registered
  <2>1. PICK g \in Stray : r = Renamed(g[1], c)
    BY <1>3 DEF AddressTaken
  <2>2. g \in registered /\ g[1] \notin alive
    BY <2>1 DEF Stray
  <2> DEFINE G == g[1]
  <2>3. r = {<<IF e[1] = G THEN c ELSE e[1], e[2]>> : e \in registered}
    BY <2>1 DEF Renamed
  <2> HIDE DEF G
  <2>4. G \notin alive
    BY <2>2 DEF G
  <2>5. \A e \in registered : e[1] \in Conns /\ e[2] \in Feeds /\ e = <<e[1], e[2]>>
    BY <1>1
  <2>6. r \subseteq Conns \X Feeds
    BY <2>3, <2>5
  <2>7. ASSUME NEW d \in alive PROVE <<d, feed[d]>> \in r
    <3> DEFINE e == <<d, feed[d]>>
    <3>1. e \in registered /\ e[1] = d /\ e[2] = feed[d] /\ d # G
      BY <1>1, <2>4 DEF DanglingOnlyAfterReset
    <3> HIDE DEF e
    <3>2. <<IF e[1] = G THEN c ELSE e[1], e[2]>> \in r
      BY <2>3, <3>1
    <3> QED BY <3>1, <3>2
  <2>8. ASSUME NEW e \in r
        PROVE  \/ e[1] \in alive /\ e[2] = feed[e[1]]
               \/ \E d \in Conns : feed[d] = e[2] /\ peer[d] = "reset"
    <3>1. PICK x \in registered : e = <<IF x[1] = G THEN c ELSE x[1], x[2]>>
      BY <2>3
    <3>2. e[2] = x[2] /\ (x[1] # G => e[1] = x[1])
      BY <3>1
    <3>3. \/ x[1] \in alive /\ x[2] = feed[x[1]]
          \/ \E d \in Conns : feed[d] = x[2] /\ peer[d] = "reset"
      BY <1>1 DEF DanglingOnlyAfterReset
    <3> QED BY <2>4, <3>2, <3>3
  <2> QED BY <2>6, <2>7, <2>8
<1> QED BY <1>2, <1>3

LEMMA AcceptInv ==
    ASSUME AppInv, state = "up", Handling, NEW l \in Feeds, AcceptConnection(l)
    PROVE  AppInv'
<1>1. /\ batch # <<>> /\ targets = {} /\ batch' = AfterEvent /\ Now = l /\ backlog[l] # <<>>
      /\ UNCHANGED <<peers, inbox, unread, calls, targets, published, sent, state>>
  BY DEF Handling, AcceptConnection
<1>2. /\ TypeOK /\ IsFiniteSet(alive) /\ Placed /\ Explained /\ DanglingOnlyAfterReset
      /\ ReadyIsLive /\ Batched /\ alive \subseteq Conns /\ \A c \in Conns : c \notin Feeds
      /\ backlog[l] \in Seq(Conns)
  BY Facts DEF AppInv
<1>3. batch' \in Seq(Events) /\ Len(batch') <= size.events
  BY <1>1, <1>2, AfterEventFacts
<1>4. Explained'
  BY <1>1, <1>2 DEF Explained, peers
<1>7. size.open \in Nat /\ Cardinality(alive) \in Nat
  BY <1>2, SizesAssumption, FS_CardinalityType DEF TypeOK
<1>5. CASE Cardinality(alive) >= size.open /\ UNCHANGED <<backlog, handlers, joined, ready>>
  <2>1. TypeOK'
    BY <1>1, <1>2, <1>3, <1>5 DEF TypeOK, peers, handlers
  <2>2. Placed' /\ DanglingOnlyAfterReset' /\ ReadyIsLive'
    BY <1>1, <1>2, <1>5 DEF Placed, DanglingOnlyAfterReset, ReadyIsLive, peers, handlers
  <2>3. Batched'
    BY <1>1, <1>2, <1>5, BatchedNext DEF handlers
  <2> QED BY <1>1, <1>2, <1>4, <1>5, <2>1, <2>2, <2>3 DEF AppInv, handlers
<1>6. CASE ~(Cardinality(alive) >= size.open)
  <2> DEFINE q == Tail(backlog[l])
  <2>1. PICK c : c = Head(backlog[l])
    OBVIOUS
  <2>2. /\ Cardinality(alive) < size.open /\ alive' = alive \cup {c}
        /\ \E r \in AddressTaken(c) : registered' = r \cup {<<c, l>>}
        /\ joined' = [joined EXCEPT ![c] = Len(published)] /\ ready' = Edge(c)
        /\ backlog' = [backlog EXCEPT ![l] = q]
    BY <1>6, <2>1 DEF AcceptConnection
  <2>3. /\ c \in Conns /\ c = backlog[l][1] /\ 1 \in 1 .. Len(backlog[l])
        /\ q \in Seq(Conns) /\ \A i \in 1 .. Len(q) : q[i] = backlog[l][i + 1]
        /\ \A i \in 1 .. Len(q) : i + 1 \in 1 .. Len(backlog[l])
    BY <1>1, <1>2, <2>1, HeadTailProperties, EmptySeq, LenProperties
  <2> HIDE DEF q
  <2>4. feed[c] = l
    BY <1>2, <2>3 DEF Placed
  <2>5. PICK r \in AddressTaken(c) : registered' = r \cup {<<c, l>>}
    BY <2>2
  <2>6. /\ r \subseteq Conns \X Feeds
        /\ \A d \in alive : <<d, feed[d]>> \in r
        /\ \A e \in r :
             \/ e[1] \in alive /\ e[2] = feed[e[1]]
             \/ \E d \in Conns : feed[d] = e[2] /\ peer[d] = "reset"
    BY <2>3, AddressFacts
  <2>7. /\ backlog' \in [Feeds -> Seq(Conns)] /\ backlog'[l] = q
        /\ \A k \in Feeds \ {l} : backlog'[k] = backlog[k]
    BY <1>2, <2>2, <2>3 DEF TypeOK
  <2>8. /\ ready' \in Seq(Handlers) /\ IsInjective(ready') /\ ready' \in Seq(alive' \cup Feeds)
    <3>1. c \in Handlers /\ c \in alive' \cup Feeds
      BY <2>2, <2>3 DEF Handlers
    <3>2. ready \in Seq(alive' \cup Feeds)
      <4>1. alive \cup Feeds \subseteq alive' \cup Feeds
        BY <2>2
      <4> QED BY <1>2, <4>1, SeqMonotonic DEF ReadyIsLive
    <3> QED BY <2>2, <3>1, <3>2, EdgeFacts
  <2>9. IsFiniteSet(alive') /\ Cardinality(alive') <= size.open
    <3>1. /\ IsFiniteSet(alive \cup {c})
          /\ Cardinality(alive \cup {c}) = IF c \in alive THEN Cardinality(alive) ELSE Cardinality(alive) + 1
      BY <1>2, FS_AddElement
    <3>2. Cardinality(alive \cup {c}) <= size.open
      BY <1>7, <2>2, <3>1
    <3> QED BY <2>2, <3>1, <3>2
  <2>10. joined' \in [Conns -> Nat]
    <3>1. Len(published) \in Nat /\ joined \in [Conns -> Nat]
      BY <1>2, LenProperties DEF TypeOK
    <3> QED BY <2>2, <3>1
  <2>11. registered' \subseteq Conns \X Feeds /\ alive' \subseteq Conns
    BY <1>2, <2>2, <2>3, <2>5, <2>6
  <2>12. TypeOK'
    BY <1>1, <1>2, <1>3, <2>7, <2>8, <2>9, <2>10, <2>11 DEF TypeOK, peers
  <2>13. Placed'
    <3>1. \A i \in 1 .. Len(q) : feed[q[i]] = l
      BY <1>2, <2>3 DEF Placed
    <3> QED BY <1>1, <1>2, <2>7, <3>1 DEF Placed, peers
  <2>14. DanglingOnlyAfterReset'
    <3>1. feed' = feed /\ peer' = peer
      BY <1>1 DEF peers
    <3>2. ASSUME NEW d \in alive' PROVE <<d, feed'[d]>> \in registered'
      BY <2>2, <2>4, <2>5, <2>6, <3>1
    <3>3. ASSUME NEW e \in registered'
          PROVE  \/ e[1] \in alive' /\ e[2] = feed'[e[1]]
                 \/ \E d \in Conns : feed'[d] = e[2] /\ peer'[d] = "reset"
      <4>1. CASE e \in r
        BY <2>2, <2>6, <3>1, <4>1
      <4>2. CASE e = <<c, l>>
        BY <2>2, <2>4, <3>1, <4>2
      <4> QED BY <2>5, <4>1, <4>2
    <3> QED BY <3>2, <3>3 DEF DanglingOnlyAfterReset
  <2>15. Batched'
    <3>1. alive \ {Now} \subseteq alive'
      BY <2>2
    <3>2. \A d \in Conns \ {Now} : inbox'[d] = inbox[d]
      BY <1>1
    <3>3. \A k \in Feeds \ {Now} : backlog'[k] = backlog[k]
      BY <1>1, <2>7
    <3> QED BY <1>1, <1>2, <3>1, <3>2, <3>3, BatchedNext
  <2>16. ReadyIsLive'
    BY <2>8 DEF ReadyIsLive
  <2> QED BY <1>4, <2>9, <2>12, <2>13, <2>14, <2>15, <2>16 DEF AppInv
<1> QED BY <1>5, <1>6, <1>7 DEF AcceptConnection

LEMMA ChunkFacts ==
    ASSUME AppInv, NEW c \in Conns
    PROVE  /\ AfterChunk(c) \in Seq(Messages \cup {"FIN", "RST"})
           /\ \A i \in 1 .. Len(AfterChunk(c)) : AfterChunk(c)[i] = "RST" => peer[c] = "reset"
           /\ Chunk(c) = <<>> /\ inbox[c] # <<>> /\ Head(inbox[c]) = "RST" => peer[c] = "reset"
<1> DEFINE q == inbox[c]
           T == Messages \cup {"FIN", "RST"}
<1>1. q \in Seq(T) /\ Explained
  BY Facts
<1>2. \A i \in 1 .. Len(q) : q[i] = "RST" => peer[c] = "reset"
  BY <1>1 DEF Explained
<1>3. CASE ~Ended(c)
  <2>1. AfterChunk(c) = <<>> /\ Chunk(c) = q
    BY <1>3 DEF AfterChunk, Chunk
  <2> QED BY <2>1
<1>4. CASE Ended(c)
  <2>1. q # <<>> /\ AfterChunk(c) = <<q[Len(q)]>>
    BY <1>4 DEF Ended, AfterChunk, Last
  <2>2. Len(q) \in 1 .. Len(q) /\ 1 \in 1 .. Len(q) /\ Head(q) = q[1]
    BY <1>1, <2>1, EmptySeq, HeadTailProperties
  <2>3. q[Len(q)] \in T
    BY <1>1, <2>2, ElementOfSeq
  <2> HIDE DEF q, T
  <2>4. PICK x : x = q[Len(q)]
    OBVIOUS
  <2>5. x \in T /\ (x = "RST" => peer[c] = "reset") /\ AfterChunk(c) = <<x>>
    BY <1>2, <2>1, <2>2, <2>3, <2>4
  <2>6. <<x>> \in Seq(T) /\ Len(<<x>>) = 1 /\ \A i \in 1 .. 1 : <<x>>[i] = x
    BY <2>5
  <2> QED BY <1>2, <2>2, <2>5, <2>6 DEF q, T
<1> QED BY <1>3, <1>4

LEMMA ReadMessagesInv ==
    ASSUME AppInv, state = "up", Handling, NEW c \in Conns, ReadMessages(c)
    PROVE  AppInv'
<1>1. /\ batch # <<>> /\ calls = <<>> /\ targets = {} /\ Now = c
      /\ inbox' = [inbox EXCEPT ![c] = AfterChunk(c)]
      /\ \/ state' = "exception" /\ UNCHANGED <<calls, batch>>
         \/ (calls' \in Effects \/ calls' = calls) /\ batch' = AfterEvent /\ UNCHANGED state
      /\ UNCHANGED <<peers, backlog, unread, ready, handlers, targets, feeds>>
  BY DEF Handling, ReadMessages
<1>2. /\ TypeOK /\ IsFiniteSet(alive) /\ Placed /\ Explained /\ DanglingOnlyAfterReset
      /\ ReadyIsLive /\ Batched
  BY Facts DEF AppInv
<1>3. batch' \in Seq(Events) /\ Len(batch') <= size.events
  BY <1>1, <1>2, AfterEventFacts DEF TypeOK
<1>4. /\ inbox' \in [Conns -> Seq(Messages \cup {"FIN", "RST"})] /\ inbox'[c] = AfterChunk(c)
      /\ \A d \in Conns \ {c} : inbox'[d] = inbox[d]
  BY <1>1, <1>2, ChunkFacts DEF TypeOK
<1>5. calls' \in Seq(Feeds)
  BY <1>1, <1>2, EffectsAssumption DEF TypeOK
<1>6. TypeOK'
  BY <1>1, <1>2, <1>3, <1>4, <1>5 DEF TypeOK, peers, handlers, feeds
<1>7. Placed' /\ DanglingOnlyAfterReset' /\ ReadyIsLive'
  BY <1>1, <1>2 DEF Placed, DanglingOnlyAfterReset, ReadyIsLive, peers, handlers
<1>8. Explained'
  <2>1. \A i \in 1 .. Len(inbox'[c]) : inbox'[c][i] = "RST" => peer[c] = "reset"
    BY <1>4, ChunkFacts
  <2> QED BY <1>1, <1>2, <1>4, <2>1 DEF Explained, peers
<1>9. state' = "up" => Batched'
  <2>1. alive' = alive /\ backlog' = backlog
    BY <1>1 DEF handlers
  <2> QED BY <1>1, <1>2, <1>4, <2>1, BatchedNext
<1> QED BY <1>1, <1>2, <1>6, <1>7, <1>8, <1>9 DEF AppInv, handlers

\* A handler that goes takes itself out of epoll, and only a reset leaves its
\* entry in event_handlers_.
LEMMA ReadEndInv ==
    ASSUME AppInv, state = "up", Handling, NEW c \in Conns, ReadEnd(c)
    PROVE  AppInv'
<1>1. /\ batch # <<>> /\ targets = {} /\ Now = c /\ batch' = AfterEvent
      /\ Chunk(c) = <<>> /\ inbox[c] # <<>> /\ inbox' = [inbox EXCEPT ![c] = <<>>]
      /\ \/ Disconnect(c)
         \/ Head(inbox[c]) = "RST" /\ Fail(c)
      /\ UNCHANGED <<peers, backlog, unread, calls, targets, feeds, state>>
  BY DEF Handling, ReadEnd
<1>2. /\ TypeOK /\ IsFiniteSet(alive) /\ Placed /\ Explained /\ DanglingOnlyAfterReset
      /\ ReadyIsLive /\ Batched /\ ready \in Seq(Handlers) /\ IsInjective(ready)
      /\ alive \subseteq Conns /\ registered \subseteq Conns \X Feeds
      /\ \A d \in Conns : feed[d] \in Feeds /\ d \notin Feeds
  BY Facts DEF AppInv
<1>3. batch' \in Seq(Events) /\ Len(batch') <= size.events
  BY <1>1, <1>2, AfterEventFacts
<1>4. alive' = alive \ {c} /\ ready' = RemoveFirst(ready, c)
      /\ registered' \in {registered, registered \ {<<c, feed[c]>>}}
      /\ (registered' = registered => Head(inbox[c]) = "RST" \/ <<c, feed[c]>> \notin registered)
  BY <1>1 DEF Disconnect, Fail, Without, Unregistered
<1>5. /\ inbox' \in [Conns -> Seq(Messages \cup {"FIN", "RST"})] /\ inbox'[c] = <<>>
      /\ \A d \in Conns \ {c} : inbox'[d] = inbox[d]
  BY <1>1, <1>2 DEF TypeOK
<1>6. ready' \in Seq(Handlers) /\ IsInjective(ready') /\ ready' \in Seq(alive' \cup Feeds)
  <2> DEFINE r == RemoveFirst(ready, c)
             T == alive \cup Feeds
  <2>1. r \in Seq(Handlers) /\ IsInjective(r)
    BY <1>2, RemoveFacts
  <2>2. ready \in Seq(T)
    BY <1>2 DEF ReadyIsLive
  <2> HIDE DEF T
  <2>3. r \in Seq(T) /\ \A i \in 1 .. Len(r) : r[i] # c
    BY <1>2, <2>2, RemoveFacts
  <2> HIDE DEF r
  <2>4. \A i \in 1 .. Len(r) : r[i] \in T \ {c}
    BY <2>3, ElementOfSeq
  <2>5. r \in [1 .. Len(r) -> T \ {c}] /\ Len(r) \in Nat
    BY <2>3, <2>4, LenProperties
  <2>6. r \in Seq(T \ {c})
    BY <2>5, SeqDef
  <2>7. T \ {c} \subseteq alive' \cup Feeds
    BY <1>4 DEF T
  <2>8. r \in Seq(alive' \cup Feeds)
    BY <2>6, <2>7, SeqMonotonic
  <2> QED BY <1>4, <2>1, <2>8 DEF r
<1>7. IsFiniteSet(alive') /\ Cardinality(alive') <= size.open
  <2>1. size.open \in Nat /\ Cardinality(alive) \in Nat
    BY <1>2, SizesAssumption, FS_CardinalityType DEF TypeOK
  <2>2. /\ IsFiniteSet(alive \ {c})
        /\ Cardinality(alive \ {c}) = IF c \in alive THEN Cardinality(alive) - 1 ELSE Cardinality(alive)
    BY <1>2, FS_RemoveElement
  <2>3. Cardinality(alive \ {c}) <= size.open
    <3>1. Cardinality(alive) <= size.open
      BY <1>2 DEF TypeOK
    <3> QED BY <2>1, <2>2, <3>1
  <2> QED BY <1>4, <2>2, <2>3
<1>8. TypeOK'
  <2>1. registered' \subseteq Conns \X Feeds /\ alive' \subseteq Conns /\ targets' \subseteq registered'
    BY <1>1, <1>2, <1>4
  <2> QED BY <1>1, <1>2, <1>3, <1>5, <1>6, <1>7, <2>1 DEF TypeOK, peers, feeds
<1>9. Placed' /\ ReadyIsLive'
  BY <1>1, <1>2, <1>6 DEF Placed, ReadyIsLive, peers
<1>10. Explained'
  BY <1>1, <1>2, <1>5 DEF Explained, peers
<1>11. DanglingOnlyAfterReset'
  <2>1. feed' = feed /\ peer' = peer
    BY <1>1 DEF peers
  <2>2. registered' = registered => peer[c] = "reset" \/ <<c, feed[c]>> \notin registered
    BY <1>1, <1>4, ChunkFacts
  <2>3. \A d \in alive' : <<d, feed'[d]>> \in registered'
    BY <1>2, <1>4, <2>1 DEF DanglingOnlyAfterReset
  <2>4. ASSUME NEW e \in registered'
        PROVE  \/ e[1] \in alive' /\ e[2] = feed'[e[1]]
               \/ \E d \in Conns : feed'[d] = e[2] /\ peer'[d] = "reset"
    <3>1. e \in registered /\ e = <<e[1], e[2]>>
      BY <1>2, <1>4
    <3>2. \/ e[1] \in alive /\ e[2] = feed[e[1]]
          \/ \E d \in Conns : feed[d] = e[2] /\ peer[d] = "reset"
      BY <1>2, <3>1 DEF DanglingOnlyAfterReset
    <3>3. CASE e[1] = c /\ e[2] = feed[c]
      BY <1>4, <2>1, <2>2, <3>1, <3>3
    <3>4. CASE ~(e[1] = c /\ e[2] = feed[c])
      BY <1>4, <2>1, <3>2, <3>4
    <3> QED BY <3>3, <3>4
  <2> QED BY <2>3, <2>4 DEF DanglingOnlyAfterReset
<1>12. Batched'
  <2>1. alive \ {Now} \subseteq alive'
    BY <1>1, <1>4
  <2>2. \A d \in Conns \ {Now} : inbox'[d] = inbox[d]
    BY <1>1, <1>5
  <2> QED BY <1>1, <1>2, <2>1, <2>2, BatchedNext
<1> QED BY <1>7, <1>8, <1>9, <1>10, <1>11, <1>12 DEF AppInv

LEMMA BroadcastInv ==
    ASSUME AppInv, state = "up", Broadcast
    PROVE  AppInv'
<1>1. /\ calls # <<>> /\ targets' \in Targets(Head(calls))
      /\ published' = Append(published, Head(calls)) /\ calls' = Tail(calls)
      /\ UNCHANGED <<peers, sockets, ready, batch, handlers, joined, sent, state>>
  BY DEF Broadcast
<1>2. /\ TypeOK /\ IsFiniteSet(alive) /\ Placed /\ Explained /\ DanglingOnlyAfterReset
      /\ ReadyIsLive /\ Batched
  BY Facts DEF AppInv
<1>3. calls' \in Seq(Feeds) /\ published' \in Seq(Feeds)
  <2>1. calls \in Seq(Feeds) /\ published \in Seq(Feeds)
    BY <1>2 DEF TypeOK
  <2> QED BY <1>1, <2>1, HeadTailProperties, AppendProperties
<1>4. targets' \subseteq registered
  BY <1>1 DEF Targets, Stray
<1>5. TypeOK'
  BY <1>1, <1>2, <1>3, <1>4 DEF TypeOK, peers, sockets, handlers
<1>6. Placed' /\ Explained' /\ DanglingOnlyAfterReset' /\ ReadyIsLive'
  BY <1>1, <1>2 DEF Placed, Explained, DanglingOnlyAfterReset, ReadyIsLive, peers, sockets, handlers
<1>7. Batched'
  BY <1>1, <1>2, BatchedKept DEF sockets, handlers
<1> QED BY <1>1, <1>2, <1>5, <1>6, <1>7 DEF AppInv, handlers

LEMMA SendInv ==
    ASSUME AppInv, state = "up", Send
    PROVE  AppInv'
<1>1. PICK e \in targets : SendUpdate(e) \/ SendDangling(e)
  BY DEF Send
<1>2. /\ TypeOK /\ IsFiniteSet(alive) /\ Placed /\ Explained /\ DanglingOnlyAfterReset
      /\ ReadyIsLive /\ Batched /\ ready \in Seq(Handlers) /\ IsInjective(ready)
      /\ alive \subseteq Conns
  BY Facts DEF AppInv
<1>3. UNCHANGED <<peers, backlog, inbox, batch, handlers, calls, published, joined>>
  BY DEF Send
<1>4. /\ unread' \in [Conns -> 0 .. SendBuffer] /\ sent' \in [Conns -> Seq(Nat)]
      /\ targets' \subseteq targets /\ state' \in {"up", "undefined"}
      /\ ready' \in Seq(Handlers) /\ IsInjective(ready') /\ ready' \in Seq(alive \cup Feeds)
  <2>1. CASE SendUpdate(e)
    <3> DEFINE c == e[1]
    <3>1. /\ c \in alive /\ targets' = targets \ {e} /\ state' = state
          /\ \/ /\ unread[c] < SendBuffer /\ unread' = [unread EXCEPT ![c] = @ + 1]
                /\ sent' = [sent EXCEPT ![c] = Append(@, Len(published))]
                /\ ready' = ready
             \/ ready' = Edge(c) /\ UNCHANGED <<unread, sent>>
      BY <2>1 DEF SendUpdate
    <3> HIDE DEF c
    <3>2. c \in Conns /\ c \in Handlers /\ c \in alive \cup Feeds
      BY <1>2, <3>1 DEF Handlers
    <3>3. unread' \in [Conns -> 0 .. SendBuffer]
      <4>1. unread \in [Conns -> 0 .. SendBuffer] /\ SendBuffer \in Nat
        BY <1>2, SizesAssumption DEF TypeOK
      <4>2. unread[c] < SendBuffer => unread[c] + 1 \in 0 .. SendBuffer
        BY <3>2, <4>1
      <4> QED BY <3>1, <4>1, <4>2
    <3>4. sent' \in [Conns -> Seq(Nat)]
      <4>1. sent \in [Conns -> Seq(Nat)] /\ Len(published) \in Nat
        BY <1>2, LenProperties DEF TypeOK
      <4>2. sent[c] \in Seq(Nat)
        BY <3>2, <4>1
      <4>3. Append(sent[c], Len(published)) \in Seq(Nat)
        BY <4>1, <4>2, AppendProperties
      <4> QED BY <3>1, <4>1, <4>3
    <3>5. ready' \in Seq(Handlers) /\ IsInjective(ready') /\ ready' \in Seq(alive \cup Feeds)
      <4>1. /\ Edge(c) \in Seq(Handlers) /\ IsInjective(Edge(c)) /\ Edge(c) \in Seq(alive \cup Feeds)
        BY <1>2, <3>2, EdgeFacts DEF ReadyIsLive
      <4> QED BY <1>2, <3>1, <4>1 DEF ReadyIsLive
    <3> QED BY <3>1, <3>3, <3>4, <3>5
  <2>2. CASE SendDangling(e)
    BY <1>2, <2>2 DEF SendDangling, TypeOK, ReadyIsLive
  <2> QED BY <1>1, <2>1, <2>2
<1>5. TypeOK'
  BY <1>2, <1>3, <1>4 DEF TypeOK, peers, handlers
<1>6. Placed' /\ Explained' /\ DanglingOnlyAfterReset'
  BY <1>2, <1>3 DEF Placed, Explained, DanglingOnlyAfterReset, peers, handlers
<1>7. ReadyIsLive'
  BY <1>3, <1>4 DEF ReadyIsLive, handlers
<1>8. Batched'
  BY <1>2, <1>3, BatchedKept DEF handlers
<1> QED BY <1>2, <1>3, <1>5, <1>6, <1>7, <1>8 DEF AppInv, handlers

-----------------------------------------------------------------------------
(* The feeds: what a connection has been given and what it is still to be  *)
(* given of the update being broadcast make up what is due to it.          *)

Pending(c) == {f \in Feeds : <<c, f>> \in targets}
Waits(c) == peer[c] = "new" \/ \E l \in Feeds : \E i \in 1 .. Len(backlog[l]) : backlog[l][i] = c

\* A connection is in one backlog, once, and is given nothing before it is
\* accepted.
Newcomers ==
    /\ \A l \in Feeds : IsInjective(backlog[l])
    /\ \A l \in Feeds : \A i \in 1 .. Len(backlog[l]) : peer[backlog[l][i]] # "new"
    /\ \A c \in Conns : Waits(c) => c \notin alive /\ sent[c] = <<>>

\* Only the last update is being sent, to connections of its feed.
Sending ==
    /\ \A c \in Conns : joined[c] <= Len(published)
    /\ \A e \in targets : e[1] \in alive =>
         /\ published # <<>> /\ published[Len(published)] = feed[e[1]]
         /\ joined[e[1]] < Len(published)

Left(c, n) == IF n = Len(published) THEN Cardinality(Pending(c)) ELSE 0
Given ==
    \A c \in alive :
        /\ InOrder(c) /\ \A i \in 1 .. Len(sent[c]) : sent[c][i] \in 1 .. Len(published)
        /\ peer[c] = "open" =>
            \A n \in 1 .. Len(published) :
                Times(c, n) + Left(c, n) = IF Due(c, n) THEN Copies(c) ELSE 0

FeedInv == Newcomers /\ Sending /\ Given

LEMMA FeedFacts ==
    ASSUME AppInv
    PROVE  /\ \A c \in Conns : sent[c] \in Seq(Nat) /\ joined[c] \in Nat /\ feed[c] \in Feeds
           /\ published \in Seq(Feeds) /\ Len(published) \in Nat
           /\ \A c \in Conns : Len(sent[c]) \in Nat /\ DOMAIN sent[c] = 1 .. Len(sent[c])
           /\ \A l \in Feeds : backlog[l] \in Seq(Conns) /\ Len(backlog[l]) \in Nat
                                /\ DOMAIN backlog[l] = 1 .. Len(backlog[l])
           /\ alive \subseteq Conns /\ targets \subseteq registered
           /\ registered \subseteq Conns \X Feeds
<1>1. TypeOK
  BY Facts
<1>2. \A c \in Conns : sent[c] \in Seq(Nat) /\ joined[c] \in Nat /\ feed[c] \in Feeds
  BY <1>1 DEF TypeOK
<1>3. published \in Seq(Feeds) /\ \A l \in Feeds : backlog[l] \in Seq(Conns)
  BY <1>1 DEF TypeOK
<1>4. \A c \in Conns : Len(sent[c]) \in Nat /\ DOMAIN sent[c] = 1 .. Len(sent[c])
  BY <1>2, LenProperties
<1>5. \A l \in Feeds : Len(backlog[l]) \in Nat /\ DOMAIN backlog[l] = 1 .. Len(backlog[l])
  BY <1>3, LenProperties
<1>6. Len(published) \in Nat
  BY <1>3, LenProperties
<1> QED BY <1>1, <1>2, <1>3, <1>4, <1>5, <1>6 DEF TypeOK

\* A step that gives nothing to a connection: of a peer, of epoll, of a read.
LEMMA FeedQuiet ==
    ASSUME AppInv, FeedInv, UNCHANGED <<feed, backlog, feeds, targets>>, alive' \subseteq alive,
           \A c \in Conns : peer'[c] \in {"new", "open"} => peer'[c] = peer[c],
           \A c \in Conns : peer'[c] = "new" <=> peer[c] = "new",
           \A c \in alive' : \A f \in Feeds : <<c, f>> \in registered' <=> <<c, f>> \in registered
    PROVE  FeedInv'
<1>1. /\ published' = published /\ joined' = joined /\ sent' = sent /\ feed' = feed
      /\ backlog' = backlog /\ targets' = targets
  BY DEF feeds
<1>2. Newcomers /\ Sending /\ Given /\ alive \subseteq Conns
  BY FeedFacts DEF FeedInv
<1>3. Newcomers'
  <2>1. \A l \in Feeds : IsInjective(backlog'[l])
    BY <1>1, <1>2 DEF Newcomers
  <2>2. \A l \in Feeds : \A i \in 1 .. Len(backlog'[l]) : peer'[backlog'[l][i]] # "new"
    <3>1. \A l \in Feeds : \A i \in 1 .. Len(backlog[l]) : backlog[l][i] \in Conns
      BY FeedFacts, ElementOfSeq
    <3> QED BY <1>1, <1>2, <3>1 DEF Newcomers
  <2>3. \A c \in Conns : Waits(c)' => Waits(c)
    BY <1>1 DEF Waits
  <2>4. \A c \in Conns : Waits(c)' => c \notin alive' /\ sent'[c] = <<>>
    BY <1>1, <1>2, <2>3 DEF Newcomers
  <2> QED BY <2>1, <2>2, <2>4 DEF Newcomers
<1>4. Sending'
  BY <1>1, <1>2 DEF Sending
<1>5. Given'
  <2> SUFFICES ASSUME NEW c \in alive'
               PROVE  /\ InOrder(c)' /\ \A i \in 1 .. Len(sent'[c]) : sent'[c][i] \in 1 .. Len(published')
                      /\ peer'[c] = "open" =>
                          \A n \in 1 .. Len(published') :
                              (Times(c, n) + Left(c, n))' = IF Due(c, n)' THEN Copies(c)' ELSE 0
    BY DEF Given
  <2>1. c \in alive /\ c \in Conns
    BY <1>2
  <2>2. InOrder(c)' = InOrder(c) /\ Copies(c)' = Copies(c) /\ Pending(c)' = Pending(c)
    <3>1. {f \in Feeds : <<c, f>> \in registered'} = {f \in Feeds : <<c, f>> \in registered}
      OBVIOUS
    <3> QED BY <1>1, <3>1 DEF InOrder, Copies, Pending
  <2>3. \A n : Times(c, n)' = Times(c, n) /\ Due(c, n)' = Due(c, n) /\ Left(c, n)' = Left(c, n)
    BY <1>1, <2>2 DEF Times, Due, Left
  <2>4. peer'[c] = "open" => peer[c] = "open"
    BY <2>1
  <2> QED BY <1>1, <1>2, <2>1, <2>2, <2>3, <2>4 DEF Given
<1> QED BY <1>3, <1>4, <1>5 DEF FeedInv

\* A peer that connects was new: it is in no backlog yet.
LEMMA ConnectFeed ==
    ASSUME AppInv, FeedInv, NEW c \in Conns, Connect(c),
           UNCHANGED <<handlers, targets, feeds>>
    PROVE  FeedInv'
<1>1. /\ peer[c] = "new" /\ peer' = [peer EXCEPT ![c] = "open"]
      /\ backlog' = [backlog EXCEPT ![feed[c]] = Append(@, c)] /\ feed' = feed
      /\ published' = published /\ joined' = joined /\ sent' = sent
      /\ alive' = alive /\ registered' = registered /\ targets' = targets
  BY DEF Connect, handlers, feeds
<1>2. Newcomers /\ Sending /\ Given /\ alive \subseteq Conns
  BY FeedFacts DEF FeedInv
<1>3. TypeOK
  BY Facts
<1>4. peer'[c] = "open" /\ \A d \in Conns \ {c} : peer'[d] = peer[d]
  BY <1>1, <1>3 DEF TypeOK
<1> DEFINE l == feed[c]
           q == backlog[l]
           t == Append(q, c)
           N == Len(q)
<1>5. l \in Feeds /\ q \in Seq(Conns) /\ N \in Nat /\ DOMAIN q = 1 .. N
  BY FeedFacts
<1>6. /\ t \in Seq(Conns) /\ Len(t) = N + 1 /\ t[N + 1] = c /\ DOMAIN t = 1 .. N + 1
      /\ \A i \in 1 .. N : t[i] = q[i]
  BY <1>5, AppendProperties, LenProperties
<1>7. backlog'[l] = t /\ \A k \in Feeds \ {l} : backlog'[k] = backlog[k]
  BY <1>1, <1>3, <1>5 DEF TypeOK
<1>8. c \notin alive /\ sent[c] = <<>>
  BY <1>1, <1>2 DEF Newcomers, Waits
<1>9. \A k \in Feeds : \A i \in 1 .. Len(backlog[k]) : backlog[k][i] # c /\ backlog[k][i] \in Conns
  <2>1. \A k \in Feeds : \A i \in 1 .. Len(backlog[k]) : backlog[k][i] \in Conns
    BY FeedFacts, ElementOfSeq
  <2> QED BY <1>1, <1>2, <2>1 DEF Newcomers
<1>10. /\ IsInjective(q) /\ \A i \in 1 .. N : q[i] # c /\ q[i] \in Conns
  BY <1>2, <1>5, <1>9 DEF Newcomers
<1> HIDE DEF t, q, N, l
<1>11. \A i \in 1 .. N + 1 : i = N + 1 \/ i \in 1 .. N
  BY <1>5
<1>12. IsInjective(t)
  <2> SUFFICES ASSUME NEW a \in 1 .. N + 1, NEW b \in 1 .. N + 1, t[a] = t[b] PROVE a = b
    BY <1>6 DEF IsInjective
  <2>1. CASE a \in 1 .. N /\ b \in 1 .. N
    BY <1>5, <1>6, <1>10, <2>1 DEF IsInjective
  <2>2. CASE a = N + 1 \/ b = N + 1
    BY <1>6, <1>10, <1>11, <2>2
  <2> QED BY <1>11, <2>1, <2>2
<1>13. Newcomers'
  <2>1. ASSUME NEW k \in Feeds PROVE IsInjective(backlog'[k])
    BY <1>2, <1>7, <1>12 DEF Newcomers
  <2>2. ASSUME NEW k \in Feeds, NEW i \in 1 .. Len(backlog'[k]) PROVE peer'[backlog'[k][i]] # "new"
    <3>1. CASE k = l
      <4>1. backlog'[k][i] = t[i] /\ i \in 1 .. N + 1
        BY <1>6, <1>7, <2>2, <3>1
      <4>2. CASE i = N + 1
        BY <1>4, <1>6, <4>1, <4>2
      <4>3. CASE i \in 1 .. N
        <5>1. peer[q[i]] # "new"
          BY <1>2, <1>5, <4>3 DEF Newcomers, q, N
        <5> QED BY <1>4, <1>6, <1>10, <4>1, <4>3, <5>1
      <4> QED BY <1>11, <4>1, <4>2, <4>3
    <3>2. CASE k # l
      BY <1>2, <1>4, <1>7, <1>9, <2>2, <3>2 DEF Newcomers
    <3> QED BY <3>1, <3>2
  <2>3. ASSUME NEW d \in Conns, Waits(d)' PROVE d = c \/ Waits(d)
    <3>1. CASE peer'[d] = "new"
      BY <1>4, <3>1 DEF Waits
    <3>2. CASE \E k \in Feeds : \E i \in 1 .. Len(backlog'[k]) : backlog'[k][i] = d
      <4>1. PICK k \in Feeds : \E i \in 1 .. Len(backlog'[k]) : backlog'[k][i] = d
        BY <3>2
      <4>2. PICK i \in 1 .. Len(backlog'[k]) : backlog'[k][i] = d
        BY <4>1
      <4>3. CASE k # l
        BY <1>7, <4>2, <4>3 DEF Waits
      <4>4. CASE k = l
        <5>1. t[i] = d /\ i \in 1 .. N + 1
          BY <1>6, <1>7, <4>2, <4>4
        <5>2. CASE i = N + 1
          BY <1>6, <5>1, <5>2
        <5>3. CASE i \in 1 .. N
          <6>1. backlog[l][i] = d /\ i \in 1 .. Len(backlog[l])
            BY <1>6, <5>1, <5>3 DEF q, N
          <6> QED BY <1>5, <6>1 DEF Waits
        <5> QED BY <1>11, <5>1, <5>2, <5>3
      <4> QED BY <4>3, <4>4
    <3> QED BY <2>3, <3>1, <3>2 DEF Waits
  <2>4. \A d \in Conns : Waits(d)' => d \notin alive' /\ sent'[d] = <<>>
    BY <1>1, <1>2, <1>8, <2>3 DEF Newcomers
  <2> QED BY <2>1, <2>2, <2>4 DEF Newcomers
<1>14. Sending'
  BY <1>1, <1>2 DEF Sending
<1>15. Given'
  <2> SUFFICES ASSUME NEW d \in alive'
               PROVE  /\ InOrder(d)' /\ \A i \in 1 .. Len(sent'[d]) : sent'[d][i] \in 1 .. Len(published')
                      /\ peer'[d] = "open" =>
                          \A n \in 1 .. Len(published') :
                              (Times(d, n) + Left(d, n))' = IF Due(d, n)' THEN Copies(d)' ELSE 0
    BY DEF Given
  <2>1. d \in alive /\ d \in Conns /\ d # c /\ peer'[d] = peer[d]
    BY <1>1, <1>2, <1>4, <1>8
  <2>2. InOrder(d)' = InOrder(d) /\ Copies(d)' = Copies(d) /\ Pending(d)' = Pending(d)
    BY <1>1 DEF InOrder, Copies, Pending
  <2>3. \A n : Times(d, n)' = Times(d, n) /\ Due(d, n)' = Due(d, n) /\ Left(d, n)' = Left(d, n)
    BY <1>1, <2>2 DEF Times, Due, Left
  <2> QED BY <1>1, <1>2, <2>1, <2>2, <2>3 DEF Given
<1> QED BY <1>13, <1>14, <1>15 DEF FeedInv

\* A connection that is accepted leaves its backlog, and nothing is due to it
\* yet; the entries of the others are not touched, whatever its address was.
LEMMA AcceptFeed ==
    ASSUME AppInv, FeedInv, Handling, NEW l \in Feeds, AcceptConnection(l)
    PROVE  FeedInv'
<1>1. /\ targets = {} /\ backlog[l] # <<>>
      /\ UNCHANGED <<peers, inbox, unread, calls, targets, published, sent, state>>
  BY DEF Handling, AcceptConnection
<1>2. /\ Newcomers /\ Sending /\ Given /\ Placed /\ alive \subseteq Conns /\ TypeOK
      /\ registered \subseteq Conns \X Feeds
  BY Facts DEF FeedInv
<1>3. CASE UNCHANGED <<backlog, handlers, joined, ready>>
  <2>1. UNCHANGED <<feed, backlog, feeds, targets>> /\ alive' = alive
        /\ registered' = registered /\ peer' = peer
    BY <1>1, <1>3 DEF peers, feeds, handlers
  <2> QED BY <2>1, FeedQuiet
<1>4. CASE ~UNCHANGED <<backlog, handlers, joined, ready>>
  <2> DEFINE q == backlog[l]
             t == Tail(q)
             N == Len(q)
  <2>1. PICK c : c = Head(q)
    OBVIOUS
  <2>2. /\ alive' = alive \cup {c} /\ joined' = [joined EXCEPT ![c] = Len(published)]
        /\ \E r \in AddressTaken(c) : registered' = r \cup {<<c, l>>}
        /\ backlog' = [backlog EXCEPT ![l] = t]
    BY <1>4, <2>1 DEF AcceptConnection
  <2>3. /\ q \in Seq(Conns) /\ N \in Nat /\ DOMAIN q = 1 .. N /\ N # 0
        /\ t \in Seq(Conns) /\ Len(t) = N - 1 /\ c = q[1] /\ DOMAIN t = 1 .. N - 1
        /\ \A i \in 1 .. N - 1 : t[i] = q[i + 1]
    BY <1>1, <2>1, FeedFacts, HeadTailProperties, EmptySeq, LenProperties
  <2> HIDE DEF t, N
  <2>4. /\ 1 \in 1 .. N /\ \A i \in 1 .. N - 1 : i + 1 \in 1 .. N /\ i + 1 # 1
    BY <2>3
  <2>5. c \in Conns /\ q[1] \in Conns
    BY <2>3, <2>4, ElementOfSeq DEF N
  <2>6. feed[c] = l
    BY <1>2, <2>3, <2>4 DEF Placed, N
  <2>7. IsInjective(q) /\ \A i \in 1 .. N : peer[q[i]] # "new"
    BY <1>2 DEF Newcomers, N
  <2>8. c \notin alive /\ sent[c] = <<>> /\ peer[c] # "new"
    <3>1. Waits(c)
      BY <2>3, <2>4 DEF Waits, N
    <3> QED BY <1>2, <2>3, <2>4, <2>5, <2>7, <3>1 DEF Newcomers
  <2>9. backlog'[l] = t /\ \A k \in Feeds \ {l} : backlog'[k] = backlog[k]
    BY <1>2, <2>2 DEF TypeOK
  <2>10. joined'[c] = Len(published) /\ \A d \in Conns \ {c} : joined'[d] = joined[d]
    BY <1>2, <2>2, <2>5 DEF TypeOK
  <2>11. /\ published' = published /\ sent' = sent /\ feed' = feed /\ peer' = peer /\ targets' = {}
    BY <1>1 DEF peers
  <2> HIDE DEF q
  <2>12. \A i \in 1 .. N - 1 : t[i] # c
    BY <2>3, <2>4, <2>7 DEF IsInjective
  <2>13. IsInjective(t)
    <3> SUFFICES ASSUME NEW a \in 1 .. N - 1, NEW b \in 1 .. N - 1, t[a] = t[b] PROVE a = b
      BY <2>3 DEF IsInjective
    <3>1. a + 1 = b + 1
      <4>1. q[a + 1] = q[b + 1] /\ a + 1 \in DOMAIN q /\ b + 1 \in DOMAIN q
        BY <2>3, <2>4
      <4> QED BY <2>7, <4>1 DEF IsInjective
    <3> QED BY <2>3, <3>1
  <2>14. Newcomers'
    <3>1. \A k \in Feeds : IsInjective(backlog'[k])
      BY <1>2, <2>9, <2>13 DEF Newcomers
    <3>2. \A k \in Feeds : \A i \in 1 .. Len(backlog'[k]) : peer'[backlog'[k][i]] # "new"
      <4>1. \A i \in 1 .. N - 1 : peer[t[i]] # "new"
        BY <2>3, <2>4, <2>7
      <4> QED BY <1>2, <2>3, <2>9, <2>11, <4>1 DEF Newcomers
    <3>3. ASSUME NEW d \in Conns, Waits(d)' PROVE Waits(d) /\ d # c
      <4>1. CASE peer'[d] = "new"
        BY <2>8, <2>11, <4>1 DEF Waits
      <4>2. CASE \E k \in Feeds : \E i \in 1 .. Len(backlog'[k]) : backlog'[k][i] = d
        <5>1. PICK k \in Feeds : \E i \in 1 .. Len(backlog'[k]) : backlog'[k][i] = d
          BY <4>2
        <5>2. PICK i \in 1 .. Len(backlog'[k]) : backlog'[k][i] = d
          BY <5>1
        <5>3. CASE k = l
          <6>1. t[i] = d /\ i \in 1 .. N - 1
            BY <2>3, <2>9, <5>2, <5>3
          <6>2. q[i + 1] = d /\ i + 1 \in 1 .. N /\ d # c
            BY <2>3, <2>4, <2>12, <6>1
          <6> QED BY <6>2 DEF Waits, q, N
        <5>4. CASE k # l
          <6>1. backlog[k][i] = d /\ i \in 1 .. Len(backlog[k])
            BY <2>9, <5>2, <5>4
          <6>2. feed[d] = k
            BY <1>2, <6>1 DEF Placed
          <6> QED BY <2>6, <5>4, <6>1, <6>2 DEF Waits
        <5> QED BY <5>3, <5>4
      <4> QED BY <3>3, <4>1, <4>2 DEF Waits
    <3>4. \A d \in Conns : Waits(d)' => d \notin alive' /\ sent'[d] = <<>>
      BY <1>2, <2>2, <2>11, <3>3 DEF Newcomers
    <3> QED BY <3>1, <3>2, <3>4 DEF Newcomers
  <2>15. Sending'
    <3>1. Len(published) \in Nat
      BY FeedFacts
    <3>2. \A d \in Conns : joined'[d] <= Len(published')
      BY <1>2, <2>10, <2>11, <3>1 DEF Sending
    <3> QED BY <2>11, <3>2 DEF Sending
  <2>16. ASSUME NEW d \in alive, NEW f \in Feeds
         PROVE  <<d, f>> \in registered' <=> <<d, f>> \in registered
    <3>1. PICK r \in AddressTaken(c) : registered' = r \cup {<<c, l>>}
      BY <2>2
    <3>2. d # c
      BY <2>8
    <3>3. CASE r = registered
      BY <3>1, <3>2, <3>3
    <3>4. CASE r # registered
      <4>1. PICK g \in Stray : r = Renamed(g[1], c)
        BY <3>1, <3>4 DEF AddressTaken
      <4>2. PICK G : G = g[1]
        OBVIOUS
      <4>3. r = {<<IF e[1] = G THEN c ELSE e[1], e[2]>> : e \in registered} /\ G \notin alive
        BY <4>1, <4>2 DEF Renamed, Stray
      <4>4. \A e \in registered : e = <<e[1], e[2]>>
        BY <1>2
      <4>5. ASSUME <<d, f>> \in registered PROVE <<d, f>> \in r
        <5> DEFINE e == <<d, f>>
        <5>1. e \in registered /\ e[1] = d /\ e[2] = f /\ d # G
          BY <4>3, <4>5
        <5> HIDE DEF e
        <5>2. <<IF e[1] = G THEN c ELSE e[1], e[2]>> \in r
          BY <4>3, <5>1
        <5> QED BY <5>1, <5>2
      <4>6. ASSUME <<d, f>> \in r PROVE <<d, f>> \in registered
        <5>1. PICK e \in registered : <<d, f>> = <<IF e[1] = G THEN c ELSE e[1], e[2]>>
          BY <4>3, <4>6
        <5>2. e[1] = d /\ e[2] = f
          BY <3>2, <5>1
        <5> QED BY <4>4, <5>2
      <4> QED BY <3>1, <3>2, <4>5, <4>6
    <3> QED BY <3>3, <3>4
  <2>17. Given'
    <3> SUFFICES ASSUME NEW d \in alive'
                 PROVE  /\ InOrder(d)' /\ \A i \in 1 .. Len(sent'[d]) : sent'[d][i] \in 1 .. Len(published')
                        /\ peer'[d] = "open" =>
                            \A n \in 1 .. Len(published') :
                                (Times(d, n) + Left(d, n))' = IF Due(d, n)' THEN Copies(d)' ELSE 0
      BY DEF Given
    <3>1. Pending(d)' = {} /\ Cardinality({}) = 0
      BY <2>11, FS_EmptySet DEF Pending
    <3>2. \A n : Left(d, n)' = 0
      BY <3>1 DEF Left
    <3>3. CASE d = c
      <4>1. sent'[d] = <<>> /\ Len(<<>>) = 0 /\ DOMAIN <<>> = {}
        BY <2>8, <2>11, <3>3
      <4>2. InOrder(d)' /\ \A n : Times(d, n)' = 0
        <5>1. \A n : {i \in DOMAIN sent'[d] : sent'[d][i] = n} = {}
          BY <4>1
        <5> QED BY <3>1, <4>1, <5>1 DEF InOrder, Times
      <4>3. \A n \in 1 .. Len(published') : ~Due(d, n)'
        <5>1. Len(published) \in Nat /\ joined'[d] = Len(published) /\ published' = published
          BY <2>10, <2>11, <3>3, FeedFacts
        <5> QED BY <5>1 DEF Due
      <4> QED BY <3>2, <4>1, <4>2, <4>3
    <3>4. CASE d # c
      <4>1. d \in alive /\ d \in Conns /\ joined'[d] = joined[d]
        BY <1>2, <2>2, <2>10, <3>4
      <4>2. InOrder(d)' = InOrder(d) /\ Copies(d)' = Copies(d) /\ Pending(d)' = Pending(d)
        <5>1. {f \in Feeds : <<d, f>> \in registered'} = {f \in Feeds : <<d, f>> \in registered}
          BY <2>16, <4>1
        <5> QED BY <1>1, <2>11, <5>1 DEF InOrder, Copies, Pending
      <4>3. \A n : Times(d, n)' = Times(d, n) /\ Due(d, n)' = Due(d, n) /\ Left(d, n)' = Left(d, n)
        BY <2>11, <4>1, <4>2 DEF Times, Due, Left
      <4> QED BY <1>2, <2>11, <4>1, <4>2, <4>3 DEF Given
    <3> QED BY <3>3, <3>4
  <2> QED BY <2>14, <2>15, <2>17 DEF FeedInv
<1> QED BY <1>3, <1>4

\* The new update is pending for every connection of its feed that exists, as
\* often as it is registered, and was given to none before.
LEMMA BroadcastFeed ==
    ASSUME AppInv, FeedInv, Broadcast
    PROVE  FeedInv'
<1> DEFINE L == Len(published)
           f == Head(calls)
<1>1. /\ targets = {} /\ calls # <<>> /\ targets' \in Targets(f)
      /\ published' = Append(published, f)
      /\ peer' = peer /\ feed' = feed /\ backlog' = backlog /\ joined' = joined /\ sent' = sent
      /\ alive' = alive /\ registered' = registered
  BY DEF Broadcast, peers, sockets, handlers
<1>2. Newcomers /\ Sending /\ Given /\ alive \subseteq Conns /\ registered \subseteq Conns \X Feeds
  BY FeedFacts DEF FeedInv
<1>3. f \in Feeds
  <2>1. calls \in Seq(Feeds)
    BY Facts DEF TypeOK
  <2> QED BY <1>1, <2>1, HeadTailProperties
<1>4. /\ L \in Nat /\ Len(published') = L + 1 /\ published'[L + 1] = f
      /\ \A n \in 1 .. L : published'[n] = published[n]
  BY <1>1, <1>3, FeedFacts, AppendProperties
<1> HIDE DEF L, f
<1>5. \A e \in targets' : e \in registered /\ (e[1] \in alive => feed[e[1]] = f)
  BY <1>1 DEF Targets, Stray
<1>6. \A e \in registered : e[1] \in alive /\ feed[e[1]] = f => e \in targets'
  BY <1>1 DEF Targets, Stray
<1>7. \A c \in Conns : joined[c] \in Nat /\ joined[c] <= L
  BY <1>2, FeedFacts DEF Sending, L
<1>8. Newcomers'
  BY <1>1, <1>2 DEF Newcomers, Waits
<1>9. Sending'
  <2>1. \A c \in Conns : joined[c] <= L + 1 /\ joined[c] < L + 1
    BY <1>4, <1>7
  <2>2. published' # <<>>
    BY <1>4
  <2> QED BY <1>1, <1>2, <1>4, <1>5, <2>1, <2>2 DEF Sending
<1>10. Given'
  <2> SUFFICES ASSUME NEW c \in alive'
               PROVE  /\ InOrder(c)' /\ \A i \in 1 .. Len(sent'[c]) : sent'[c][i] \in 1 .. Len(published')
                      /\ peer'[c] = "open" =>
                          \A n \in 1 .. Len(published') :
                              (Times(c, n) + Left(c, n))' = IF Due(c, n)' THEN Copies(c)' ELSE 0
    BY DEF Given
  <2>1. c \in alive /\ c \in Conns /\ sent'[c] = sent[c] /\ peer'[c] = peer[c]
    BY <1>1, <1>2
  <2>2. InOrder(c)' /\ Copies(c)' = Copies(c) /\ \A n : Times(c, n)' = Times(c, n)
    BY <1>1, <1>2, <2>1 DEF Given, InOrder, Copies, Times
  <2>3. \A i \in 1 .. Len(sent[c]) : sent[c][i] \in 1 .. L /\ sent[c][i] \in 1 .. L + 1 /\ sent[c][i] # L + 1
    <3>1. \A i \in 1 .. Len(sent[c]) : sent[c][i] \in 1 .. L
      BY <1>2, <2>1 DEF Given, L
    <3> QED BY <1>4, <3>1
  <2>4. ASSUME peer'[c] = "open", NEW n \in 1 .. L + 1
        PROVE  (Times(c, n) + Left(c, n))' = IF Due(c, n)' THEN Copies(c)' ELSE 0
    <3>1. CASE n # L + 1
      <4>1. n \in 1 .. L
        BY <1>4, <3>1
      <4>2. Pending(c) = {} /\ Cardinality({}) = 0
        BY <1>1, FS_EmptySet DEF Pending
      <4>3. Left(c, n) = 0 /\ Left(c, n)' = 0
        BY <1>4, <3>1, <4>2 DEF Left
      <4>4. Due(c, n)' = Due(c, n)
        BY <1>1, <1>4, <4>1 DEF Due
      <4>5. Times(c, n) + Left(c, n) = IF Due(c, n) THEN Copies(c) ELSE 0
        BY <1>2, <2>1, <2>4, <4>1 DEF Given, L
      <4> QED BY <2>2, <4>3, <4>4, <4>5
    <3>2. CASE n = L + 1
      <4>1. Times(c, n) = 0
        <5>1. DOMAIN sent[c] = 1 .. Len(sent[c])
          BY <2>1, FeedFacts
        <5>2. {i \in DOMAIN sent[c] : sent[c][i] = n} = {}
          BY <2>3, <3>2, <5>1
        <5> QED BY <5>2, FS_EmptySet DEF Times
      <4>2. Left(c, n)' = Cardinality(Pending(c)')
        BY <1>4, <3>2 DEF Left
      <4>3. Due(c, n)' = (f = feed[c])
        BY <1>1, <1>4, <1>7, <2>1, <3>2 DEF Due
      <4>4. CASE f = feed[c]
        <5>1. \A g \in Feeds : <<c, g>> \in targets' <=> <<c, g>> \in registered
          BY <1>5, <1>6, <2>1, <4>4
        <5>2. Pending(c)' = {g \in Feeds : <<c, g>> \in registered}
          BY <5>1 DEF Pending
        <5>3. Left(c, n)' = Copies(c)
          BY <4>2, <5>2 DEF Copies
        <5>4. Copies(c) \in Nat
          <6>1. {g \in Feeds : <<c, g>> \in registered} \in SUBSET Feeds /\ IsFiniteSet(Feeds)
            BY SizesAssumption
          <6> QED BY <6>1, FS_Subset, FS_CardinalityType DEF Copies
        <5>5. Due(c, n)'
          BY <4>3, <4>4
        <5>6. Times(c, n)' = 0 /\ Copies(c)' = Copies(c)
          BY <2>2, <4>1
        <5> QED BY <5>3, <5>4, <5>5, <5>6
      <4>5. CASE f # feed[c]
        <5>1. Pending(c)' = {}
          BY <1>5, <2>1, <4>5 DEF Pending
        <5>2. ~Due(c, n)'
          BY <4>3, <4>5
        <5>3. Times(c, n)' = 0 /\ Left(c, n)' = 0
          BY <2>2, <4>1, <4>2, <5>1, FS_EmptySet
        <5> QED BY <5>2, <5>3
      <4> QED BY <4>4, <4>5
    <3> QED BY <3>1, <3>2
  <2> QED BY <1>4, <2>1, <2>2, <2>3, <2>4
<1> QED BY <1>8, <1>9, <1>10 DEF FeedInv

\* What a connection is sent is no longer pending for it.
LEMMA SendFeed ==
    ASSUME AppInv, FeedInv, Send
    PROVE  FeedInv'
<1> DEFINE L == Len(published)
<1>1. PICK e \in targets : SendUpdate(e) \/ SendDangling(e)
  BY DEF Send
<1>2. /\ peer' = peer /\ feed' = feed /\ backlog' = backlog /\ joined' = joined
      /\ published' = published /\ alive' = alive /\ registered' = registered
  BY DEF Send, peers, handlers
<1>3. Newcomers /\ Sending /\ Given /\ alive \subseteq Conns /\ targets \subseteq Conns \X Feeds
  BY FeedFacts DEF FeedInv
<1>4. CASE SendDangling(e)
  <2>1. UNCHANGED <<feed, backlog, feeds, targets>>
    BY <1>2, <1>4 DEF SendDangling, feeds
  <2> QED BY <1>2, <2>1, FeedQuiet
<1>5. CASE SendUpdate(e)
  <2> DEFINE c == e[1]
             g == e[2]
             s == sent[c]
             K == Len(s)
  <2>1. /\ c \in alive /\ targets' = targets \ {e}
        /\ \/ peer[c] = "open" /\ sent' = [sent EXCEPT ![c] = Append(@, L)]
           \/ peer[c] # "open" /\ sent' = sent
    BY <1>5 DEF SendUpdate
  <2>2. c \in Conns /\ g \in Feeds /\ e = <<c, g>>
    BY <1>3
  <2>3. L \in Nat /\ published # <<>> /\ published[L] = feed[c] /\ joined[c] < L
    BY <1>3, <2>1, FeedFacts DEF Sending
  <2>4. L \in 1 .. L
    BY <2>3, FeedFacts, EmptySeq
  <2>5. K \in Nat /\ s \in Seq(Nat) /\ DOMAIN s = 1 .. K
    BY <2>2, FeedFacts
  <2>6. ASSUME NEW d \in Conns, d # c PROVE sent'[d] = sent[d] /\ Pending(d)' = Pending(d)
    <3>1. \A f : <<d, f>> # e
      BY <2>2, <2>6
    <3>2. sent \in [Conns -> Seq(Nat)]
      BY Facts DEF TypeOK
    <3> QED BY <2>1, <2>6, <3>1, <3>2 DEF Pending
  <2> HIDE DEF c, g, s, K
  <2>7. Newcomers'
    <3>1. \A d \in Conns : Waits(d)' = Waits(d)
      BY <1>2 DEF Waits
    <3>2. ASSUME NEW d \in Conns, Waits(d)' PROVE d \notin alive' /\ sent'[d] = <<>>
      <4>1. d \notin alive /\ sent[d] = <<>>
        BY <1>3, <3>1, <3>2 DEF Newcomers
      <4>2. d # c
        BY <2>1, <4>1
      <4> QED BY <1>2, <2>6, <4>1, <4>2
    <3>3. \A l \in Feeds : IsInjective(backlog'[l])
      BY <1>2, <1>3 DEF Newcomers
    <3>4. \A l \in Feeds : \A i \in 1 .. Len(backlog'[l]) : peer'[backlog'[l][i]] # "new"
      BY <1>2, <1>3 DEF Newcomers
    <3> QED BY <3>2, <3>3, <3>4 DEF Newcomers
  <2>8. Sending'
    BY <1>2, <1>3, <2>1 DEF Sending
  <2>9. Given'
    <3> SUFFICES ASSUME NEW d \in alive'
                 PROVE  /\ InOrder(d)' /\ \A i \in 1 .. Len(sent'[d]) : sent'[d][i] \in 1 .. Len(published')
                        /\ peer'[d] = "open" =>
                            \A n \in 1 .. Len(published') :
                                (Times(d, n) + Left(d, n))' = IF Due(d, n)' THEN Copies(d)' ELSE 0
      BY DEF Given
    <3>1. d \in alive /\ d \in Conns
      BY <1>2, <1>3
    <3>2. Copies(d)' = Copies(d) /\ \A n : Due(d, n)' = Due(d, n)
      BY <1>2 DEF Copies, Due
    <3>3. CASE d # c
      <4>1. InOrder(d)' = InOrder(d) /\ \A n : Times(d, n)' = Times(d, n) /\ Left(d, n)' = Left(d, n)
        BY <1>2, <2>6, <3>1, <3>3 DEF InOrder, Times, Left
      <4> QED BY <1>2, <1>3, <2>6, <3>1, <3>2, <3>3, <4>1 DEF Given
    <3>4. CASE d = c /\ peer[c] # "open"
      <4>1. sent' = sent /\ peer'[d] # "open"
        BY <1>2, <2>1, <3>4
      <4>2. InOrder(d)' = InOrder(d)
        BY <4>1 DEF InOrder
      <4> QED BY <1>2, <1>3, <3>1, <4>1, <4>2 DEF Given
    <3>5. CASE d = c /\ peer[c] = "open"
      <4> DEFINE t == Append(s, L)
      <4>1. sent'[d] = t
        <5>1. sent \in [Conns -> Seq(Nat)]
          BY Facts DEF TypeOK
        <5> QED BY <2>1, <3>1, <3>5, <5>1 DEF s
      <4>2. /\ Len(t) = K + 1 /\ t[K + 1] = L /\ DOMAIN t = 1 .. K + 1
            /\ \A i \in 1 .. K : t[i] = s[i]
        BY <2>3, <2>5, AppendProperties, LenProperties DEF K
      <4>3. /\ \A i \in 1 .. K : s[i] \in 1 .. L
            /\ \A i, j \in 1 .. K : i < j => s[i] <= s[j]
        BY <1>3, <2>1, <2>5 DEF Given, InOrder, s, K
      <4> HIDE DEF t, L
      <4>4. \A i \in 1 .. K + 1 : i = K + 1 \/ i \in 1 .. K
        BY <2>5
      <4>5. \A i \in 1 .. K + 1 : t[i] \in 1 .. L
        BY <2>4, <4>2, <4>3, <4>4
      <4>6. ASSUME NEW i \in 1 .. K + 1, NEW j \in 1 .. K + 1, i < j PROVE t[i] <= t[j]
        <5>1. i \in 1 .. K
          BY <2>5, <4>6
        <5>2. CASE j = K + 1
          BY <2>3, <4>2, <4>3, <5>1, <5>2
        <5>3. CASE j \in 1 .. K
          BY <4>2, <4>3, <4>6, <5>1, <5>3
        <5> QED BY <4>4, <5>2, <5>3
      <4>7. InOrder(d)'
        BY <4>1, <4>2, <4>6 DEF InOrder
      <4> DEFINE at(n) == {i \in 1 .. K : s[i] = n}
      <4>8. \A n : Times(d, n) = Cardinality(at(n))
        BY <2>5, <3>5 DEF Times, s
      <4>9. ASSUME NEW n PROVE {i \in DOMAIN t : t[i] = n} = IF n = L THEN at(n) \cup {K + 1} ELSE at(n)
        <5>1. \A i \in 1 .. K : i \in 1 .. K + 1
          BY <2>5
        <5>2. K + 1 \in 1 .. K + 1
          BY <2>5
        <5>3. CASE n = L
          BY <4>2, <4>4, <5>1, <5>2, <5>3
        <5>4. CASE n # L
          BY <4>2, <4>4, <5>1, <5>4
        <5> QED BY <5>3, <5>4
      <4>10. \A n : Times(d, n)' = Cardinality(IF n = L THEN at(n) \cup {K + 1} ELSE at(n))
        BY <4>1, <4>9 DEF Times
      <4>11. ASSUME NEW n \in 1 .. L
             PROVE  (Times(d, n) + Left(d, n))' = IF Due(d, n)' THEN Copies(d)' ELSE 0
        <5>1. Times(d, n) + Left(d, n) = IF Due(d, n) THEN Copies(d) ELSE 0
          BY <1>3, <3>1, <3>5, <4>11 DEF Given, L
        <5>2. CASE n # L
          <6>1. Times(d, n)' = Times(d, n)
            BY <4>8, <4>10, <5>2
          <6>2. Left(d, n)' = 0 /\ Left(d, n) = 0
            BY <1>2, <5>2 DEF Left, L
          <6> QED BY <3>2, <5>1, <6>1, <6>2
        <5>3. CASE n = L
          <6>1. IsFiniteSet(at(n)) /\ K + 1 \notin at(n)
            <7>1. IsFiniteSet(1 .. K) /\ at(n) \in SUBSET (1 .. K) /\ K + 1 \notin 1 .. K
              BY <2>5, FS_Interval
            <7> QED BY <7>1, FS_Subset
          <6> HIDE DEF at
          <6>2. Times(d, n)' = Times(d, n) + 1 /\ Times(d, n) \in Nat
            <7>1. Times(d, n)' = Cardinality(at(n) \cup {K + 1})
              BY <4>10, <5>3
            <7>2. Cardinality(at(n) \cup {K + 1}) = Cardinality(at(n)) + 1
              BY <6>1, FS_AddElement
            <7>3. Cardinality(at(n)) \in Nat
              BY <6>1, FS_CardinalityType
            <7> QED BY <4>8, <7>1, <7>2, <7>3
          <6> DEFINE P == Pending(d)
          <6>3. IsFiniteSet(P) /\ g \in P
            <7>1. P \in SUBSET Feeds /\ IsFiniteSet(Feeds)
              BY SizesAssumption DEF Pending
            <7>2. g \in P
              BY <2>2, <3>5 DEF Pending
            <7> QED BY <7>1, <7>2, FS_Subset
          <6>4. Pending(d)' = P \ {g}
            BY <2>1, <2>2, <3>5 DEF Pending
          <6> HIDE DEF P
          <6>5. Cardinality(P \ {g}) = Cardinality(P) - 1 /\ Cardinality(P) \in Nat
            BY <6>3, FS_RemoveElement, FS_CardinalityType
          <6>6. Left(d, n)' = Cardinality(P) - 1 /\ Left(d, n) = Cardinality(P)
            <7>1. Left(d, n)' = Cardinality(P \ {g})
              BY <1>2, <5>3, <6>4 DEF Left, L
            <7>2. Left(d, n) = Cardinality(P)
              BY <5>3 DEF Left, L, P
            <7> QED BY <6>5, <7>1, <7>2
          <6>7. (Times(d, n) + Left(d, n))' = Times(d, n) + Left(d, n)
            BY <6>2, <6>5, <6>6
          <6> QED BY <3>2, <5>1, <6>7
        <5> QED BY <5>2, <5>3
      <4>12. Len(published') = L
        BY <1>2 DEF L
      <4> QED BY <4>1, <4>2, <4>5, <4>7, <4>11, <4>12
    <3> QED BY <3>3, <3>4, <3>5
  <2> QED BY <2>7, <2>8, <2>9 DEF FeedInv
<1> QED BY <1>1, <1>4, <1>5

LEMMA PeersFeed ==
    ASSUME AppInv, FeedInv, Peers
    PROVE  FeedInv'
<1>1. PICK c \in Conns :
        \/ Connect(c) \/ Close(c) \/ Reset(c) \/ Receive(c)
        \/ \E m \in Messages : SendMessage(c, m)
  BY DEF Peers
<1>2. UNCHANGED <<batch, handlers, calls, targets, feeds, state>>
  BY DEF Peers
<1>3. CASE Connect(c)
  BY <1>2, <1>3, ConnectFeed
<1>4. CASE ~Connect(c)
  <2>1. UNCHANGED <<feed, backlog>>
    BY <1>1, <1>4 DEF Close, Reset, Receive, SendMessage, peers
  <2>2. peer' = peer \/ (peer[c] = "open" /\ \E p \in {"closed", "reset"} : peer' = [peer EXCEPT ![c] = p])
    BY <1>1, <1>4 DEF Close, Reset, Receive, SendMessage, peers, Connected
  <2>3. peer \in [Conns -> {"new", "open", "closed", "reset"}]
    BY Facts DEF TypeOK
  <2>4. \A d \in Conns : /\ peer'[d] \in {"new", "open"} => peer'[d] = peer[d]
                         /\ peer'[d] = "new" <=> peer[d] = "new"
    BY <2>2, <2>3
  <2>5. UNCHANGED <<feed, backlog, feeds, targets>> /\ alive' = alive /\ registered' = registered
    BY <1>2, <2>1 DEF handlers
  <2> QED BY <2>4, <2>5, FeedQuiet
<1> QED BY <1>3, <1>4

LEMMA NextFeedInv == AppInv /\ FeedInv /\ [Next]_vars => FeedInv'
<1> SUFFICES ASSUME AppInv, FeedInv, [Next]_vars PROVE FeedInv'
  OBVIOUS
<1>1. CASE Peers
  BY <1>1, PeersFeed
<1>2. CASE EpollWait \/ HandleNothing \/ UNCHANGED vars
  <2>1. /\ UNCHANGED <<feed, backlog, feeds, targets>> /\ peer' = peer
        /\ alive' = alive /\ registered' = registered
    BY <1>2 DEF EpollWait, HandleNothing, vars, peers, sockets, handlers
  <2> QED BY <2>1, FeedQuiet
<1>3. CASE HandleEvent
  <2>1. Handling
    BY <1>3 DEF HandleEvent
  <2>2. CASE \E l \in Feeds : AcceptConnection(l)
    BY <2>1, <2>2, AcceptFeed
  <2>3. CASE \E c \in Conns : ReadMessages(c)
    <3>1. /\ UNCHANGED <<feed, backlog, feeds, targets>> /\ peer' = peer
          /\ alive' = alive /\ registered' = registered
      BY <2>3 DEF ReadMessages, peers, handlers
    <3> QED BY <3>1, FeedQuiet
  <2>4. CASE \E c \in Conns : ReadEnd(c)
    <3>1. PICK c \in Conns : ReadEnd(c)
      BY <2>4
    <3>2. /\ UNCHANGED <<feed, backlog, feeds, targets>> /\ peer' = peer
          /\ alive' = alive \ {c} /\ registered' \in {registered, registered \ {<<c, feed[c]>>}}
      BY <3>1 DEF ReadEnd, Disconnect, Fail, Unregistered, peers
    <3>3. \A d \in alive' : \A f \in Feeds : <<d, f>> \in registered' <=> <<d, f>> \in registered
      BY <3>2
    <3>4. alive' \subseteq alive
      BY <3>2
    <3> QED BY <3>2, <3>3, <3>4, FeedQuiet
  <2> QED BY <1>3, <2>2, <2>3, <2>4 DEF HandleEvent
<1> QED BY <1>1, <1>2, <1>3, BroadcastFeed, SendFeed DEF Next, Thread

LEMMA InitFeedInv == Init => FeedInv
<1> SUFFICES ASSUME Init PROVE FeedInv
  OBVIOUS
<1>1. /\ backlog = [l \in Feeds |-> <<>>] /\ alive = {} /\ targets = {}
      /\ published = <<>> /\ joined = [c \in Conns |-> 0] /\ sent = [c \in Conns |-> <<>>]
  BY DEF Init
<1>2. \A l \in Feeds : IsInjective(backlog[l]) /\ Len(backlog[l]) = 0
  BY <1>1 DEF IsInjective
<1> QED BY <1>1, <1>2 DEF FeedInv, Newcomers, Sending, Given

-----------------------------------------------------------------------------
(* The theorems                                                            *)

LEMMA InitAppInv == Init => AppInv
<1> SUFFICES ASSUME Init PROVE AppInv
  OBVIOUS
<1>1. /\ peer = [c \in Conns |-> "new"] /\ feed \in [Conns -> Feeds]
      /\ backlog = [l \in Feeds |-> <<>>] /\ inbox = [c \in Conns |-> <<>>]
      /\ unread = [c \in Conns |-> 0] /\ messages = 0 /\ size \in Sizes
      /\ ready = <<>> /\ batch = <<>>
      /\ alive = {} /\ registered = {} /\ calls = <<>> /\ targets = {}
      /\ published = <<>> /\ joined = [c \in Conns |-> 0] /\ sent = [c \in Conns |-> <<>>]
      /\ state = "up"
  BY DEF Init
<1>2. /\ SendBuffer \in Nat /\ MaxMessages \in Nat /\ size.events \in Nat /\ size.open \in Nat
  BY <1>1, SizesAssumption
<1>3. IsInjective(ready) /\ IsFiniteSet(alive) /\ Cardinality(alive) = 0
  BY <1>1, FS_EmptySet DEF IsInjective
<1>4. TypeOK
  BY <1>1, <1>2, <1>3 DEF TypeOK
<1>5. Placed /\ Explained /\ DanglingOnlyAfterReset /\ ReadyIsLive /\ Batched
  BY <1>1 DEF Placed, Explained, DanglingOnlyAfterReset, ReadyIsLive, Batched
<1> QED BY <1>3, <1>4, <1>5 DEF AppInv

LEMMA NextAppInv == AppInv /\ [Next]_vars => AppInv'
<1> SUFFICES ASSUME AppInv, [Next]_vars PROVE AppInv'
  OBVIOUS
<1>1. CASE Peers
  BY <1>1, PeersInv
<1>2. CASE Thread
  <2>1. state = "up"
    BY <1>2 DEF Thread
  <2>2. CASE HandleEvent
    <3>1. Handling
      BY <2>2 DEF HandleEvent
    <3> QED BY <2>1, <2>2, <3>1, AcceptInv, ReadMessagesInv, ReadEndInv DEF HandleEvent
  <2> QED BY <1>2, <2>1, <2>2, EpollWaitInv, HandleNothingInv, BroadcastInv, SendInv DEF Thread
<1>3. CASE UNCHANGED vars
  <2>1. UNCHANGED <<peers, sockets, ready, batch, handlers, calls, targets, feeds, state>>
    BY <1>3 DEF vars
  <2>2. TypeOK' /\ IsFiniteSet(alive)' /\ Placed' /\ Explained' /\ DanglingOnlyAfterReset'
    BY <2>1, Facts
       DEF TypeOK, Placed, Explained, DanglingOnlyAfterReset, peers, sockets, handlers, feeds
  <2>3. (ReadyIsLive /\ Batched)' = (ReadyIsLive /\ Batched)
    BY <2>1 DEF ReadyIsLive, Batched, Readable, sockets, handlers
  <2> QED BY <2>1, <2>2, <2>3 DEF AppInv
<1> QED BY <1>1, <1>2, <1>3 DEF Next

\* Whatever peers, kernel and thread do: what epoll and a batch hold are
\* handlers that exist, once each, and what a batch is to read is there.
THEOREM AppInvariant == Spec => []AppInv
<1> QED BY InitAppInv, NextAppInv, PTL DEF Spec

\* The loop's state has its types: a batch is no longer than max_events_, and
\* there are no more handlers than descriptors (TCPReactor::run, accept).
THEOREM AppTypes == Spec => []TypeOK
<1>1. AppInv => TypeOK
  BY DEF AppInv
<1> QED BY <1>1, AppInvariant, PTL

\* No event of a batch is of a handler that was deleted while the batch was
\* gone through (TCPReactor::run, TCPClientHandler::handle_event).
THEOREM BatchCorrect == Spec => []BatchIsLive
<1>1. AppInv => BatchIsLive
  <2> SUFFICES ASSUME AppInv, state = "up" PROVE BatchIsLive
    BY DEF BatchIsLive
  <2>1. batch \in Seq(Events) /\ Batched
    BY Facts DEF AppInv
  <2>2. DOMAIN batch = 1 .. Len(batch)
    BY <2>1, LenProperties
  <2> QED BY <2>1, <2>2 DEF Batched, BatchIsLive
<1> QED BY <1>1, AppInvariant, PTL

\* The thread makes no accept and no read with nothing there, though what
\* epoll_wait saw may be long past (the two handle_event of event_loop).
THEOREM NeverBlocksCorrect == Spec => []NeverBlocks
<1>1. AppInv => NeverBlocks
  BY AfterEventFacts DEF AppInv, NeverBlocks, Handling
<1> QED BY <1>1, AppInvariant, PTL

\* event_handlers_ holds each handler that exists in the set of its feed, and
\* anything else it holds a peer's reset left there (unregister_handler, the
\* failed read of TCPClientHandler::handle_event).
THEOREM DanglingCorrect == Spec => []DanglingOnlyAfterReset
<1>1. AppInv => DanglingOnlyAfterReset
  BY DEF AppInv
<1> QED BY <1>1, AppInvariant, PTL

\* Every open connection has been given each update of its feed since it was
\* accepted, in order, as often as event_handlers_ holds it, and no other: once
\* nothing is pending, what was given is what is due (broadcast_all, send).
THEOREM FeedsCorrect == Spec => []FeedExact
<1>1. AppInv /\ FeedInv => FeedExact
  <2> SUFFICES ASSUME AppInv, FeedInv PROVE FeedExact
    OBVIOUS
  <2> SUFFICES ASSUME NEW c \in alive, peer[c] = "open", \A f \in Feeds : <<c, f>> \notin targets
               PROVE  /\ InOrder(c) /\ \A i \in DOMAIN sent[c] : sent[c][i] \in DOMAIN published
                      /\ \A n \in DOMAIN published : Times(c, n) = IF Due(c, n) THEN Copies(c) ELSE 0
    BY DEF FeedExact
  <2>1. /\ c \in Conns /\ Given /\ DOMAIN sent[c] = 1 .. Len(sent[c])
    BY FeedFacts DEF FeedInv
  <2>2. DOMAIN published = 1 .. Len(published)
    BY FeedFacts, LenProperties
  <2>3. \A n : Left(c, n) = 0
    <3>1. Pending(c) = {}
      BY DEF Pending
    <3> QED BY <3>1, FS_EmptySet DEF Left
  <2>4. \A n : Times(c, n) \in Nat
    <3> TAKE n
    <3>1. {i \in DOMAIN sent[c] : sent[c][i] = n} \in SUBSET (1 .. Len(sent[c]))
      BY <2>1
    <3>2. IsFiniteSet(1 .. Len(sent[c]))
      BY <2>1, FeedFacts, FS_Interval
    <3> QED BY <3>1, <3>2, FS_Subset, FS_CardinalityType DEF Times
  <2>5. \A n \in 1 .. Len(published) : Times(c, n) + Left(c, n) = IF Due(c, n) THEN Copies(c) ELSE 0
    BY <2>1 DEF Given
  <2>6. \A n \in 1 .. Len(published) : Times(c, n) = IF Due(c, n) THEN Copies(c) ELSE 0
    BY <2>3, <2>4, <2>5
  <2> QED BY <2>1, <2>2, <2>6 DEF Given
<1>2. AppInv /\ FeedInv /\ [Next]_vars => (AppInv /\ FeedInv)'
  BY NextAppInv, NextFeedInv
<1>3. Init => AppInv /\ FeedInv
  BY InitAppInv, InitFeedInv
<1> QED BY <1>1, <1>2, <1>3, PTL DEF Spec

\* No step of the thread takes the process down if its peers are polite: a
\* chunk is then one message and not an invalid one, and no handler dangles.
LEMMA PoliteStep ==
    ASSUME AppInv, Polite, state = "up", [Next]_vars
    PROVE  state' = "up"
<1>1. CASE Peers \/ EpollWait \/ HandleNothing \/ Broadcast \/ UNCHANGED vars
  BY <1>1 DEF Peers, EpollWait, HandleNothing, Broadcast, vars
<1>2. CASE HandleEvent
  <2>1. CASE \E l \in Feeds : AcceptConnection(l)
    BY <2>1 DEF AcceptConnection
  <2>2. CASE \E c \in Conns : ReadEnd(c)
    BY <2>2 DEF ReadEnd
  <2>3. CASE \E c \in Conns : ReadMessages(c)
    <3>1. PICK c \in Conns : ReadMessages(c)
      BY <2>3
    <3> DEFINE q == inbox[c]
    <3>2. q \in Seq(Messages \cup {"FIN", "RST"}) /\ Len(q) \in Nat
      BY Facts, LenProperties
    <3>3. Len(q) <= 1 /\ ~Contains(q, "invalid")
      BY DEF Polite, OneAtATime
    <3>4. Chunk(c) \in {q, <<>>}
      <4>1. CASE Ended(c)
        <5>1. q # <<>> /\ Chunk(c) = Front(q) /\ Front(q) = SubSeq(q, 1, Len(q) - 1)
          BY <4>1 DEF Ended, Chunk, Front
        <5>2. Len(q) = 1
          <6>1. Len(q) # 0
            BY <3>2, <5>1, EmptySeq
          <6>2. PICK n : n = Len(q)
            OBVIOUS
          <6>3. n \in Nat /\ n <= 1 /\ n # 0
            BY <3>2, <3>3, <6>1, <6>2
          <6>4. n = 1
            BY <6>3
          <6> QED BY <6>2, <6>4
        <5>3. Front(q) = <<>>
          <6>1. SubSeq(q, 1, Len(q) - 1) = SubSeq(q, 1, 0)
            BY <5>2
          <6>2. SubSeq(q, 1, 0) = <<>>
            BY SubSeqEmpty
          <6> QED BY <5>1, <6>1, <6>2
        <5> QED BY <5>1, <5>3
      <4>2. CASE ~Ended(c)
        BY <4>2 DEF Chunk
      <4> QED BY <4>1, <4>2
    <3>5. ~Throws(Chunk(c))
      <4>1. CASE Chunk(c) = q
        <5>1. ~(Len(q) > 1)
          BY <3>2, <3>3
        <5> QED BY <3>3, <4>1, <5>1 DEF Throws
      <4>2. CASE Chunk(c) = <<>>
        <5>1. Len(<<>>) = 0 /\ ~Contains(<<>>, "invalid")
          BY DEF Contains
        <5> QED BY <4>2, <5>1 DEF Throws
      <4> QED BY <3>4, <4>1, <4>2
    <3> QED BY <3>1, <3>5 DEF ReadMessages
  <2> QED BY <1>2, <2>1, <2>2, <2>3 DEF HandleEvent
<1>3. CASE Send
  <2>1. PICK e \in targets : SendUpdate(e) \/ SendDangling(e)
    BY <1>3 DEF Send
  <2>2. e \notin Stray
    BY Facts DEF Stray, DanglingOnlyAfterReset, Polite
  <2> QED BY <2>1, <2>2 DEF SendUpdate, SendDangling
<1> QED BY <1>1, <1>2, <1>3 DEF Next, Thread

\* Nothing that polite peers do ends the process: neither an exception nobody
\* catches (parse_order) nor a call of a handler that is gone (broadcast_all).
THEOREM PoliteSurvive == Spec => SurvivesPolitePeers
<1>1. Init => state = "up"
  BY DEF Init
<1>2. AppInv /\ Polite /\ state = "up" /\ [Next]_vars => (state = "up")'
  BY PoliteStep
<1> QED BY <1>1, <1>2, AppInvariant, PTL DEF Spec, SurvivesPolitePeers


=============================================================================
