----------------------------- MODULE LoggerProofs -----------------------------
(***************************************************************************)
(* Proof that in calm behaviours the log thread formats what was written,  *)
(* whole, once and in order, for any number and size of blocks and of      *)
(* records.  The invariant is the picture of the ring: the records that    *)
(* were written and not yet read lie one behind another, from the reader's *)
(* place to the writer's, in the block both are in, or in the reader's up  *)
(* to its end and then in the writer's, the next one.                      *)
(***************************************************************************)
EXTENDS Logger, SequenceTheorems, TLAPS

\* Record k, of kind ks[k], is whole in a block's memory m at offset o.
Whole(ks, m, k, o) ==
    /\ o + SizeOf[ks[k]] <= BlockSize
    /\ \A p \in 0 .. SizeOf[ks[k]] - 1 : m[o + p] = [record |-> k, part |-> p]

\* Records j + 1 to k lie in m from offset lo to hi; record i ends at e[i].
LaidAt(ks, m, lo, hi, j, k, e) ==
    /\ e[j] = lo /\ e[k] = hi
    /\ \A i \in j + 1 .. k : e[i] = e[i - 1] + SizeOf[ks[i]] /\ Whole(ks, m, i, e[i - 1])
    /\ \A h, i \in j .. k : h <= i => e[h] <= e[i]
Laid(ks, m, lo, hi, j, k) ==
    /\ j <= k
    /\ \E e \in [j .. k -> 0 .. BlockSize] : LaidAt(ks, m, lo, hi, j, k, e)

Writing == {"store_block", "store_offset", "copy", "forward", "undefined"}
Records ==
    /\ Len(kinds) = IF wpc \in Writing THEN committed + 1 ELSE committed
    /\ \A k \in DOMAIN kinds : kinds[k] \in registered

Writer ==
    /\ wpc \in {"copy", "forward"} => Fits(Size)
    /\ wpc = "forward" => Whole(kinds, mem[wBlk], Len(kinds), wOff)
    /\ wpc = "store_block" => wOff # 0 /\ rBlk = wBlk /\ end[wBlk] = wOff
    /\ wpc = "store_offset" => rBlk # wBlk
    /\ wOff = 0 => committed = 0 \/ wpc \in {"copy", "forward", "undefined"}
    /\ committed = 0 => wOff = 0 /\ rBlk = wBlk

\* The reader where the writer is, or one block behind it.
Together ==
    /\ rBlk = wBlk /\ (wpc # "store_block" => end[wBlk] = 0)
    /\ Laid(kinds, mem[wBlk], rOff, wOff, Len(received), committed)
Behind ==
    /\ wBlk = NextBlock(rBlk) /\ end[rBlk] # 0
    /\ \E s \in Len(received) .. committed :
        /\ Laid(kinds, mem[rBlk], rOff, end[rBlk], Len(received), s)
        /\ IF wpc = "store_offset" THEN s = committed
           ELSE Laid(kinds, mem[wBlk], 0, wOff, s, committed)

Seen ==
    /\ rpc = "load_block" /\ rBlk = wBlk => seenOff <= wOff
    /\ CanReadMeansUnread
    /\ rpc = "read" /\ rBlk # wBlk => rOff # end[rBlk]

LogInv == TypeOK /\ InOrder /\ Records /\ Writer /\ (Together \/ Behind) /\ Seen

-----------------------------------------------------------------------------
(* Records that lie one behind another                                     *)

LEMMA SizeFacts ==
    ASSUME NEW t \in Kinds
    PROVE  SizeOf[t] \in Nat /\ SizeOf[t] >= 1 /\ SizeOf[t] <= BlockSize /\ BlockSize \in Nat
BY SizesAssumption, BlocksAssumption DEF Kinds, SizeOf

LEMMA KindsFacts ==
    ASSUME NEW ks \in Seq(Kinds), NEW k \in 1 .. Len(ks)
    PROVE  ks[k] \in Kinds /\ SizeOf[ks[k]] \in Nat /\ SizeOf[ks[k]] >= 1
<1>1. ks[k] \in Kinds
  BY ElementOfSeq
<1> QED BY <1>1, SizeFacts

LEMMA LaidNil ==
    ASSUME NEW ks, NEW m, NEW lo \in 0 .. BlockSize, NEW j \in Nat
    PROVE  Laid(ks, m, lo, lo, j, j)
<1> DEFINE e == [i \in j .. j |-> lo]
<1>1. e \in [j .. j -> 0 .. BlockSize] /\ e[j] = lo
  OBVIOUS
<1>2. LaidAt(ks, m, lo, lo, j, j, e)
  BY BlocksAssumption DEF LaidAt
<1> QED BY <1>1, <1>2 DEF Laid

LEMMA LaidEnds ==
    ASSUME NEW ks \in Seq(Kinds), NEW m, NEW lo, NEW hi, NEW j \in Nat, NEW k \in Nat,
           k <= Len(ks), Laid(ks, m, lo, hi, j, k)
    PROVE  /\ lo \in 0 .. BlockSize /\ hi \in 0 .. BlockSize /\ lo <= hi /\ j <= k
           /\ lo = hi <=> j = k
<1>1. PICK e \in [j .. k -> 0 .. BlockSize] : LaidAt(ks, m, lo, hi, j, k, e)
  BY DEF Laid
<1>2. j <= k /\ j \in j .. k /\ k \in j .. k
  BY DEF Laid
<1>3. /\ e[j] = lo /\ e[k] = hi /\ e[j] \in 0 .. BlockSize /\ e[k] \in 0 .. BlockSize
      /\ e[j] <= e[k]
  BY <1>1, <1>2 DEF LaidAt
<1>4. ASSUME j # k PROVE lo # hi
  <2>1. j + 1 \in j + 1 .. k /\ j + 1 \in j .. k /\ j + 1 \in 1 .. Len(ks)
    BY <1>2, <1>4, LenProperties
  <2>2. e[j + 1] = e[j] + SizeOf[ks[j + 1]] /\ e[j + 1] <= e[k]
    <3>1. e[j + 1] = e[j + 1 - 1] + SizeOf[ks[j + 1]]
      BY <1>1, <2>1 DEF LaidAt
    <3>2. e[j + 1] <= e[k]
      BY <1>1, <1>2, <2>1 DEF LaidAt
    <3> QED BY <3>1, <3>2
  <2>3. SizeOf[ks[j + 1]] \in Nat /\ SizeOf[ks[j + 1]] >= 1
    BY <2>1, KindsFacts
  <2>4. e[j] \in Int /\ e[k] \in Int
    BY <1>3
  <2> QED BY <1>3, <2>2, <2>3, <2>4
<1> QED BY <1>2, <1>3, <1>4

LEMMA LaidHead ==
    ASSUME NEW ks \in Seq(Kinds), NEW m, NEW lo, NEW hi, NEW j \in Nat, NEW k \in Nat,
           Laid(ks, m, lo, hi, j, k), j < k
    PROVE  /\ Whole(ks, m, j + 1, lo)
           /\ Laid(ks, m, lo + SizeOf[ks[j + 1]], hi, j + 1, k)
<1>1. PICK e \in [j .. k -> 0 .. BlockSize] : LaidAt(ks, m, lo, hi, j, k, e)
  BY DEF Laid
<1> DEFINE n == j + 1
           f == [i \in n .. k |-> e[i]]
<1>2. n \in n .. k /\ k \in n .. k /\ n - 1 = j /\ n <= k /\ n \in Nat
  OBVIOUS
<1>3. e[n] = e[n - 1] + SizeOf[ks[n]] /\ Whole(ks, m, n, e[n - 1])
  BY <1>1, <1>2 DEF LaidAt
<1>4. e[j] = lo /\ e[k] = hi
  BY <1>1 DEF LaidAt
<1>5. \A i \in n .. k : i \in j .. k
  OBVIOUS
<1>6. f \in [n .. k -> 0 .. BlockSize]
  BY <1>5
<1>7. f[n] = lo + SizeOf[ks[n]] /\ f[k] = hi
  BY <1>2, <1>3, <1>4
<1>8. ASSUME NEW i \in n + 1 .. k
      PROVE  f[i] = f[i - 1] + SizeOf[ks[i]] /\ Whole(ks, m, i, f[i - 1])
  <2>1. i \in j + 1 .. k /\ i \in n .. k /\ i - 1 \in n .. k
    BY <1>2
  <2>2. e[i] = e[i - 1] + SizeOf[ks[i]] /\ Whole(ks, m, i, e[i - 1])
    BY <1>1, <2>1 DEF LaidAt
  <2>3. f[i] = e[i] /\ f[i - 1] = e[i - 1]
    BY <2>1
  <2> QED BY <2>2, <2>3
<1>9. \A h, i \in n .. k : h <= i => f[h] <= f[i]
  BY <1>1, <1>5 DEF LaidAt
<1>10. Whole(ks, m, n, lo)
  BY <1>2, <1>3, <1>4
<1> HIDE DEF f
<1>11. LaidAt(ks, m, lo + SizeOf[ks[n]], hi, n, k, f)
  BY <1>7, <1>8, <1>9 DEF LaidAt
<1> QED BY <1>2, <1>6, <1>10, <1>11 DEF Laid

LEMMA LaidSnoc ==
    ASSUME NEW ks \in Seq(Kinds), NEW m, NEW lo, NEW hi, NEW j \in Nat, NEW k \in Nat,
           k + 1 <= Len(ks), Laid(ks, m, lo, hi, j, k), Whole(ks, m, k + 1, hi)
    PROVE  Laid(ks, m, lo, hi + SizeOf[ks[k + 1]], j, k + 1)
<1>1. PICK e \in [j .. k -> 0 .. BlockSize] : LaidAt(ks, m, lo, hi, j, k, e)
  BY DEF Laid
<1> DEFINE n == k + 1
           top == hi + SizeOf[ks[n]]
           f == [i \in j .. n |-> IF i = n THEN top ELSE e[i]]
<1>2. j <= k /\ n \in 1 .. Len(ks)
  BY LenProperties DEF Laid
<1>3. SizeOf[ks[n]] \in Nat /\ SizeOf[ks[n]] >= 1 /\ hi \in 0 .. BlockSize /\ BlockSize \in Nat
  <2>1. k <= Len(ks)
    BY LenProperties
  <2> QED BY <1>2, <2>1, KindsFacts, LaidEnds, BlocksAssumption
<1>4. top \in 0 .. BlockSize /\ hi <= top
  BY <1>3 DEF Whole
<1>5. e[j] = lo /\ e[k] = hi /\ \A i \in j .. k : e[i] \in 0 .. BlockSize /\ e[i] <= hi
  BY <1>1, <1>2 DEF LaidAt
<1> HIDE DEF top
<1>6. f \in [j .. n -> 0 .. BlockSize] /\ f[n] = top /\ \A i \in j .. k : f[i] = e[i]
  BY <1>2, <1>4, <1>5
<1> HIDE DEF f
<1>7. f[j] = lo
  BY <1>2, <1>5, <1>6
<1>8. ASSUME NEW i \in j + 1 .. n
      PROVE  f[i] = f[i - 1] + SizeOf[ks[i]] /\ Whole(ks, m, i, f[i - 1])
  <2>1. CASE i = n
    <3>1. f[i - 1] = hi
      BY <1>2, <1>5, <1>6, <2>1
    <3> QED BY <1>6, <2>1, <3>1 DEF top
  <2>2. CASE i # n
    <3>1. i \in j + 1 .. k /\ i \in j .. k /\ i - 1 \in j .. k
      BY <2>2
    <3>2. e[i] = e[i - 1] + SizeOf[ks[i]] /\ Whole(ks, m, i, e[i - 1])
      BY <1>1, <3>1 DEF LaidAt
    <3>3. f[i] = e[i] /\ f[i - 1] = e[i - 1]
      BY <1>6, <3>1
    <3> QED BY <3>2, <3>3
  <2> QED BY <2>1, <2>2
<1>9. ASSUME NEW h \in j .. n, NEW i \in j .. n, h <= i
      PROVE  f[h] <= f[i]
  <2>1. CASE i # n
    <3>1. h \in j .. k /\ i \in j .. k
      BY <1>9, <2>1
    <3>2. e[h] <= e[i]
      BY <1>1, <1>9, <3>1 DEF LaidAt
    <3> QED BY <1>6, <3>1, <3>2
  <2>2. CASE i = n /\ h # n
    <3>1. h \in j .. k
      BY <2>2
    <3>2. f[h] <= hi /\ f[h] \in Int
      BY <1>5, <1>6, <3>1
    <3> QED BY <1>3, <1>4, <1>6, <2>2, <3>2
  <2>3. CASE i = n /\ h = n
    BY <1>4, <1>6, <2>3
  <2> QED BY <2>1, <2>2, <2>3
<1>10. LaidAt(ks, m, lo, top, j, n, f)
  BY <1>6, <1>7, <1>8, <1>9 DEF LaidAt
<1>11. j <= n
  BY <1>2
<1>12. Laid(ks, m, lo, top, j, n)
  BY <1>6, <1>10, <1>11 DEF Laid
<1> QED BY <1>12 DEF top

\* What lies in m lies in m2, if that has the same between lo and hi.
LEMMA LaidFrame ==
    ASSUME NEW ks \in Seq(Kinds), NEW m, NEW lo, NEW hi, NEW j \in Nat, NEW k \in Nat,
           k <= Len(ks), Laid(ks, m, lo, hi, j, k),
           NEW ks2, \A i \in j + 1 .. k : ks2[i] = ks[i],
           NEW m2, \A o \in lo .. hi - 1 : m2[o] = m[o]
    PROVE  Laid(ks2, m2, lo, hi, j, k)
<1>1. PICK e \in [j .. k -> 0 .. BlockSize] : LaidAt(ks, m, lo, hi, j, k, e)
  BY DEF Laid
<1>2. j <= k /\ Len(ks) \in Nat
  BY LenProperties DEF Laid
<1>3. /\ e[j] = lo /\ e[k] = hi /\ lo \in 0 .. BlockSize /\ hi \in 0 .. BlockSize
      /\ \A i \in j .. k : e[i] \in 0 .. BlockSize /\ lo <= e[i] /\ e[i] <= hi
  BY <1>1, <1>2 DEF LaidAt
<1>4. ASSUME NEW i \in j + 1 .. k
      PROVE  e[i] = e[i - 1] + SizeOf[ks2[i]] /\ Whole(ks2, m2, i, e[i - 1])
  <2>1. i \in j .. k /\ i - 1 \in j .. k /\ i \in 1 .. Len(ks) /\ ks2[i] = ks[i]
    <3>1. i \in Int /\ j + 1 <= i /\ i <= k
      OBVIOUS
    <3> QED BY <1>2, <3>1
  <2>2. e[i] = e[i - 1] + SizeOf[ks[i]] /\ Whole(ks, m, i, e[i - 1])
    BY <1>1 DEF LaidAt
  <2>3. SizeOf[ks[i]] \in Nat
    BY <2>1, KindsFacts
  <2>4. e[i - 1] \in Int /\ lo <= e[i - 1] /\ e[i] <= hi /\ hi \in Int /\ lo \in Int
    BY <1>3, <2>1
  <2>5. ASSUME NEW p \in 0 .. SizeOf[ks[i]] - 1
        PROVE  m2[e[i - 1] + p] = m[e[i - 1] + p]
    <3> DEFINE a == e[i - 1]
               n == SizeOf[ks[i]]
    <3>1. a + n <= hi /\ a \in Int /\ n \in Nat /\ lo <= a /\ p \in 0 .. n - 1
      BY <2>2, <2>3, <2>4
    <3> HIDE DEF a, n
    <3>2. a + p \in lo .. hi - 1
      BY <2>4, <3>1
    <3> QED BY <3>2 DEF a
  <2> QED BY <2>1, <2>2, <2>5 DEF Whole
<1>5. LaidAt(ks2, m2, lo, hi, j, k, e)
  BY <1>1, <1>4 DEF LaidAt
<1> QED BY <1>2, <1>5 DEF Laid


-----------------------------------------------------------------------------
(* Types                                                                   *)

LEMMA NextBlockFacts ==
    ASSUME NEW b \in BlockIds
    PROVE  NextBlock(b) \in BlockIds /\ NextBlock(b) # b
<1>1. Blocks \in Nat /\ Blocks >= 2 /\ b \in Nat /\ b < Blocks
  BY BlocksAssumption DEF BlockIds
<1>2. CASE b + 1 < Blocks
  <2>1. (b + 1) % Blocks = b + 1
    BY <1>1, <1>2
  <2> QED BY <1>1, <1>2, <2>1 DEF NextBlock, BlockIds
<1>3. CASE b + 1 = Blocks
  <2>1. (b + 1) % Blocks = 0
    BY <1>1, <1>3
  <2> QED BY <1>1, <1>3, <2>1 DEF NextBlock, BlockIds
<1> QED BY <1>1, <1>2, <1>3

LEMMA KindsType ==
    ASSUME TypeOK
    PROVE  /\ kinds \in Seq(Kinds) /\ Len(kinds) \in Nat /\ DOMAIN kinds = 1 .. Len(kinds)
           /\ \A k \in 1 .. Len(kinds) :
                 kinds[k] \in Kinds /\ SizeOf[kinds[k]] \in Nat /\ SizeOf[kinds[k]] >= 1
           /\ received \in Seq(Nat) /\ Len(received) \in Nat /\ DOMAIN received = 1 .. Len(received)
           /\ committed \in Nat /\ BlockSize \in Nat
BY LenProperties, KindsFacts, BlocksAssumption DEF TypeOK

LEMMA SizeNow ==
    ASSUME TypeOK, Len(kinds) # 0
    PROVE  Size \in Nat /\ Size >= 1 /\ Len(kinds) \in 1 .. Len(kinds)
<1>1. Len(kinds) \in 1 .. Len(kinds)
  BY KindsType
<1> QED BY <1>1, KindsType DEF Size

LEMMA WriterTypes ==
    ASSUME LogInv, CalmWrite \/ Write \/ Register \/ Stop
    PROVE  TypeOK'
<1>1. TypeOK /\ Records /\ Writer
  BY DEF LogInv
<1>2. CASE Register
  BY <1>1, <1>2 DEF Register, RegisterCommonTypes, RegisterBookTypes, TypeOK, Kinds, buffer, history
<1>3. CASE CalmWrite
  <2>1. PICK t \in registered :
          /\ kinds' = Append(kinds, t)
          /\ \/ wpc' = "copy" /\ UNCHANGED end
             \/ wpc' = "store_block" /\ end' = [end EXCEPT ![wBlk] = wOff]
    BY <1>3 DEF CalmWrite, GetWritePointer
  <2>2. /\ Len(kinds) < MaxRecords
        /\ UNCHANGED <<wOff, wBlk, rOff, rBlk, mem, registered, rpc, seenOff, run, committed, received>>
    BY <1>3 DEF CalmWrite, GetWritePointer
  <2>3. kinds' \in Seq(Kinds) /\ Len(kinds') = Len(kinds) + 1
    BY <1>1, <2>1, KindsType, AppendProperties DEF TypeOK
  <2>4. Len(kinds') <= MaxRecords
    BY <1>1, <2>2, <2>3, KindsType, MaxRecordsAssumption
  <2>5. end' \in [BlockIds -> 0 .. BlockSize]
    BY <1>1, <2>1 DEF TypeOK
  <2>6. wpc' \in {"copy", "store_block"}
    BY <2>1
  <2> QED BY <1>1, <2>2, <2>3, <2>4, <2>5, <2>6 DEF TypeOK
<1>4. CASE StoreBlock
  <2>1. wBlk' \in BlockIds
    BY <1>1, <1>4, NextBlockFacts DEF StoreBlock, TypeOK
  <2> QED BY <1>1, <1>4, <2>1 DEF StoreBlock, TypeOK, history
<1>5. CASE StoreOffset
  BY <1>1, <1>5, BlocksAssumption DEF StoreOffset, TypeOK, history
<1>6. CASE CopyRecord
  <2>1. Len(kinds) # 0 /\ wpc = "copy"
    BY <1>1, <1>6, KindsType DEF CopyRecord, Records, Writing
  <2>2. Size \in Nat /\ Fits(Size) /\ BlockSize \in Nat /\ Len(kinds) <= MaxRecords
        /\ Len(kinds) \in Nat /\ wOff \in 0 .. BlockSize /\ wBlk \in BlockIds
    BY <1>1, <2>1, SizeNow, KindsType DEF Writer, TypeOK
  <2>3. \A o \in Place : [record |-> Len(kinds), part |-> o - wOff] \in Pieces
    BY <2>2, MaxRecordsAssumption DEF Place, Pieces, Fits
  <2>4. mem' \in [BlockIds -> [Offsets -> Pieces]]
    <3>1. CASE UNCHANGED mem
      BY <1>1, <3>1 DEF TypeOK
    <3>2. CASE mem' = [mem EXCEPT ![wBlk] =
                [o \in Offsets |->
                    IF o \in Place THEN [record |-> Len(kinds), part |-> o - wOff] ELSE @[o]]]
      <4>1. mem \in [BlockIds -> [Offsets -> Pieces]]
        BY <1>1 DEF TypeOK
      <4>2. [o \in Offsets |->
               IF o \in Place THEN [record |-> Len(kinds), part |-> o - wOff] ELSE mem[wBlk][o]]
            \in [Offsets -> Pieces]
        BY <2>2, <2>3, <4>1
      <4> QED BY <3>2, <4>1, <4>2
    <3> QED BY <1>6, <3>1, <3>2 DEF CopyRecord
  <2>5. wpc' \in {"forward", "undefined"}
    BY <1>6 DEF CopyRecord
  <2> QED BY <1>1, <1>6, <2>4, <2>5 DEF CopyRecord, TypeOK, history
<1>7. CASE ForwardWritePointer
  <2>1. Len(kinds) # 0 /\ wpc = "forward"
    BY <1>1, <1>7, KindsType DEF ForwardWritePointer, Records, Writing
  <2>2. Size \in Nat /\ Fits(Size) /\ wOff \in 0 .. BlockSize /\ BlockSize \in Nat
    BY <1>1, <2>1, SizeNow, KindsType DEF Writer, TypeOK
  <2>3. wOff' \in 0 .. BlockSize
    BY <1>7, <2>2 DEF ForwardWritePointer, Forwarded, Fits
  <2> QED BY <1>1, <1>7, <2>3 DEF ForwardWritePointer, TypeOK
<1>8. CASE Stop
  BY <1>1, <1>8 DEF Stop, TypeOK, buffer, history
<1>9. CASE Joined
  BY <1>1, <1>9 DEF Joined, TypeOK, buffer, history
<1> QED BY <1>2, <1>3, <1>4, <1>5, <1>6, <1>7, <1>8, <1>9 DEF Write

LEMMA ReaderTypes ==
    ASSUME LogInv, Reader
    PROVE  TypeOK'
<1>1. TypeOK
  BY DEF LogInv
<1>2. ASSUME CheckWrap
      PROVE  rBlk' \in BlockIds /\ rOff' \in 0 .. BlockSize /\ end' \in [BlockIds -> 0 .. BlockSize]
  <2>1. NextBlock(rBlk) \in BlockIds /\ 0 \in 0 .. BlockSize
    BY <1>1, NextBlockFacts, BlocksAssumption DEF TypeOK
  <2>2. [end EXCEPT ![NextBlock(rBlk)] = 0] \in [BlockIds -> 0 .. BlockSize]
    BY <1>1, <2>1 DEF TypeOK
  <2>3. CASE AtEnd
    BY <1>2, <2>1, <2>2, <2>3 DEF CheckWrap, Ends
  <2>4. CASE ~AtEnd
    BY <1>1, <1>2, <2>4 DEF CheckWrap, TypeOK
  <2> QED BY <2>3, <2>4
<1>3. CASE CanRead
  BY <1>1, <1>2, <1>3 DEF CanRead, TypeOK, history
<1>4. CASE LoadOffset
  BY <1>1, <1>4 DEF LoadOffset, TypeOK, buffer, history
<1>5. CASE LoadBlock
  BY <1>1, <1>5 DEF LoadBlock, TypeOK, buffer, history
<1>6. CASE GetReadPointer
  BY <1>1, <1>2, <1>6 DEF GetReadPointer, TypeOK, history
<1>7. CASE Empty
  BY <1>1, <1>7 DEF Empty, TypeOK, buffer, history
<1>8. CASE Read
  <2>1. CASE \E k \in DOMAIN kinds :
               /\ Formattable(k) /\ received' = Append(received, k)
               /\ rOff' = rOff + SizeOf[kinds[k]] /\ rpc' = "can_read"
    <3>1. PICK k \in 1 .. Len(kinds) :
               /\ Formattable(k) /\ received' = Append(received, k)
               /\ rOff' = rOff + SizeOf[kinds[k]] /\ rpc' = "can_read"
      BY <1>1, <2>1, KindsType
    <3> DEFINE n == SizeOf[kinds[k]]
    <3>2. n \in Nat /\ n >= 1 /\ k \in Nat /\ rOff \in 0 .. BlockSize /\ BlockSize \in Nat
      <4>1. kinds[k] \in Kinds /\ k \in Nat
        <5>1. \A j \in 1 .. Len(kinds) : kinds[j] \in Kinds
          BY <1>1, KindsType
        <5>2. Len(kinds) \in Nat
          BY <1>1, KindsType
        <5> QED BY <5>1, <5>2
      <4>2. n \in Nat /\ n >= 1 /\ BlockSize \in Nat
        BY <4>1, SizeFacts
      <4>3. rOff \in 0 .. BlockSize
        BY <1>1 DEF TypeOK
      <4> QED BY <4>1, <4>2, <4>3
    <3>3. rOff + (n - 1) \in Offsets
      <4>1. n - 1 \in 0 .. n - 1
        BY <3>2
      <4> QED BY <3>1, <4>1 DEF Formattable, Holds
    <3>4. rOff' = rOff + n
      BY <3>1
    <3> HIDE DEF n
    <3>5. rOff' \in 0 .. BlockSize
      BY <3>2, <3>3, <3>4 DEF Offsets
    <3>6. received' \in Seq(Nat)
      BY <1>1, <3>1, <3>2, KindsType, AppendProperties
    <3> QED BY <1>1, <1>8, <3>1, <3>5, <3>6 DEF Read, TypeOK
  <2>2. CASE rpc' = "crashed" /\ UNCHANGED <<received, rOff>>
    BY <1>1, <1>8, <2>2 DEF Read, TypeOK
  <2> QED BY <1>8, <2>1, <2>2 DEF Read
<1> QED BY <1>3, <1>4, <1>5, <1>6, <1>7, <1>8 DEF Reader


-----------------------------------------------------------------------------
(* The writer's steps                                                      *)

\* What the invariant gives every step.
LEMMA Facts ==
    ASSUME LogInv
    PROVE  /\ TypeOK /\ Records /\ Writer /\ InOrder /\ Seen /\ (Together \/ Behind)
           /\ kinds \in Seq(Kinds) /\ Len(kinds) \in Nat /\ committed \in Nat
           /\ Len(received) \in Nat /\ Len(received) <= committed /\ committed <= Len(kinds)
           /\ rBlk \in BlockIds /\ wBlk \in BlockIds
           /\ wOff \in 0 .. BlockSize /\ rOff \in 0 .. BlockSize /\ BlockSize \in Nat
           /\ (Behind => rBlk # wBlk) /\ (Together => rBlk = wBlk)
<1>1. TypeOK /\ Records /\ Writer /\ InOrder /\ Seen /\ (Together \/ Behind)
  BY DEF LogInv
<1>2. /\ rBlk \in BlockIds /\ wBlk \in BlockIds
      /\ wOff \in 0 .. BlockSize /\ rOff \in 0 .. BlockSize
  BY <1>1 DEF TypeOK
<1>3. (Behind => rBlk # wBlk) /\ (Together => rBlk = wBlk)
  BY <1>2, NextBlockFacts DEF Behind, Together
<1>4. Len(received) <= committed /\ committed <= Len(kinds)
  BY <1>1, KindsType DEF InOrder, Records
<1> QED BY <1>1, <1>2, <1>3, <1>4, KindsType

LEMMA QuietInv ==
    ASSUME LogInv, Register \/ Stop \/ Joined
    PROVE  LogInv'
<1>1. TypeOK'
  BY WriterTypes DEF Write
<1>2. /\ Records /\ Writer /\ InOrder /\ Seen /\ (Together \/ Behind)
  BY Facts
<1>3. /\ UNCHANGED <<buffer, history, rpc, seenOff>>
      /\ wpc \notin Writing /\ wpc' \notin Writing /\ registered \subseteq registered'
  <2>1. CASE Register
    BY <2>1 DEF Register, RegisterCommonTypes, RegisterBookTypes, Kinds, Writing
  <2>2. CASE Stop
    BY <2>2 DEF Stop, Writing
  <2>3. CASE Joined
    BY <2>3 DEF Joined, Writing
  <2> QED BY <2>1, <2>2, <2>3
<1>4. InOrder'
  BY <1>2, <1>3 DEF InOrder, history
<1>5. Records'
  BY <1>2, <1>3 DEF Records, history
<1>6. Writer'
  BY <1>2, <1>3 DEF Writer, Writing, buffer, history
<1>7. (Together \/ Behind)'
  BY <1>2, <1>3 DEF Together, Behind, Writing, buffer, history
<1>8. Seen'
  BY <1>2, <1>3 DEF Seen, CanReadMeansUnread, buffer, history
<1> QED BY <1>1, <1>4, <1>5, <1>6, <1>7, <1>8 DEF LogInv

LEMMA GetWritePointerInv ==
    ASSUME LogInv, CalmWrite
    PROVE  LogInv'
<1>1. TypeOK'
  BY WriterTypes
<1>2. PICK t \in registered :
        /\ kinds' = Append(kinds, t)
        /\ \/ Fits(SizeOf[t]) /\ wpc' = "copy" /\ UNCHANGED end
           \/ ~Fits(SizeOf[t]) /\ wpc' = "store_block" /\ end' = [end EXCEPT ![wBlk] = wOff]
  BY DEF CalmWrite, GetWritePointer
<1>3. /\ wpc = "idle" /\ (wpc' = "store_block" => rBlk = wBlk)
      /\ UNCHANGED <<wOff, wBlk, rOff, rBlk, mem, registered, rpc, seenOff, run, committed, received>>
  BY DEF CalmWrite, GetWritePointer
<1>4. /\ TypeOK /\ Records /\ Writer /\ InOrder /\ Seen /\ (Together \/ Behind)
      /\ kinds \in Seq(Kinds) /\ Len(kinds) \in Nat /\ committed \in Nat
      /\ Len(received) \in Nat /\ Len(received) <= committed /\ committed <= Len(kinds)
      /\ wBlk \in BlockIds /\ wOff \in 0 .. BlockSize /\ BlockSize \in Nat
      /\ (Behind => rBlk # wBlk) /\ (Together => rBlk = wBlk)
  BY Facts
<1>5. t \in Kinds /\ SizeOf[t] \in Nat /\ SizeOf[t] <= BlockSize
  BY <1>4, SizeFacts DEF TypeOK
<1>6. /\ Len(kinds') = Len(kinds) + 1 /\ kinds'[Len(kinds) + 1] = t
      /\ kinds' \in Seq(Kinds) /\ DOMAIN kinds' = 1 .. Len(kinds) + 1
      /\ \A k \in 1 .. Len(kinds) : kinds'[k] = kinds[k]
  <2>1. /\ kinds' \in Seq(Kinds) /\ Len(kinds') = Len(kinds) + 1 /\ kinds'[Len(kinds) + 1] = t
        /\ \A k \in 1 .. Len(kinds) : kinds'[k] = kinds[k]
    BY <1>2, <1>4, <1>5, AppendProperties
  <2> QED BY <2>1, LenProperties
<1>7. Size' = SizeOf[t]
  BY <1>6 DEF Size
<1>8. InOrder'
  BY <1>3, <1>4 DEF InOrder
<1>9. Records'
  <2>1. Len(kinds) = committed /\ DOMAIN kinds = 1 .. Len(kinds) /\ \A k \in 1 .. Len(kinds) : kinds[k] \in registered
    BY <1>3, <1>4, LenProperties DEF Records, Writing
  <2>2. wpc' \in Writing
    BY <1>2 DEF Writing
  <2>3. \A k \in DOMAIN kinds' : kinds'[k] \in registered
    BY <1>4, <1>6, <2>1
  <2> QED BY <1>3, <1>6, <2>1, <2>2, <2>3 DEF Records
<1>10. Writer'
  <2>1. /\ wOff = 0 => committed = 0
        /\ committed = 0 => wOff = 0 /\ rBlk = wBlk
    BY <1>3, <1>4 DEF Writer
  <2>2. CASE wpc' = "copy"
    BY <1>2, <1>3, <1>7, <2>1, <2>2 DEF Writer, Fits
  <2>3. CASE wpc' = "store_block"
    <3>1. ~Fits(SizeOf[t]) /\ end' = [end EXCEPT ![wBlk] = wOff]
      BY <1>2, <2>3
    <3>2. wOff # 0
      BY <1>4, <1>5, <3>1 DEF Fits
    <3>3. end'[wBlk] = wOff
      BY <1>4, <3>1 DEF TypeOK
    <3> QED BY <1>3, <2>1, <2>3, <3>2, <3>3 DEF Writer
  <2> QED BY <1>2, <2>2, <2>3
<1>11. \A m, lo, hi : \A j, k \in Nat :
          k <= Len(kinds) /\ Laid(kinds, m, lo, hi, j, k) => Laid(kinds', m, lo, hi, j, k)
  <2> SUFFICES ASSUME NEW m, NEW lo, NEW hi, NEW j \in Nat, NEW k \in Nat,
                      k <= Len(kinds), Laid(kinds, m, lo, hi, j, k)
               PROVE  Laid(kinds', m, lo, hi, j, k)
    OBVIOUS
  <2>1. \A i \in j + 1 .. k : i \in 1 .. Len(kinds)
    BY <1>4
  <2>2. \A i \in j + 1 .. k : kinds'[i] = kinds[i]
    BY <1>6, <2>1
  <2> QED BY <1>4, <2>2, LaidFrame
<1>12. (Together \/ Behind)'
  <2>1. CASE Together
    <3>1. Laid(kinds', mem[wBlk], rOff, wOff, Len(received), committed)
      BY <1>4, <1>11, <2>1 DEF Together
    <3>2. wpc' # "store_block" => end'[wBlk] = 0
      BY <1>2, <1>3, <2>1 DEF Together
    <3> QED BY <1>3, <2>1, <3>1, <3>2 DEF Together
  <2>2. CASE Behind
    <3>1. PICK s \in Len(received) .. committed :
            /\ Laid(kinds, mem[rBlk], rOff, end[rBlk], Len(received), s)
            /\ Laid(kinds, mem[wBlk], 0, wOff, s, committed)
      BY <1>3, <2>2 DEF Behind
    <3>2. wpc' = "copy" /\ end' = end
      BY <1>2, <1>3, <1>4, <2>2
    <3>3. s \in Nat /\ s <= Len(kinds)
      BY <1>4
    <3>4. /\ Laid(kinds', mem[rBlk], rOff, end[rBlk], Len(received), s)
          /\ Laid(kinds', mem[wBlk], 0, wOff, s, committed)
      BY <1>4, <1>11, <3>1, <3>3
    <3> QED BY <1>3, <2>2, <3>2, <3>4 DEF Behind
  <2> QED BY <1>4, <2>1, <2>2
<1>13. Seen'
  <2>1. rBlk # wBlk => end' = end
    BY <1>2, <1>3
  <2> QED BY <1>3, <1>4, <2>1 DEF Seen, CanReadMeansUnread
<1> QED BY <1>1, <1>8, <1>9, <1>10, <1>12, <1>13 DEF LogInv

LEMMA StoreBlockInv ==
    ASSUME LogInv, StoreBlock
    PROVE  LogInv'
<1>1. TypeOK'
  BY WriterTypes DEF Write
<1>2. /\ TypeOK /\ Records /\ Writer /\ InOrder /\ Seen /\ (Together \/ Behind)
      /\ kinds \in Seq(Kinds) /\ committed \in Nat
      /\ Len(received) \in Nat /\ Len(received) <= committed /\ committed <= Len(kinds)
      /\ wBlk \in BlockIds /\ (Behind => rBlk # wBlk)
  BY Facts
<1>3. /\ wpc = "store_block" /\ wpc' = "store_offset" /\ wBlk' = NextBlock(wBlk)
      /\ UNCHANGED <<wOff, rOff, rBlk, end, mem, kinds, committed, received, registered, rpc, seenOff>>
  BY DEF StoreBlock, history
<1>4. wOff # 0 /\ rBlk = wBlk /\ end[wBlk] = wOff /\ committed # 0
  BY <1>2, <1>3 DEF Writer
<1>5. Laid(kinds, mem[rBlk], rOff, end[rBlk], Len(received), committed)
  BY <1>2, <1>4 DEF Together
<1>6. wBlk' = NextBlock(rBlk) /\ rBlk # wBlk'
  BY <1>2, <1>3, <1>4, NextBlockFacts
<1>7. InOrder' /\ Records'
  BY <1>2, <1>3 DEF InOrder, Records, Writing
<1>8. Writer'
  BY <1>3, <1>4, <1>6 DEF Writer
<1>9. Behind'
  <2>1. committed \in Len(received) .. committed
    BY <1>2
  <2> QED BY <1>3, <1>4, <1>5, <1>6, <2>1 DEF Behind
<1>10. Seen'
  <2>1. Len(received) < committed => rOff # end[rBlk]
    BY <1>2, <1>5, LaidEnds
  <2> QED BY <1>2, <1>3, <1>6, <2>1 DEF Seen, CanReadMeansUnread
<1> QED BY <1>1, <1>7, <1>8, <1>9, <1>10 DEF LogInv

LEMMA StoreOffsetInv ==
    ASSUME LogInv, StoreOffset
    PROVE  LogInv'
<1>1. TypeOK'
  BY WriterTypes DEF Write
<1>2. /\ TypeOK /\ Records /\ Writer /\ InOrder /\ Seen /\ (Together \/ Behind)
      /\ committed \in Nat /\ BlockSize \in Nat /\ (Together => rBlk = wBlk)
  BY Facts
<1>3. /\ wpc = "store_offset" /\ wpc' = "copy" /\ wOff' = 0
      /\ UNCHANGED <<wBlk, rOff, rBlk, end, mem, kinds, committed, received, registered, rpc, seenOff>>
  BY DEF StoreOffset, history
<1>4. rBlk # wBlk /\ committed # 0 /\ Behind
  BY <1>2, <1>3 DEF Writer
<1>5. Laid(kinds, mem[wBlk], 0, 0, committed, committed)
  BY <1>2, LaidNil
<1>6. InOrder' /\ Records'
  BY <1>2, <1>3 DEF InOrder, Records, Writing
<1>7. Writer'
  <2>1. Len(kinds) # 0
    BY <1>2, <1>3, KindsType DEF Records, Writing
  <2>2. Size <= BlockSize /\ Size' = Size
    <3>1. Len(kinds) \in 1 .. Len(kinds) /\ kinds[Len(kinds)] \in Kinds
      BY <1>2, <2>1, SizeNow, KindsType
    <3> QED BY <1>3, <3>1, SizeFacts DEF Size
  <2>3. Fits(Size)'
    <3>1. Size \in Nat
      BY <1>2, <2>1, SizeNow
    <3> QED BY <1>3, <2>2, <3>1 DEF Fits
  <2> QED BY <1>3, <1>4, <2>3 DEF Writer
<1>8. Behind'
  BY <1>3, <1>4, <1>5 DEF Behind
<1>9. Seen'
  BY <1>2, <1>3, <1>4 DEF Seen, CanReadMeansUnread
<1> QED BY <1>1, <1>6, <1>7, <1>8, <1>9 DEF LogInv


LEMMA CopyRecordInv ==
    ASSUME LogInv, CopyRecord
    PROVE  LogInv'
<1>1. TypeOK'
  BY WriterTypes DEF Write
<1>2. /\ TypeOK /\ Records /\ Writer /\ InOrder /\ Seen /\ (Together \/ Behind)
      /\ kinds \in Seq(Kinds) /\ Len(kinds) \in Nat /\ committed \in Nat
      /\ Len(received) \in Nat /\ Len(received) <= committed /\ committed <= Len(kinds)
      /\ rBlk \in BlockIds /\ wBlk \in BlockIds /\ wOff \in 0 .. BlockSize /\ BlockSize \in Nat
      /\ rOff \in 0 .. BlockSize /\ (Behind => rBlk # wBlk)
  BY Facts
<1>3. /\ wpc = "copy" /\ wpc' \in {"forward", "undefined"}
      /\ UNCHANGED <<wOff, wBlk, rOff, rBlk, end, kinds, committed, received, registered, rpc, seenOff>>
  BY DEF CopyRecord, history
<1>4. /\ Len(kinds) # 0 /\ Fits(Size) /\ Size \in Nat /\ Size >= 1
  BY <1>2, <1>3, KindsType, SizeNow DEF Records, Writing, Writer
<1>5. wpc' = "forward" => mem' = [mem EXCEPT ![wBlk] =
            [o \in Offsets |-> IF o \in Place THEN [record |-> Len(kinds), part |-> o - wOff] ELSE @[o]]]
  BY DEF CopyRecord
<1>6. wpc' = "undefined" => mem' = mem
  BY DEF CopyRecord
<1>7. mem \in [BlockIds -> [Offsets -> Pieces]]
  BY <1>2 DEF TypeOK
<1>8. ASSUME NEW b \in BlockIds, NEW lo \in Nat, NEW hi \in 0 .. BlockSize, b = wBlk => hi <= wOff,
             NEW o \in lo .. hi - 1
      PROVE  mem'[b][o] = mem[b][o]
  <2>1. CASE wpc' = "undefined"
    BY <1>6, <2>1
  <2>2. CASE wpc' = "forward" /\ b # wBlk
    BY <1>2, <1>5, <1>7, <2>2
  <2>3. CASE wpc' = "forward" /\ b = wBlk
    <3>1. o \in Int /\ o >= 0 /\ o < hi /\ hi <= wOff /\ wOff \in Int /\ hi \in Int
      BY <1>2, <1>8, <2>3
    <3>2. o \in Offsets /\ o \notin Place
      BY <1>2, <1>4, <3>1 DEF Offsets, Place
    <3> QED BY <1>2, <1>5, <1>7, <2>3, <3>2
  <2> QED BY <1>3, <2>1, <2>2, <2>3
<1>9. ASSUME wpc' = "forward"
      PROVE  Whole(kinds, mem'[wBlk], Len(kinds), wOff)
  <2>1. SizeOf[kinds[Len(kinds)]] = Size
    BY DEF Size
  <2>2. mem'[wBlk] = [o \in Offsets |->
            IF o \in Place THEN [record |-> Len(kinds), part |-> o - wOff] ELSE mem[wBlk][o]]
    BY <1>2, <1>5, <1>7, <1>9
  <2>3. ASSUME NEW p \in 0 .. Size - 1
        PROVE  mem'[wBlk][wOff + p] = [record |-> Len(kinds), part |-> p]
    <3>1. wOff + p \in Offsets /\ wOff + p \in Place /\ (wOff + p) - wOff = p
      BY <1>2, <1>4 DEF Offsets, Place, Fits
    <3> QED BY <2>2, <3>1
  <2> QED BY <1>4, <2>1, <2>3 DEF Whole, Fits
<1>10. InOrder' /\ Records'
  BY <1>2, <1>3 DEF InOrder, Records, Writing
<1>11. Writer'
  <2>1. Size' = Size
    BY <1>3 DEF Size
  <2>2. Fits(Size)'
    BY <1>3, <1>4, <2>1 DEF Fits
  <2>3. committed = 0 => wOff = 0 /\ rBlk = wBlk
    BY <1>2 DEF Writer
  <2> QED BY <1>3, <1>9, <2>2, <2>3 DEF Writer
<1>12. (Together \/ Behind)'
  <2>1. CASE Together
    <3>1. rBlk = wBlk /\ end[wBlk] = 0 /\ Laid(kinds, mem[wBlk], rOff, wOff, Len(received), committed)
      BY <1>3, <2>1 DEF Together
    <3>2. \A o \in rOff .. wOff - 1 : mem'[wBlk][o] = mem[wBlk][o]
      <4>1. rOff \in Nat /\ wOff <= wOff /\ wBlk \in BlockIds /\ wOff \in 0 .. BlockSize
        BY <1>2
      <4> QED BY <1>8, <4>1
    <3>3. Laid(kinds, mem'[wBlk], rOff, wOff, Len(received), committed)
      BY <1>2, <3>1, <3>2, LaidFrame
    <3> QED BY <1>3, <3>1, <3>3 DEF Together
  <2>2. CASE Behind
    <3>1. PICK s \in Len(received) .. committed :
            /\ Laid(kinds, mem[rBlk], rOff, end[rBlk], Len(received), s)
            /\ Laid(kinds, mem[wBlk], 0, wOff, s, committed)
      BY <1>3, <2>2 DEF Behind
    <3>2. s \in Nat /\ s <= Len(kinds)
      BY <1>2
    <3>3. \A o \in rOff .. end[rBlk] - 1 : mem'[rBlk][o] = mem[rBlk][o]
      <4>1. end[rBlk] \in 0 .. BlockSize /\ rOff \in Nat /\ rBlk # wBlk
        BY <1>2, <2>2 DEF TypeOK
      <4> QED BY <1>2, <1>8, <4>1
    <3>4. \A o \in 0 .. wOff - 1 : mem'[wBlk][o] = mem[wBlk][o]
      <4>1. 0 \in Nat /\ wOff <= wOff /\ wBlk \in BlockIds /\ wOff \in 0 .. BlockSize
        BY <1>2
      <4> QED BY <1>8, <4>1
    <3>5. Laid(kinds, mem'[rBlk], rOff, end[rBlk], Len(received), s)
      BY <1>2, <3>1, <3>2, <3>3, LaidFrame
    <3>6. Laid(kinds, mem'[wBlk], 0, wOff, s, committed)
      BY <1>2, <3>1, <3>2, <3>4, LaidFrame
    <3>7. wBlk = NextBlock(rBlk) /\ end[rBlk] # 0 /\ wpc' # "store_offset"
      BY <1>3, <2>2 DEF Behind
    <3> QED BY <1>3, <3>5, <3>6, <3>7 DEF Behind
  <2> QED BY <1>2, <2>1, <2>2
<1>13. Seen'
  BY <1>2, <1>3 DEF Seen, CanReadMeansUnread
<1> QED BY <1>1, <1>10, <1>11, <1>12, <1>13 DEF LogInv

LEMMA ForwardInv ==
    ASSUME LogInv, ForwardWritePointer
    PROVE  LogInv'
<1>1. TypeOK'
  BY WriterTypes DEF Write
<1>2. /\ TypeOK /\ Records /\ Writer /\ InOrder /\ Seen /\ (Together \/ Behind)
      /\ kinds \in Seq(Kinds) /\ Len(kinds) \in Nat /\ committed \in Nat
      /\ Len(received) \in Nat /\ Len(received) <= committed /\ committed <= Len(kinds)
      /\ wOff \in 0 .. BlockSize /\ BlockSize \in Nat
  BY Facts
<1>3. /\ wpc = "forward" /\ wpc' = "idle" /\ wOff' = wOff + Size /\ committed' = committed + 1
      /\ UNCHANGED <<wBlk, rOff, rBlk, end, mem, kinds, received, registered, rpc, seenOff>>
  BY DEF ForwardWritePointer, Forwarded
<1>4. Len(kinds) = committed + 1 /\ Size \in Nat /\ Size >= 1 /\ Size = SizeOf[kinds[committed + 1]]
  <2>1. Len(kinds) = committed + 1
    BY <1>2, <1>3 DEF Records, Writing
  <2> QED BY <1>2, <2>1, SizeNow DEF Size
<1>5. Whole(kinds, mem[wBlk], committed + 1, wOff)
  BY <1>2, <1>3, <1>4 DEF Writer
<1>6. InOrder' /\ Records'
  BY <1>2, <1>3, <1>4 DEF InOrder, Records, Writing
<1>7. Writer'
  <2>1. wOff' # 0 /\ committed' # 0
    BY <1>2, <1>3, <1>4
  <2> QED BY <1>3, <2>1 DEF Writer
<1>8. \A lo : \A j \in Nat :
        Laid(kinds, mem[wBlk], lo, wOff, j, committed) => Laid(kinds, mem[wBlk], lo, wOff', j, committed')
  BY <1>2, <1>3, <1>4, <1>5, LaidSnoc
<1>9. (Together \/ Behind)'
  <2>1. CASE Together
    <3>1. rBlk = wBlk /\ end[wBlk] = 0 /\ Laid(kinds, mem[wBlk], rOff, wOff', Len(received), committed')
      BY <1>2, <1>3, <1>8, <2>1 DEF Together
    <3> QED BY <1>3, <3>1 DEF Together
  <2>2. CASE Behind
    <3>1. PICK s \in Len(received) .. committed :
            /\ Laid(kinds, mem[rBlk], rOff, end[rBlk], Len(received), s)
            /\ Laid(kinds, mem[wBlk], 0, wOff, s, committed)
      BY <1>3, <2>2 DEF Behind
    <3>2. s \in Nat /\ s \in Len(received) .. committed'
      BY <1>2, <1>3
    <3>3. Laid(kinds, mem[wBlk], 0, wOff', s, committed')
      BY <1>8, <3>1, <3>2
    <3>4. wBlk = NextBlock(rBlk) /\ end[rBlk] # 0 /\ wpc' # "store_offset"
      BY <1>3, <2>2 DEF Behind
    <3> QED BY <1>3, <3>1, <3>2, <3>3, <3>4 DEF Behind
  <2> QED BY <1>2, <2>1, <2>2
<1>10. Seen'
  <2>1. seenOff \in Int /\ (seenOff <= wOff => seenOff <= wOff')
    BY <1>2, <1>3, <1>4 DEF TypeOK
  <2>2. Len(received) < committed => Len(received) < committed'
    BY <1>2, <1>3
  <2> QED BY <1>2, <1>3, <2>1, <2>2 DEF Seen, CanReadMeansUnread
<1> QED BY <1>1, <1>6, <1>7, <1>9, <1>10 DEF LogInv

-----------------------------------------------------------------------------
(* The reader's steps                                                      *)

\* Checking for a wrap brings the reader to the next record, if there is one.
LEMMA CheckWrapInv ==
    ASSUME LogInv, Defined, ~Switching, CheckWrap,
           UNCHANGED <<wOff, wBlk, mem, history, registered, wpc>>
    PROVE  /\ InOrder' \/ rpc' = "crashed"
           /\ Records' /\ Writer' /\ (Together \/ Behind)'
           /\ rBlk' # wBlk' => rOff' # end'[rBlk']
<1>1. /\ TypeOK /\ Records /\ Writer /\ InOrder /\ Seen /\ (Together \/ Behind)
      /\ kinds \in Seq(Kinds) /\ committed \in Nat
      /\ Len(received) \in Nat /\ Len(received) <= committed /\ committed <= Len(kinds)
      /\ rBlk \in BlockIds /\ wBlk \in BlockIds /\ (Behind => rBlk # wBlk)
  BY Facts
<1>2. /\ UNCHANGED <<wOff, wBlk, mem, kinds, committed, received, registered, wpc>>
  BY DEF history
<1>3. (InOrder' \/ rpc' = "crashed") /\ Records'
  BY <1>1, <1>2 DEF InOrder, Records
<1>4. CASE AtEnd
  <2>1. rBlk' = NextBlock(rBlk) /\ rOff' = 0 /\ end' = [end EXCEPT ![NextBlock(rBlk)] = 0]
    BY <1>4 DEF CheckWrap, Ends
  <2>2. wpc # "store_block" /\ wpc # "store_offset"
    <3>1. wpc \in {"store_block", "store_offset"} => committed # 0
      BY <1>1 DEF Writer
    <3> QED BY <1>1, <3>1 DEF Switching
  <2>3. Behind
    BY <1>1, <1>4, <2>2 DEF Together, AtEnd
  <2>4. PICK s \in Len(received) .. committed :
          /\ Laid(kinds, mem[rBlk], rOff, end[rBlk], Len(received), s)
          /\ Laid(kinds, mem[wBlk], 0, wOff, s, committed)
    BY <2>2, <2>3 DEF Behind
  <2>5. s = Len(received)
    <3>1. rOff = end[rBlk] /\ s \in Nat /\ s <= Len(kinds)
      BY <1>1, <1>4 DEF AtEnd
    <3> QED BY <1>1, <2>4, <3>1, LaidEnds
  <2>6. rBlk' = wBlk' /\ end'[wBlk] = 0
    BY <1>1, <1>2, <2>1, <2>3 DEF Behind, TypeOK
  <2>7. Together'
    BY <1>2, <2>1, <2>4, <2>5, <2>6 DEF Together
  <2>8. Size' = Size
    BY <1>2 DEF Size
  <2>9. Writer'
    BY <1>1, <1>2, <2>2, <2>6, <2>8 DEF Writer, Fits
  <2> QED BY <1>3, <2>6, <2>7, <2>9
<1>5. CASE ~AtEnd
  <2>1. UNCHANGED <<rBlk, rOff, end>>
    BY <1>5 DEF CheckWrap
  <2>2. Size' = Size
    BY <1>2 DEF Size
  <2>3. Writer'
    BY <1>1, <1>2, <2>1, <2>2 DEF Writer, Fits
  <2>4. (Together \/ Behind)'
    BY <1>1, <1>2, <2>1 DEF Together, Behind
  <2>5. rBlk # wBlk => rOff # end[rBlk]
    BY <1>1, <1>5 DEF AtEnd, Behind, Together
  <2> QED BY <1>2, <1>3, <2>1, <2>3, <2>4, <2>5
<1> QED BY <1>4, <1>5

LEMMA WrapsInv ==
    ASSUME LogInv, Defined, ~Switching, CanRead \/ GetReadPointer
    PROVE  LogInv'
<1>1. TypeOK'
  BY ReaderTypes DEF Reader
<1>2. /\ Seen /\ CheckWrap /\ UNCHANGED <<wOff, wBlk, mem, history, registered, wpc, seenOff>>
  BY Facts DEF CanRead, GetReadPointer
<1>3. \/ rpc' = "load_offset"
      \/ rpc = "get_pointer" /\ rpc' = "read"
  BY DEF CanRead, GetReadPointer
<1>4. /\ InOrder' \/ rpc' = "crashed"
      /\ Records' /\ Writer' /\ (Together \/ Behind)'
      /\ rBlk' # wBlk' => rOff' # end'[rBlk']
  BY <1>2, CheckWrapInv
<1>5. Seen'
  BY <1>2, <1>3, <1>4 DEF Seen, CanReadMeansUnread, history
<1> QED BY <1>1, <1>3, <1>4, <1>5 DEF LogInv

LEMMA LooksInv ==
    ASSUME LogInv, Defined, ~Switching, LoadOffset \/ LoadBlock \/ Empty
    PROVE  LogInv'
<1>1. TypeOK'
  BY ReaderTypes DEF Reader
<1>2. /\ TypeOK /\ Records /\ Writer /\ InOrder /\ Seen /\ (Together \/ Behind)
      /\ kinds \in Seq(Kinds) /\ committed \in Nat
      /\ Len(received) \in Nat /\ Len(received) <= committed /\ committed <= Len(kinds)
      /\ wOff \in 0 .. BlockSize /\ rOff \in 0 .. BlockSize /\ BlockSize \in Nat
      /\ (Together => rBlk = wBlk) /\ (Behind => rBlk # wBlk)
  BY Facts
<1>3. UNCHANGED <<buffer, history, registered, wpc>> /\ rpc' # "crashed" /\ rpc' # "read"
  BY DEF LoadOffset, LoadBlock, Empty
<1>4. InOrder' /\ Records' /\ (Together \/ Behind)'
  BY <1>2, <1>3 DEF InOrder, Records, Together, Behind, buffer, history
<1>5. Writer'
  <2>1. Size' = Size
    BY <1>3 DEF Size, history
  <2> QED BY <1>2, <1>3, <2>1 DEF Writer, Fits, buffer, history
<1>6. Seen'
  <2>1. CASE LoadOffset
    <3>1. rpc' = "load_block" /\ seenOff' = wOff /\ wOff' = wOff
      BY <2>1 DEF LoadOffset, buffer
    <3> QED BY <1>2, <3>1 DEF Seen, CanReadMeansUnread
  <2>2. CASE Empty
    BY <2>2 DEF Empty, Seen, CanReadMeansUnread
  <2>3. CASE LoadBlock
    <3>1. rpc = "load_block" /\ rpc' = IF Readable THEN "get_pointer" ELSE "empty"
      BY <2>3 DEF LoadBlock
    <3>2. ASSUME Readable PROVE Len(received) < committed
      <4>1. CASE Together
        <5>1. rOff < seenOff /\ seenOff <= wOff /\ seenOff \in Int
          BY <1>2, <3>1, <3>2, <4>1 DEF Readable, Seen, TypeOK
        <5>2. rOff # wOff
          BY <1>2, <5>1
        <5>3. Laid(kinds, mem[wBlk], rOff, wOff, Len(received), committed)
          BY <4>1 DEF Together
        <5>4. Len(received) # committed
          BY <1>2, <5>2, <5>3, LaidEnds
        <5> QED BY <1>2, <5>4
      <4>2. CASE Behind
        <5>1. committed # 0
          BY <1>2, <4>2 DEF Writer
        <5>2. wpc # "store_offset" /\ wOff # 0
          BY <1>2, <5>1 DEF Switching, Writer, Defined
        <5>3. PICK s \in Len(received) .. committed : Laid(kinds, mem[wBlk], 0, wOff, s, committed)
          BY <4>2, <5>2 DEF Behind
        <5>4. s # committed
          BY <1>2, <5>2, <5>3, LaidEnds
        <5> QED BY <1>2, <5>4
      <4> QED BY <1>2, <4>1, <4>2
    <3> QED BY <1>3, <3>1, <3>2 DEF Seen, CanReadMeansUnread, history
  <2> QED BY <2>1, <2>2, <2>3
<1> QED BY <1>1, <1>4, <1>5, <1>6 DEF LogInv



\* The place in the reader's block is that of the next record.
LEMMA NextRecord ==
    ASSUME LogInv, Defined, ~Switching, rpc = "read"
    PROVE  \E hi : \E s \in Len(received) + 1 .. committed :
              /\ Laid(kinds, mem[rBlk], rOff, hi, Len(received), s)
              /\ \/ Together /\ s = committed /\ hi = wOff
                 \/ Behind /\ hi = end[rBlk] /\ Laid(kinds, mem[wBlk], 0, wOff, s, committed)
<1>1. /\ Writer /\ Seen /\ (Together \/ Behind)
      /\ kinds \in Seq(Kinds) /\ Len(kinds) \in Nat /\ committed \in Nat
      /\ Len(received) \in Nat /\ committed <= Len(kinds)
      /\ (Behind => rBlk # wBlk)
  BY Facts
<1>2. Len(received) < committed
  BY <1>1 DEF Seen, CanReadMeansUnread
<1>3. CASE Together
  <2>1. committed \in Len(received) + 1 .. committed
    BY <1>1, <1>2
  <2>2. Laid(kinds, mem[rBlk], rOff, wOff, Len(received), committed)
    BY <1>3 DEF Together
  <2> QED BY <1>3, <2>1, <2>2
<1>4. CASE Behind
  <2>1. wpc # "store_offset"
    <3>1. committed > 0
      BY <1>1, <1>2
    <3> QED BY <3>1 DEF Switching
  <2>2. PICK s \in Len(received) .. committed :
          /\ Laid(kinds, mem[rBlk], rOff, end[rBlk], Len(received), s)
          /\ Laid(kinds, mem[wBlk], 0, wOff, s, committed)
    BY <1>4, <2>1 DEF Behind
  <2>3. rOff # end[rBlk]
    BY <1>1, <1>4 DEF Seen
  <2>4. s # Len(received)
    <3>1. s \in Nat /\ s <= Len(kinds)
      BY <1>1
    <3> QED BY <1>1, <2>2, <2>3, <3>1, LaidEnds
  <2>5. s \in Len(received) + 1 .. committed
    BY <1>1, <2>4
  <2> QED BY <1>4, <2>2, <2>5
<1> QED BY <1>1, <1>3, <1>4

\* What is read at the place of a whole record is that record.
LEMMA WholeIsRead ==
    ASSUME LogInv, NEW n \in DOMAIN kinds, Whole(kinds, mem[rBlk], n, rOff)
    PROVE  /\ Formattable(n)
           /\ \A k \in DOMAIN kinds : Formattable(k) => k = n
<1>1. /\ TypeOK /\ Records /\ kinds \in Seq(Kinds) /\ rOff \in 0 .. BlockSize /\ BlockSize \in Nat
  BY Facts
<1>2. \A k \in DOMAIN kinds : SizeOf[kinds[k]] \in Nat /\ SizeOf[kinds[k]] >= 1
  BY <1>1, KindsFacts
<1>3. Formattable(n)
  <2>1. ASSUME NEW i \in 0 .. SizeOf[kinds[n]] - 1
        PROVE  rOff + i \in Offsets
    BY <1>1, <1>2, <2>1 DEF Whole, Offsets
  <2>2. kinds[n] \in registered
    BY <1>1 DEF Records
  <2> QED BY <2>1, <2>2 DEF Formattable, Holds, Whole
<1>4. ASSUME NEW k \in DOMAIN kinds, Formattable(k) PROVE k = n
  <2>1. 0 \in 0 .. SizeOf[kinds[k]] - 1 /\ 0 \in 0 .. SizeOf[kinds[n]] - 1
    BY <1>2
  <2>2. mem[rBlk][rOff + 0] = [record |-> k, part |-> 0]
    BY <1>4, <2>1 DEF Formattable, Holds
  <2>3. mem[rBlk][rOff + 0] = [record |-> n, part |-> 0]
    BY <2>1 DEF Whole
  <2> QED BY <2>2, <2>3
<1> QED BY <1>3, <1>4

LEMMA ReadInv ==
    ASSUME LogInv, Defined, ~Switching, Read
    PROVE  LogInv'
<1>1. TypeOK'
  BY ReaderTypes DEF Reader
<1>2. /\ TypeOK /\ Records /\ Writer /\ InOrder /\ Seen /\ (Together \/ Behind)
      /\ kinds \in Seq(Kinds) /\ Len(kinds) \in Nat /\ committed \in Nat
      /\ Len(received) \in Nat /\ committed <= Len(kinds)
  BY Facts
<1>3. /\ rpc = "read"
      /\ UNCHANGED <<wOff, wBlk, rBlk, end, mem, kinds, registered, committed, wpc, seenOff>>
  BY DEF Read
<1>4. PICK hi, s :
        /\ s \in Len(received) + 1 .. committed
        /\ Laid(kinds, mem[rBlk], rOff, hi, Len(received), s)
        /\ \/ Together /\ s = committed /\ hi = wOff
           \/ Behind /\ hi = end[rBlk] /\ Laid(kinds, mem[wBlk], 0, wOff, s, committed)
  BY <1>3, NextRecord
<1> DEFINE n == Len(received) + 1
<1>5. n \in DOMAIN kinds /\ Len(received) < s /\ s \in Nat /\ n \in Nat /\ n <= s /\ s <= committed
  BY <1>2, <1>4
<1>6. /\ Whole(kinds, mem[rBlk], n, rOff)
      /\ Laid(kinds, mem[rBlk], rOff + SizeOf[kinds[n]], hi, n, s)
  BY <1>2, <1>4, <1>5, LaidHead
<1>7. received' = Append(received, n) /\ rOff' = rOff + SizeOf[kinds[n]] /\ rpc' = "can_read"
  <2>1. Formattable(n) /\ \A k \in DOMAIN kinds : Formattable(k) => k = n
    BY <1>5, <1>6, WholeIsRead
  <2> QED BY <1>5, <2>1 DEF Read
<1>8. /\ received \in Seq(Nat) /\ received' \in Seq(Nat) /\ Len(received') = n
      /\ \A i \in 1 .. Len(received) : received'[i] = received[i]
      /\ received'[n] = n
  <2>1. received \in Seq(Nat)
    BY <1>2 DEF TypeOK
  <2> QED BY <1>5, <1>7, <2>1, AppendProperties
<1>9. InOrder'
  <2>1. ASSUME NEW i \in 1 .. n PROVE received'[i] = i
    <3>1. CASE i = n
      BY <1>8, <3>1
    <3>2. CASE i # n
      <4>1. i \in 1 .. Len(received)
        BY <1>2, <3>2
      <4>2. received[i] = i
        BY <1>2, <1>8, <4>1 DEF InOrder
      <4> QED BY <1>8, <4>1, <4>2
    <3> QED BY <3>1, <3>2
  <2>2. DOMAIN received' = 1 .. n
    BY <1>8
  <2>3. n <= committed
    BY <1>2, <1>5
  <2> QED BY <1>3, <1>7, <1>8, <2>1, <2>2, <2>3 DEF InOrder
<1>10. Records'
  BY <1>2, <1>3 DEF Records
<1>11. Writer'
  <2>1. Size' = Size
    BY <1>3 DEF Size
  <2> QED BY <1>2, <1>3, <2>1 DEF Writer, Fits
<1>12. (Together \/ Behind)'
  <2>1. CASE Together /\ s = committed /\ hi = wOff
    <3>1. Laid(kinds, mem[wBlk], rOff', wOff, Len(received'), committed)
      BY <1>6, <1>7, <1>8, <2>1 DEF Together
    <3> QED BY <1>3, <2>1, <3>1 DEF Together
  <2>2. CASE Behind /\ hi = end[rBlk] /\ Laid(kinds, mem[wBlk], 0, wOff, s, committed)
    <3>1. wBlk = NextBlock(rBlk) /\ end[rBlk] # 0 /\ (wpc = "store_offset" => committed = 0)
      BY <2>2 DEF Behind, Switching
    <3>2. wpc # "store_offset"
      BY <1>2, <1>5, <3>1
    <3>3. s \in Len(received') .. committed
      BY <1>2, <1>4, <1>5, <1>8
    <3>4. Laid(kinds, mem[rBlk], rOff', end[rBlk], Len(received'), s)
      BY <1>6, <1>7, <1>8, <2>2
    <3> QED BY <1>3, <2>2, <3>1, <3>2, <3>3, <3>4 DEF Behind
  <2> QED BY <1>4, <2>1, <2>2
<1>13. Seen'
  BY <1>7 DEF Seen, CanReadMeansUnread
<1> QED BY <1>1, <1>9, <1>10, <1>11, <1>12, <1>13 DEF LogInv

-----------------------------------------------------------------------------
(* The theorems                                                            *)

LEMMA InitLogInv == Init => LogInv
<1> SUFFICES ASSUME Init PROVE LogInv
  OBVIOUS
<1>1. /\ wOff = 0 /\ wBlk = 0 /\ rOff = 0 /\ rBlk = 0 /\ end = [b \in BlockIds |-> 0]
      /\ kinds = <<>> /\ registered = {} /\ committed = 0 /\ received = <<>>
      /\ wpc = "idle" /\ rpc = "can_read" /\ seenOff = 0 /\ run = TRUE
      /\ mem = [b \in BlockIds |-> [o \in Offsets |-> Nothing]]
  BY DEF Init
<1>2. 0 \in BlockIds /\ 0 \in 0 .. BlockSize /\ Blocks \in Nat /\ BlockSize \in Nat /\ MaxRecords \in Nat
  BY BlocksAssumption, MaxRecordsAssumption DEF BlockIds
<1>3. Nothing \in Pieces
  BY <1>2 DEF Nothing, Pieces
<1>4. kinds \in Seq(Kinds) /\ received \in Seq(Nat) /\ Len(kinds) = 0 /\ Len(received) = 0
      /\ DOMAIN kinds = {} /\ DOMAIN received = {}
  BY <1>1
<1>5. TypeOK
  BY <1>1, <1>2, <1>3, <1>4 DEF TypeOK
<1>6. InOrder /\ Records /\ Writer /\ Seen
  BY <1>1, <1>4 DEF InOrder, Records, Writer, Writing, Seen, CanReadMeansUnread
<1>7. Together
  <2>1. Laid(kinds, mem[wBlk], 0, 0, 0, 0)
    BY <1>2, LaidNil
  <2>2. end[wBlk] = 0
    BY <1>1, <1>2
  <2> QED BY <1>1, <1>4, <2>1, <2>2 DEF Together
<1> QED BY <1>5, <1>6, <1>7 DEF LogInv

LEMMA NextLogInv == LogInv /\ [CalmNext]_vars => LogInv'
<1> SUFFICES ASSUME LogInv, [CalmNext]_vars PROVE LogInv'
  OBVIOUS
<1>1. CASE Register \/ Stop \/ Joined
  BY <1>1, QuietInv
<1>8. CASE UNCHANGED vars
  <2>1. UNCHANGED <<wOff, wBlk, rOff, rBlk, end, mem, kinds, committed, received,
                    registered, wpc, rpc, seenOff, run>>
    BY <1>8 DEF vars, buffer, history
  <2>2. Size' = Size
    BY <2>1 DEF Size
  <2>3. (TypeOK /\ InOrder /\ Seen)' = (TypeOK /\ InOrder /\ Seen)
    BY <2>1 DEF TypeOK, InOrder, Seen, CanReadMeansUnread
  <2>4. (Records /\ Writer)' = (Records /\ Writer)
    BY <2>1, <2>2 DEF Records, Writer, Fits
  <2>5. (Together \/ Behind)' = (Together \/ Behind)
    BY <2>1 DEF Together, Behind
  <2> QED BY <2>3, <2>4, <2>5 DEF LogInv
<1>2. CASE CalmWrite
  BY <1>2, GetWritePointerInv
<1>3. CASE StoreBlock
  BY <1>3, StoreBlockInv
<1>4. CASE StoreOffset
  BY <1>4, StoreOffsetInv
<1>5. CASE CopyRecord
  BY <1>5, CopyRecordInv
<1>6. CASE ForwardWritePointer
  BY <1>6, ForwardInv
<1>7. CASE CalmReader
  <2>1. ~Switching /\ Defined
    BY <1>7 DEF CalmReader, Reader
  <2>2. CASE CanRead \/ GetReadPointer
    BY <2>1, <2>2, WrapsInv
  <2>3. CASE LoadOffset \/ LoadBlock \/ Empty
    BY <2>1, <2>3, LooksInv
  <2>4. CASE Read
    BY <2>1, <2>4, ReadInv
  <2> QED BY <1>7, <2>2, <2>3, <2>4 DEF CalmReader, Reader
<1> QED BY <1>1, <1>2, <1>3, <1>4, <1>5, <1>6, <1>7, <1>8 DEF CalmNext, Write

\* In calm behaviours the unread records always lie one behind another from the
\* reader's place to the writer's, in one block or over two (get_write_pointer,
\* check_wrap_read_pointer).
THEOREM LogInvariant == CalmSpec => []LogInv
<1> QED BY InitLogInv, NextLogInv, PTL DEF CalmSpec

\* The ring's indices stay in their blocks and no record is placed beyond one.
THEOREM LoggerTypes == CalmSpec => []TypeOK
<1>1. LogInv => TypeOK
  BY DEF LogInv
<1> QED BY <1>1, LogInvariant, PTL

\* In calm behaviours the log thread formats what was written, each record
\* whole, once, in order, and none before its write has ended (read_buffer).
THEOREM RecordsInOrder == CalmSpec => []InOrder
<1>1. LogInv => InOrder
  BY DEF LogInv
<1> QED BY <1>1, LogInvariant, PTL

\* In calm behaviours can_read answers TRUE only if a record is there to be
\* read (RingBuffer::can_read).
THEOREM CanReadCorrect == CalmSpec => []CanReadMeansUnread
<1>1. LogInv => CanReadMeansUnread
  BY DEF LogInv, Seen
<1> QED BY <1>1, LogInvariant, PTL

=============================================================================
