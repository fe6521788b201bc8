--------------------------- MODULE OrderEntryProofs ---------------------------
(***************************************************************************)
(* What is proved of IdGenerator and of OrderEntry, which uses it, for all *)
(* messages, numbers and days.  The generator never repeats an id if it is *)
(* restarted on later days only and its counter stays in the day's space,  *)
(* whatever that space is; and the engine uses it the way DailySpec says,  *)
(* crashes included, so that this holds of the engine.  A text is refused  *)
(* for what is wrong with it.  A level's total is the sum of its orders    *)
(* modulo 2^Width, so that it is exact when the sum fits, and then nothing *)
(* leaves the book untraded.  And the two roundings of a conversion lose a *)
(* tick at most.                                                           *)
(***************************************************************************)
EXTENDS OrderEntry, SequenceTheorems, FiniteSetTheorems, WellFoundedInduction, TLAPS

-----------------------------------------------------------------------------
(* The generator                                                           *)

\* A later day's counter starts where, or after, an earlier day's space ends.
LEMMA LaterDay ==
    ASSUME NEW d \in Nat, NEW e \in Nat, d < e
    PROVE  (d + 1) * CounterSpace <= FirstCounter(e)
<1>1. PICK n \in Nat : e = (d + 1) + n
  <2>1. e - (d + 1) \in Nat
    OBVIOUS
  <2> QED BY <2>1
<1>2. \A a, b, c \in Nat : (a + b) * c = a * c + b * c /\ b * c >= 0
  OBVIOUS
<1> QED BY <1>1, <1>2, CounterSpaceAssumption DEF FirstCounter

LEMMA InitIdInv ==
    ASSUME Init
    PROVE  IdInv
<1>1. today \in Nat /\ today \in Dates /\ started = today /\ counter = 0 /\ built = FALSE
  BY DatesAssumption DEF Init
<1>2. 0 <= (today + 1) * CounterSpace
  BY <1>1, CounterSpaceAssumption
<1>3. issued = <<>> /\ <<>> \in Seq(Nat) /\ DOMAIN issued = {}
  BY DEF Init
<1>4. TypeOK
  BY <1>1, <1>3 DEF TypeOK
<1>5. Growing
  BY <1>3 DEF Growing
<1>6. InDay /\ DayOver /\ started <= today
  BY <1>1, <1>2, <1>3 DEF InDay, DayOver
<1> QED BY <1>4, <1>5, <1>6 DEF IdInv

\* The count that a new id follows is not below any id there is.
LEMMA CountIsUpToDate ==
    ASSUME IdInv
    PROVE  /\ Count \in Nat
           /\ \A i \in DOMAIN issued : issued[i] \in Nat /\ issued[i] <= Count
<1>1. /\ started \in Nat /\ today \in Nat /\ counter \in Nat /\ issued \in Seq(Nat)
  BY DatesAssumption DEF IdInv, TypeOK
<1>2. FirstCounter(today) \in Nat
  BY <1>1, CounterSpaceAssumption DEF FirstCounter
<1>3. \A i \in DOMAIN issued : issued[i] \in Nat /\ issued[i] <= counter
  BY <1>1, ElementOfSeq, LenProperties DEF IdInv, Growing
<1>4. CASE built
  BY <1>1, <1>3, <1>4 DEF Count
<1>5. CASE ~built /\ issued = <<>>
  BY <1>2, <1>5 DEF Count
<1>6. CASE ~built /\ started < today
  <2>1. counter <= (started + 1) * CounterSpace
    BY DEF IdInv, InDay
  <2>2. (started + 1) * CounterSpace <= FirstCounter(today)
    BY <1>1, <1>6, LaterDay
  <2>3. (started + 1) * CounterSpace \in Nat
    BY <1>1, CounterSpaceAssumption
  <2>4. counter <= FirstCounter(today)
    BY <2>1, <2>2, <2>3, <1>1, <1>2
  <2> QED BY <2>4, <1>1, <1>2, <1>3, <1>6 DEF Count
<1> QED BY <1>4, <1>5, <1>6 DEF IdInv, DayOver

LEMMA GenerateStep ==
    ASSUME IdInv, DailyGenerate
    PROVE  IdInv'
<1> DEFINE n == Count + 1
<1>1. /\ issued \in Seq(Nat) /\ Count \in Nat /\ n \in Nat /\ Len(issued) \in Nat
      /\ DOMAIN issued = 1 .. Len(issued) /\ started \in Nat /\ today \in Nat
  BY CountIsUpToDate, LenProperties, DatesAssumption DEF IdInv, TypeOK
<1>2. /\ issued' = Append(issued, n) /\ counter' = n /\ built' = TRUE /\ today' = today
      /\ started' = IF built THEN started ELSE today
  BY DEF DailyGenerate, GenerateId
<1>3. \A i \in DOMAIN issued : issued[i] \in Nat /\ issued[i] < n
  BY CountIsUpToDate
<1> HIDE DEF n
<1>4. /\ issued' \in Seq(Nat) /\ DOMAIN issued' = 1 .. Len(issued) + 1
      /\ \A i \in DOMAIN issued : issued'[i] = issued[i]
      /\ issued'[Len(issued) + 1] = n
  <2>1. /\ issued' \in Seq(Nat) /\ Len(issued') = Len(issued) + 1
        /\ \A i \in 1 .. Len(issued) : issued'[i] = issued[i]
        /\ issued'[Len(issued) + 1] = n
    BY <1>1, <1>2, AppendProperties
  <2> QED BY <2>1, <1>1, LenProperties, ElementOfSeq
<1>5. Growing'
  <2>1. ASSUME NEW i \in DOMAIN issued' PROVE issued'[i] <= n /\ (i \in DOMAIN issued => issued'[i] < n)
    <3>1. CASE i \in DOMAIN issued
      BY <3>1, <1>1, <1>3, <1>4
    <3>2. CASE i = Len(issued) + 1
      BY <3>2, <1>1, <1>4
    <3> QED BY <3>1, <3>2, <1>1, <1>4
  <2>2. ASSUME NEW i \in DOMAIN issued', NEW j \in DOMAIN issued', i < j
        PROVE  issued'[i] < issued'[j]
    <3>1. i \in DOMAIN issued
      BY <2>2, <1>1, <1>4
    <3>2. CASE j \in DOMAIN issued
      BY <3>1, <3>2, <2>2, <1>4 DEF IdInv, Growing
    <3>3. CASE j = Len(issued) + 1
      BY <3>1, <3>3, <2>1, <1>4
    <3> QED BY <3>2, <3>3, <1>1, <1>4
  <2> QED BY <2>1, <2>2, <1>2 DEF Growing
<1>6. InDay' /\ DayOver'
  BY <1>2 DEF DailyGenerate, InDay, DayOver
<1>7. started' <= today' /\ started' \in Dates /\ today' \in Dates
  BY <1>1, <1>2 DEF IdInv, TypeOK
<1> QED BY <1>1, <1>2, <1>4, <1>5, <1>6, <1>7 DEF IdInv, TypeOK

LEMMA IdInvStep ==
    ASSUME IdInv, [DailyNext]_vars
    PROVE  IdInv'
<1>1. CASE Midnight
  <2>1. PICK d \in Dates : d > today /\ today' = d
    BY <1>1 DEF Midnight
  <2>2. UNCHANGED <<built, started, counter, issued>>
    BY <1>1 DEF Midnight
  <2>3. started \in Nat /\ today \in Nat /\ d \in Nat
    BY DatesAssumption DEF IdInv, TypeOK
  <2> QED BY <2>1, <2>2, <2>3 DEF IdInv, TypeOK, Growing, InDay, DayOver
<1>2. CASE DailyRestart
  <2>1. built' = FALSE /\ UNCHANGED <<today, started, counter, issued>> /\ (built => started < today)
    BY <1>2 DEF DailyRestart, Restart
  <2> QED BY <2>1 DEF IdInv, TypeOK, Growing, InDay, DayOver
<1>3. CASE UNCHANGED vars
  BY <1>3 DEF vars, IdInv, TypeOK, Growing, InDay, DayOver
<1> QED BY <1>1, <1>2, <1>3, GenerateStep DEF DailyNext

\* Ids grow, up to a counter that stays in its day's space, and that day is
\* over when the next generator is constructed (the constructor, generate_id).
THEOREM DailyInvariant == DailySpec => []IdInv
<1>1. Init => IdInv
  BY InitIdInv
<1>2. IdInv /\ [DailyNext]_vars => IdInv'
  BY IdInvStep
<1> QED BY <1>1, <1>2, PTL DEF DailySpec

\* No id is ever generated twice, across restarts on later days.
THEOREM DailyIdsUnique == DailySpec => []NeverReissued
<1>1. IdInv => NeverReissued
  <2> SUFFICES ASSUME IdInv, NEW i \in DOMAIN issued, NEW j \in DOMAIN issued,
                      issued[i] = issued[j]
               PROVE  i = j
    BY DEF NeverReissued
  <2>1. i \in Nat /\ j \in Nat /\ issued[i] \in Nat /\ issued[j] \in Nat
    BY LenProperties, ElementOfSeq DEF IdInv, TypeOK
  <2>2. (i < j => issued[i] < issued[j]) /\ (j < i => issued[j] < issued[i])
    BY DEF IdInv, Growing
  <2> QED BY <2>1, <2>2
<1> QED BY <1>1, DailyInvariant, PTL

-----------------------------------------------------------------------------
(* The engine                                                              *)

\* Handling a text generates one id at most.
LEMMA HandleEventStep ==
    ASSUME HandleEvent PROVE DailyGenerate \/ UNCHANGED vars
<1>1. PICK m \in Messages : HandleOrder(m) \/ Crash(m)  BY DEF HandleEvent
<1>2. CASE HandleOrder(m)
  <2>1. AddOrder(m) \/ NotFound  BY <1>2 DEF HandleOrder
  <2>2. CASE AddOrder(m)  BY <2>2 DEF AddOrder
  <2>3. CASE NotFound  BY <2>3 DEF NotFound
  <2> QED  BY <2>1, <2>2, <2>3
<1>3. CASE Crash(m)  BY <1>3 DEF Crash
<1> QED  BY <1>1, <1>2, <1>3

\* Every step of the engine is one of the generator, or leaves it alone.
LEMMA EntryStep ==
    ASSUME [EntryNext]_entryVars PROVE [DailyNext]_vars
<1>1. CASE HandleEvent  BY <1>1, HandleEventStep DEF DailyNext
<1>2. CASE StartAgain  BY <1>2 DEF StartAgain, DailyNext
<1>3. CASE DayPasses  BY <1>3 DEF DayPasses, DailyNext
<1>4. CASE UNCHANGED entryVars  BY <1>4 DEF entryVars
<1> QED  BY <1>1, <1>2, <1>3, <1>4 DEF EntryNext

\* The engine implements the generator's daily specification: an order takes
\* one id whatever becomes of it, and a process that an exception ended is
\* started again on a later day (OrderBook::add_order, Order::set_order_id).
THEOREM EntryImplementsDaily == EntrySpec => DailySpec
<1>1. EntryInit => Init  BY DEF EntryInit
<1>2. [EntryNext]_entryVars => [DailyNext]_vars  BY EntryStep
<1> QED  BY <1>1, <1>2, PTL DEF EntrySpec, DailySpec

\* The generator of a running engine counts in the space of one day, upwards,
\* and that day is over before the next process has a generator.
THEOREM EntryIdInvariant == EntrySpec => []IdInv
<1> QED  BY EntryImplementsDaily, DailyInvariant, PTL

\* No two orders of the engine ever have the same id (NeverReissued), whatever
\* texts come, whichever of them end the process, and however long a process
\* runs, as long as it keeps within COUNTER_SPACE.
THEOREM EntryIdsUnique == EntrySpec => []NeverReissued
<1> QED  BY EntryImplementsDaily, DailyIdsUnique, PTL

-----------------------------------------------------------------------------
(* The protocol: what parse_order says of a text with faults               *)

LEMMA Least ==
    ASSUME NEW B \in SUBSET Nat, B # {}
    PROVE  Min(B) \in B /\ \A m \in B : Min(B) <= m
<1>1. PICK n \in B : \A m \in B : ~(<<m, n>> \in OpToRel(<, Nat))
  BY NatLessThanWellFounded, WFMin
<1>2. \A m \in B : ~(m < n)
  BY <1>1 DEF OpToRel
<1>3. \E x \in B : \A y \in B : x =< y
  BY <1>2
<1> QED BY <1>3, Zenon DEF Min

NoObject == Fault("text", "not an object")
IsNeed(f) == f.what \in {"missing", "not an object"}

\* A check that fails is no order, and an error names the field it is about:
\* the symbol, if the text is no object.
Rows ==
    {c \in [fault : Faults, outcome : Outcomes] :
        /\ c.outcome.kind # "order"
        /\ c.outcome.kind = "error" =>
            Named(c.outcome.code) = IF c.fault = NoObject THEN "symbol" ELSE c.fault.field}
NeedRows == {c \in Rows : c.outcome.kind = "error"}
GetRows == {c \in Rows : ~IsNeed(c.fault)}

LEMMA FieldFacts ==
    /\ DOMAIN Fields = 1 .. 9
    /\ \A i \in 1 .. 9 : Fields[i] # "text"
    /\ Fields[1] = "symbol" /\ Fields[2] = "price" /\ Fields[3] = "qty"
    /\ Fields[4] = "order_side" /\ Fields[5] = "order_type" /\ Fields[6] = "order_status"
    /\ Fields[7] = "acc_id" /\ Fields[8] = "client_order_id" /\ Fields[9] = "order_id"
BY DEF Fields

\* A check of one of the fields that are got.
LEMMA ThrowsRow ==
    ASSUME NEW k \in 1 .. 9
    PROVE  Throws(Fields[k]) \in GetRows
<1>1. Fault(Fields[k], "mistyped") \in Faults
  <2>1. k \in DOMAIN Fields /\ "mistyped" \in {"missing", "mistyped"}
    BY FieldFacts
  <2>2. Fault(Fields[k], "mistyped") \in FieldFaults
    BY <2>1 DEF FieldFaults
  <2> QED BY <2>2 DEF Faults
<1>2. Outcome("exception", 0) \in Outcomes
  BY DEF Outcome, Outcomes
<1>3. Fault(Fields[k], "mistyped") # NoObject /\ ~IsNeed(Fault(Fields[k], "mistyped"))
  BY DEF NoObject, IsNeed, Fault
<1> QED BY <1>1, <1>2, <1>3 DEF Throws, Check, Outcome, GetRows, Rows

LEMMA EnumRow ==
    ASSUME NEW k \in 4 .. 6
    PROVE  Check(Fields[k], "unknown", "error", 116 + k) \in GetRows
<1>1. Fault(Fields[k], "unknown") \in Faults
  <2>1. Fault(Fields[k], "unknown") \in NameFaults
    BY DEF NameFaults
  <2> QED BY <2>1 DEF Faults
<1>2. Outcome("error", 116 + k) \in Outcomes
  BY DEF Outcome, Outcomes
<1>3. Named(116 + k) = Fields[k]
  BY DEF Named
<1>4. Fault(Fields[k], "unknown") # NoObject /\ ~IsNeed(Fault(Fields[k], "unknown"))
  BY DEF NoObject, IsNeed, Fault
<1>5. Fault(Fields[k], "unknown").field = Fields[k]
  BY DEF Fault
<1> QED BY <1>1, <1>2, <1>3, <1>4, <1>5 DEF Check, Outcome, GetRows, Rows

LEMMA EmptyRow == Check("symbol", "empty", "error", 51) \in GetRows
<1>1. Fault("symbol", "empty") \in Faults
  BY DEF Faults, NameFaults
<1>2. Outcome("error", 51) \in Outcomes
  BY DEF Outcome, Outcomes
<1>3. Named(51) = "symbol"
  BY FieldFacts DEF Named
<1> QED BY <1>1, <1>2, <1>3 DEF Check, Outcome, GetRows, Rows, IsNeed, NoObject, Fault

LEMMA NeedRow ==
    ASSUME NEW k \in 1 .. 9
    PROVE  Check(Fields[k], "missing", "error", 50 + k) \in NeedRows
<1>1. Fault(Fields[k], "missing") \in Faults
  <2>1. k \in DOMAIN Fields /\ "missing" \in {"missing", "mistyped"}
    BY FieldFacts
  <2>2. Fault(Fields[k], "missing") \in FieldFaults
    BY <2>1 DEF FieldFaults
  <2> QED BY <2>2 DEF Faults
<1>2. Outcome("error", 50 + k) \in Outcomes
  BY DEF Outcome, Outcomes
<1>3. Named(50 + k) = Fields[k]
  BY DEF Named
<1>4. Fault(Fields[k], "missing") # NoObject /\ Fault(Fields[k], "missing").field = Fields[k]
  BY DEF NoObject, Fault
<1> QED BY <1>1, <1>2, <1>3, <1>4 DEF Check, Outcome, NeedRows, Rows

LEMMA NoObjectRow == Check("text", "not an object", "error", 51) \in NeedRows
<1>1. Fault("text", "not an object") \in Faults
  BY DEF Faults, TextFaults
<1>2. Outcome("error", 51) \in Outcomes
  BY DEF Outcome, Outcomes
<1>3. Named(51) = "symbol"
  BY FieldFacts DEF Named
<1> QED BY <1>1, <1>2, <1>3 DEF Check, Outcome, NeedRows, Rows, NoObject, Fault

LEMMA BrokenRow == Check("text", "broken", "exception", 0) \in Rows
<1>1. Fault("text", "broken") \in Faults
  BY DEF Faults, TextFaults
<1>2. Outcome("exception", 0) \in Outcomes
  BY DEF Outcome, Outcomes
<1> QED BY <1>1, <1>2 DEF Check, Outcome, Rows, Fault

\* Some check of s is for the fault f; a concatenation has the checks of both.
Covers(s, f) == \E i \in DOMAIN s : s[i].fault = f

LEMMA CoversBoth ==
    ASSUME NEW R, NEW s \in Seq(R), NEW t \in Seq(R), NEW f, Covers(s, f) \/ Covers(t, f)
    PROVE  Covers(s \o t, f)
<1>1. /\ s \o t \in Seq(R) /\ Len(s \o t) = Len(s) + Len(t)
      /\ \A i \in 1 .. Len(s) + Len(t) :
            (s \o t)[i] = IF i <= Len(s) THEN s[i] ELSE t[i - Len(s)]
  BY ConcatProperties
<1>2. /\ Len(s) \in Nat /\ DOMAIN s = 1 .. Len(s) /\ Len(t) \in Nat /\ DOMAIN t = 1 .. Len(t)
      /\ DOMAIN (s \o t) = 1 .. Len(s \o t)
  BY <1>1, LenProperties
<1>3. ASSUME NEW i \in DOMAIN s, s[i].fault = f PROVE Covers(s \o t, f)
  <2>1. i \in 1 .. Len(s) + Len(t) /\ (s \o t)[i] = s[i]
    BY <1>1, <1>2
  <2> QED BY <1>1, <1>2, <1>3, <2>1 DEF Covers
<1>4. ASSUME NEW i \in DOMAIN t, t[i].fault = f PROVE Covers(s \o t, f)
  <2>1. Len(s) + i \in 1 .. Len(s) + Len(t) /\ ~(Len(s) + i <= Len(s)) /\ (Len(s) + i) - Len(s) = i
    BY <1>2
  <2>2. (s \o t)[Len(s) + i] = t[i]
    BY <1>1, <2>1
  <2> QED BY <1>1, <1>2, <1>4, <2>1, <2>2 DEF Covers
<1> QED BY <1>3, <1>4 DEF Covers

LEMMA GetsFacts ==
    /\ Gets \in Seq(GetRows)
    /\ \A f : Covers(Symbol, f) \/ Covers(Numbers, f) \/ Covers(Enums, f) \/ Covers(Ids, f)
                => Covers(Gets, f)
<1>1. /\ Throws("symbol") \in GetRows /\ Throws("price") \in GetRows /\ Throws("qty") \in GetRows
      /\ Throws("order_side") \in GetRows /\ Throws("order_type") \in GetRows
      /\ Throws("order_status") \in GetRows /\ Throws("acc_id") \in GetRows
      /\ Throws("client_order_id") \in GetRows /\ Throws("order_id") \in GetRows
  <2>1. \A k \in 1 .. 9 : Throws(Fields[k]) \in GetRows  BY ThrowsRow
  <2> QED  BY <2>1, FieldFacts
<1>2. /\ Check("order_side", "unknown", "error", 120) \in GetRows
      /\ Check("order_type", "unknown", "error", 121) \in GetRows
      /\ Check("order_status", "unknown", "error", 122) \in GetRows
  <2>1. \A k \in 4 .. 6 : Check(Fields[k], "unknown", "error", 116 + k) \in GetRows  BY EnumRow
  <2>2. 116 + 4 = 120 /\ 116 + 5 = 121 /\ 116 + 6 = 122 /\ 4 \in 4 .. 6 /\ 5 \in 4 .. 6 /\ 6 \in 4 .. 6
    OBVIOUS
  <2> QED  BY <2>1, <2>2, FieldFacts
<1>3. Symbol \in Seq(GetRows)  BY <1>1, EmptyRow DEF Symbol
<1>4. Numbers \in Seq(GetRows)  BY <1>1 DEF Numbers
<1>5. Ids \in Seq(GetRows)  BY <1>1 DEF Ids
<1>6. /\ Enum("order_side", 120) \in Seq(GetRows) /\ Enum("order_type", 121) \in Seq(GetRows)
      /\ Enum("order_status", 122) \in Seq(GetRows)
  BY <1>1, <1>2 DEF Enum
<1>7. Enum("order_side", 120) \o Enum("order_type", 121) \in Seq(GetRows)  BY <1>6, ConcatProperties
<1>8. Enums \in Seq(GetRows)  BY <1>6, <1>7, ConcatProperties DEF Enums
<1>9. Symbol \o Numbers \in Seq(GetRows)  BY <1>3, <1>4, ConcatProperties
<1>10. (Symbol \o Numbers) \o Enums \in Seq(GetRows)  BY <1>8, <1>9, ConcatProperties
<1>11. Gets \in Seq(GetRows)  BY <1>5, <1>10, ConcatProperties DEF Gets
<1>12. ASSUME NEW f, Covers(Symbol, f) \/ Covers(Numbers, f) \/ Covers(Enums, f) \/ Covers(Ids, f)
       PROVE  Covers(Gets, f)
  <2>1. Covers(Symbol, f) \/ Covers(Numbers, f) => Covers(Symbol \o Numbers, f)
    BY <1>3, <1>4, CoversBoth
  <2>2. Covers(Symbol \o Numbers, f) \/ Covers(Enums, f) => Covers((Symbol \o Numbers) \o Enums, f)
    BY <1>8, <1>9, CoversBoth
  <2>3. Covers((Symbol \o Numbers) \o Enums, f) \/ Covers(Ids, f)
            => Covers(((Symbol \o Numbers) \o Enums) \o Ids, f)
    BY <1>5, <1>10, CoversBoth
  <2> QED  BY <1>12, <2>1, <2>2, <2>3 DEF Gets
<1> QED  BY <1>11, <1>12

LEMMA EnumsFacts ==
    ASSUME NEW f,
           \/ Covers(Enum("order_side", 120), f)
           \/ Covers(Enum("order_type", 121), f)
           \/ Covers(Enum("order_status", 122), f)
    PROVE  Covers(Enums, f)
<1> DEFINE EnumRows ==
              {Throws("order_side"), Check("order_side", "unknown", "error", 120),
               Throws("order_type"), Check("order_type", "unknown", "error", 121),
               Throws("order_status"), Check("order_status", "unknown", "error", 122)}
<1>1. /\ Enum("order_side", 120) \in Seq(EnumRows) /\ Enum("order_type", 121) \in Seq(EnumRows)
      /\ Enum("order_status", 122) \in Seq(EnumRows)
  BY DEF Enum
<1> HIDE DEF EnumRows
<1>2. Enum("order_side", 120) \o Enum("order_type", 121) \in Seq(EnumRows)  BY <1>1, ConcatProperties
<1>3. Covers(Enum("order_side", 120), f) \/ Covers(Enum("order_type", 121), f)
        => Covers(Enum("order_side", 120) \o Enum("order_type", 121), f)
  BY <1>1, CoversBoth
<1> DEFINE Two == Enum("order_side", 120) \o Enum("order_type", 121)
           Third == Enum("order_status", 122)
<1>4. Two \in Seq(EnumRows) /\ Third \in Seq(EnumRows)  BY <1>1, <1>2
<1>5. Covers(Two, f) \/ Covers(Third, f)  BY <1>3
<1>6. Enums = Two \o Third  BY DEF Enums
<1> HIDE DEF Two, Third
<1> QED  BY <1>4, <1>5, <1>6, CoversBoth

\* What get refuses, an empty symbol and an unknown name are all checked for.
LEMMA GetsCover ==
    /\ \A k \in 1 .. 9 : Covers(Gets, Fault(Fields[k], "mistyped"))
    /\ Covers(Gets, Fault("symbol", "empty"))
    /\ \A k \in 4 .. 6 : Covers(Gets, Fault(Fields[k], "unknown"))
<1>1. Covers(Symbol, Fault("symbol", "mistyped")) /\ Covers(Symbol, Fault("symbol", "empty"))
  <2>1. DOMAIN Symbol = 1 .. 2 /\ Symbol[1].fault = Fault("symbol", "mistyped")
                               /\ Symbol[2].fault = Fault("symbol", "empty")
    BY DEF Symbol, Throws, Check
  <2> QED  BY <2>1 DEF Covers
<1>2. Covers(Numbers, Fault("price", "mistyped")) /\ Covers(Numbers, Fault("qty", "mistyped"))
  <2>1. DOMAIN Numbers = 1 .. 2 /\ Numbers[1].fault = Fault("price", "mistyped")
                                /\ Numbers[2].fault = Fault("qty", "mistyped")
    BY DEF Numbers, Throws, Check
  <2> QED  BY <2>1 DEF Covers
<1>3. \A f, c : Covers(Enum(f, c), Fault(f, "mistyped")) /\ Covers(Enum(f, c), Fault(f, "unknown"))
  <2> SUFFICES ASSUME NEW f, NEW c
               PROVE  Covers(Enum(f, c), Fault(f, "mistyped")) /\ Covers(Enum(f, c), Fault(f, "unknown"))
    OBVIOUS
  <2>1. DOMAIN Enum(f, c) = 1 .. 2 /\ Enum(f, c)[1].fault = Fault(f, "mistyped")
                                   /\ Enum(f, c)[2].fault = Fault(f, "unknown")
    BY DEF Enum, Throws, Check
  <2> QED  BY <2>1 DEF Covers
<1>4. /\ Covers(Ids, Fault("acc_id", "mistyped")) /\ Covers(Ids, Fault("client_order_id", "mistyped"))
      /\ Covers(Ids, Fault("order_id", "mistyped"))
  <2>1. DOMAIN Ids = 1 .. 3 /\ Ids[1].fault = Fault("acc_id", "mistyped")
                            /\ Ids[2].fault = Fault("client_order_id", "mistyped")
                            /\ Ids[3].fault = Fault("order_id", "mistyped")
    BY DEF Ids, Throws, Check
  <2> QED  BY <2>1 DEF Covers
<1>5. \A w \in {"mistyped", "unknown"} :
        /\ Covers(Enums, Fault("order_side", w)) /\ Covers(Enums, Fault("order_type", w))
        /\ Covers(Enums, Fault("order_status", w))
  BY <1>3, EnumsFacts
<1>6. \A k \in 1 .. 9 : k = 1 \/ k = 2 \/ k = 3 \/ k = 4 \/ k = 5 \/ k = 6 \/ k = 7 \/ k = 8 \/ k = 9
  OBVIOUS
<1>7. \A k \in 1 .. 9 : Covers(Gets, Fault(Fields[k], "mistyped"))
  BY <1>1, <1>2, <1>4, <1>5, <1>6, GetsFacts, FieldFacts
<1>8. \A k \in 4 .. 6 : k = 4 \/ k = 5 \/ k = 6
  OBVIOUS
<1>9. \A k \in 4 .. 6 : Covers(Gets, Fault(Fields[k], "unknown"))
  BY <1>5, <1>8, GetsFacts, FieldFacts
<1> QED  BY <1>1, <1>7, <1>9, GetsFacts

LEMMA RequiredFacts ==
    /\ Required \in Seq(NeedRows) /\ Len(Required) = 10
    /\ Required[1].fault = NoObject
    /\ \A k \in 1 .. 9 : Required[k + 1].fault = Fault(Fields[k], "missing")
<1> DEFINE Head1 == <<Check("text", "not an object", "error", 51)>>
           Missing == [i \in DOMAIN Fields |-> Check(Fields[i], "missing", "error", 50 + i)]
<1>1. Head1 \in Seq(NeedRows) /\ Len(Head1) = 1 /\ Head1[1].fault = NoObject
  <2>1. Head1 \in Seq(NeedRows)
    <3>1. \A c \in NeedRows : <<c>> \in Seq(NeedRows)  OBVIOUS
    <3> QED  BY <3>1, NoObjectRow
  <2>2. Len(Head1) = 1  OBVIOUS
  <2>3. Head1[1] = Check("text", "not an object", "error", 51)  OBVIOUS
  <2>4. Head1[1].fault = NoObject  BY <2>3 DEF Check, NoObject
  <2> QED  BY <2>1, <2>2, <2>4
<1>2. Missing \in Seq(NeedRows) /\ Len(Missing) = 9
  <2>1. Missing \in [1 .. 9 -> NeedRows]
    BY NeedRow, FieldFacts
  <2>2. Missing \in Seq(NeedRows)
    BY <2>1, SeqDef
  <2>3. DOMAIN Missing = 1 .. 9
    BY <2>1
  <2> QED  BY <2>2, <2>3, LenProperties
<1>3. \A k \in 1 .. 9 : Missing[k].fault = Fault(Fields[k], "missing")
  BY FieldFacts DEF Check
<1>4. Required = Head1 \o Missing
  BY DEF Required
<1> HIDE DEF Head1, Missing
<1>5. /\ Required \in Seq(NeedRows) /\ Len(Required) = 1 + 9
      /\ \A i \in 1 .. 1 + 9 : Required[i] = IF i <= 1 THEN Head1[i] ELSE Missing[i - 1]
  <2>1. /\ Head1 \o Missing \in Seq(NeedRows) /\ Len(Head1 \o Missing) = Len(Head1) + Len(Missing)
        /\ \A i \in 1 .. Len(Head1) + Len(Missing) :
              (Head1 \o Missing)[i] = IF i <= Len(Head1) THEN Head1[i] ELSE Missing[i - Len(Head1)]
    BY <1>1, <1>2, ConcatProperties
  <2> QED  BY <1>1, <1>2, <1>4, <2>1
<1>6. Required[1] = Head1[1]
  BY <1>5
<1>7. \A k \in 1 .. 9 : Required[k + 1] = Missing[k]
  <2> SUFFICES ASSUME NEW k \in 1 .. 9 PROVE Required[k + 1] = Missing[k]
    OBVIOUS
  <2>1. k + 1 \in 1 .. 1 + 9 /\ ~(k + 1 <= 1) /\ (k + 1) - 1 = k
    OBVIOUS
  <2> QED  BY <1>5, <2>1
<1> QED  BY <1>1, <1>3, <1>5, <1>6, <1>7

\* The order of the checks: the text, then the fields it lacks, then the rest.
LEMMA ChecksFacts ==
    /\ Len(Checks) \in Nat /\ Len(Checks) >= 11 /\ DOMAIN Checks = 1 .. Len(Checks)
    /\ \A i \in 1 .. Len(Checks) : Checks[i] \in Rows
    /\ Checks[1].fault = Fault("text", "broken")
    /\ \A i \in 2 .. 11 : Checks[i] \in NeedRows
    /\ Checks[2].fault = NoObject
    /\ \A k \in 1 .. 9 : Checks[k + 2].fault = Fault(Fields[k], "missing")
    /\ \A f : Covers(Gets, f) => Covers(Checks, f)
<1> DEFINE Front11 == Parse \o Required
<1>1. Parse \in Seq(Rows) /\ Len(Parse) = 1 /\ Parse[1].fault = Fault("text", "broken")
  <2>1. \A c \in Rows : <<c>> \in Seq(Rows)  OBVIOUS
  <2>2. Parse \in Seq(Rows)  BY <2>1, BrokenRow DEF Parse
  <2>3. Len(Parse) = 1 /\ Parse[1].fault = Fault("text", "broken")  BY DEF Parse, Check
  <2> QED  BY <2>2, <2>3
<1>2. Required \in Seq(Rows) /\ Gets \in Seq(Rows) /\ \A i \in 1 .. 10 : Required[i] \in NeedRows
  <2>1. NeedRows \subseteq Rows /\ GetRows \subseteq Rows  BY DEF NeedRows, GetRows
  <2> QED  BY <2>1, RequiredFacts, GetsFacts, ElementOfSeq, SeqMonotonic
<1>3. /\ Front11 \in Seq(Rows) /\ Len(Front11) = 11
      /\ \A i \in 1 .. 11 : Front11[i] = IF i <= 1 THEN Parse[i] ELSE Required[i - 1]
  <2>1. /\ Front11 \in Seq(Rows) /\ Len(Front11) = Len(Parse) + Len(Required)
        /\ \A i \in 1 .. Len(Parse) + Len(Required) :
              Front11[i] = IF i <= Len(Parse) THEN Parse[i] ELSE Required[i - Len(Parse)]
    BY <1>1, <1>2, ConcatProperties
  <2> QED  BY <1>1, <2>1, RequiredFacts
<1>4. Checks = Front11 \o Gets  BY DEF Checks
<1> HIDE DEF Front11
<1>5. /\ Checks \in Seq(Rows) /\ Len(Checks) = 11 + Len(Gets)
      /\ \A i \in 1 .. 11 + Len(Gets) : Checks[i] = IF i <= 11 THEN Front11[i] ELSE Gets[i - 11]
  <2>1. /\ Front11 \o Gets \in Seq(Rows) /\ Len(Front11 \o Gets) = Len(Front11) + Len(Gets)
        /\ \A i \in 1 .. Len(Front11) + Len(Gets) :
              (Front11 \o Gets)[i] = IF i <= Len(Front11) THEN Front11[i] ELSE Gets[i - Len(Front11)]
    BY <1>2, <1>3, ConcatProperties
  <2> QED  BY <1>3, <1>4, <2>1
<1>6. Len(Gets) \in Nat  BY <1>2, LenProperties
<1>7. Len(Checks) \in Nat /\ Len(Checks) >= 11 /\ DOMAIN Checks = 1 .. Len(Checks)
  BY <1>5, <1>6, LenProperties
<1>8. \A i \in 1 .. Len(Checks) : Checks[i] \in Rows  BY <1>5, ElementOfSeq
<1>9. Checks[1] = Parse[1]  BY <1>3, <1>5, <1>6
<1>10. \A i \in 1 .. 10 : Checks[i + 1] = Required[i]
  <2> SUFFICES ASSUME NEW i \in 1 .. 10 PROVE Checks[i + 1] = Required[i]
    OBVIOUS
  <2>1. i + 1 \in 1 .. 11 /\ ~(i + 1 <= 1) /\ (i + 1) - 1 = i /\ i + 1 <= 11
    OBVIOUS
  <2>2. i + 1 \in 1 .. 11 + Len(Gets)  BY <1>6, <2>1
  <2> QED  BY <1>3, <1>5, <2>1, <2>2
<1>11. \A i \in 2 .. 11 : Checks[i] \in NeedRows
  <2> SUFFICES ASSUME NEW i \in 2 .. 11 PROVE Checks[i] \in NeedRows
    OBVIOUS
  <2>1. i - 1 \in 1 .. 10 /\ (i - 1) + 1 = i  OBVIOUS
  <2>2. Checks[(i - 1) + 1] = Required[i - 1]  BY <1>10, <2>1
  <2> QED  BY <1>2, <2>1, <2>2
<1>12. Checks[2].fault = NoObject
  <2>1. 1 \in 1 .. 10 /\ 1 + 1 = 2  OBVIOUS
  <2>2. Checks[1 + 1] = Required[1]  BY <1>10, <2>1
  <2> QED  BY <2>1, <2>2, RequiredFacts
<1>13. \A k \in 1 .. 9 : Checks[k + 2].fault = Fault(Fields[k], "missing")
  <2> SUFFICES ASSUME NEW k \in 1 .. 9 PROVE Checks[k + 2].fault = Fault(Fields[k], "missing")
    OBVIOUS
  <2>1. k + 1 \in 1 .. 10 /\ (k + 1) + 1 = k + 2  OBVIOUS
  <2>2. Checks[(k + 1) + 1] = Required[k + 1]  BY <1>10, <2>1
  <2> QED  BY <2>1, <2>2, RequiredFacts
<1>14. \A f : Covers(Gets, f) => Covers(Checks, f)  BY <1>2, <1>3, <1>4, CoversBoth
<1> QED  BY <1>1, <1>7, <1>8, <1>9, <1>11, <1>12, <1>13, <1>14

\* Every fault of a text is checked for, and what it lacks before the rest.
LEMMA FaultsAreChecked ==
    ASSUME NEW f \in Faults
    PROVE  /\ \E i \in 1 .. Len(Checks) : Checks[i].fault = f
           /\ IsNeed(f) => \E i \in 2 .. 11 : Checks[i].fault = f
<1>1. CASE f \in TextFaults
  <2>1. f = Fault("text", "broken") \/ f = NoObject  BY <1>1 DEF TextFaults, NoObject
  <2>2. CASE f = Fault("text", "broken")
    <3>1. ~IsNeed(f)  BY <2>2 DEF Fault, IsNeed
    <3>2. 1 \in 1 .. Len(Checks)  BY ChecksFacts
    <3> QED  BY <2>2, <3>1, <3>2, ChecksFacts
  <2>3. CASE f = NoObject
    <3>1. 2 \in 1 .. Len(Checks) /\ 2 \in 2 .. 11  BY ChecksFacts
    <3> QED  BY <2>3, <3>1, ChecksFacts
  <2> QED  BY <2>1, <2>2, <2>3
<1>2. CASE f \in FieldFaults
  <2>1. PICK k \in 1 .. 9, w \in {"missing", "mistyped"} : f = Fault(Fields[k], w)
    BY <1>2, FieldFacts DEF FieldFaults
  <2>2. CASE w = "missing"
    <3>1. k + 2 \in 2 .. 11 /\ k + 2 \in 1 .. Len(Checks)  BY ChecksFacts
    <3>2. Checks[k + 2].fault = f  BY <2>1, <2>2, ChecksFacts
    <3> QED  BY <3>1, <3>2
  <2>3. CASE w = "mistyped"
    <3>1. ~IsNeed(f)  BY <2>1, <2>3 DEF Fault, IsNeed
    <3>2. Covers(Checks, f)  BY <2>1, <2>3, GetsCover, ChecksFacts
    <3> QED  BY <3>1, <3>2, ChecksFacts DEF Covers
  <2> QED  BY <2>2, <2>3
<1>3. CASE f \in NameFaults
  <2>1. f = Fault("symbol", "empty") \/ \E k \in 4 .. 6 : f = Fault(Fields[k], "unknown")
    BY <1>3 DEF NameFaults
  <2>2. ~IsNeed(f)
    <3>1. f.what = "empty" \/ f.what = "unknown"  BY <2>1 DEF Fault
    <3> QED  BY <3>1 DEF IsNeed
  <2>3. Covers(Checks, f)  BY <2>1, GetsCover, ChecksFacts
  <2> QED  BY <2>2, <2>3, ChecksFacts DEF Covers
<1> QED  BY <1>1, <1>2, <1>3 DEF Faults

NamedBy(faults) ==
    {f.field : f \in faults}
    \cup (IF Fault("text", "not an object") \in faults THEN {"symbol"} ELSE {})

\* What parse_order says of a text.
LEMMA ParseOrderFacts ==
    ASSUME NEW faults \in SUBSET Faults,
           Fault("text", "broken") \in faults => faults = {Fault("text", "broken")}
    PROVE  LET o == ParseOrder(faults) IN
           /\ o \in Outcomes
           /\ o.kind = "order" <=> faults = {}
           /\ (\E f \in faults : IsNeed(f)) => o.kind = "error"
           /\ o.kind = "error" => Named(o.code) \in NamedBy(faults)
<1> DEFINE failed == {i \in DOMAIN Checks : Checks[i].fault \in faults}
           o == ParseOrder(faults)
<1>1. o = IF failed = {} THEN Outcome("order", 0) ELSE Checks[Min(failed)].outcome
  BY DEF ParseOrder
<1>2. failed \subseteq 1 .. Len(Checks) /\ \A i \in failed : Checks[i].fault \in faults
  BY ChecksFacts
<1>3. \A f \in faults : /\ \E i \in failed : Checks[i].fault = f
                        /\ IsNeed(f) => \E i \in failed : i \in 2 .. 11
  <2> SUFFICES ASSUME NEW f \in faults
               PROVE  /\ \E i \in failed : Checks[i].fault = f
                      /\ IsNeed(f) => \E i \in failed : i \in 2 .. 11
    OBVIOUS
  <2>1. f \in Faults  OBVIOUS
  <2>2. \A i \in 2 .. 11 : i \in 1 .. Len(Checks)  BY ChecksFacts
  <2> QED  BY <2>1, <2>2, FaultsAreChecked, ChecksFacts
<1> HIDE DEF failed, o
<1>4. CASE faults = {}
  <2>1. failed = {}  BY <1>2, <1>4
  <2>2. o = Outcome("order", 0)  BY <1>1, <2>1
  <2> QED  BY <1>4, <2>2 DEF Outcome, Outcomes, o
<1>5. CASE faults # {}
  <2> DEFINE i == Min(failed)
  <2>1. failed # {} /\ failed \subseteq Nat
    <3>1. PICK f \in faults : TRUE  BY <1>5
    <3>2. failed # {}  BY <1>3, <3>1
    <3>3. 1 .. Len(Checks) \subseteq Nat  BY ChecksFacts
    <3> QED  BY <1>2, <3>2, <3>3
  <2>2. i \in failed /\ \A j \in failed : i <= j  BY <2>1, Least
  <2>3. o = Checks[i].outcome  BY <1>1, <2>1
  <2> HIDE DEF i
  <2>4. i \in 1 .. Len(Checks) /\ Checks[i].fault \in faults /\ Checks[i] \in Rows
    BY <1>2, <2>2, ChecksFacts
  <2>5. o \in Outcomes /\ o.kind # "order"  BY <2>3, <2>4 DEF Rows
  <2>6. ASSUME o.kind = "error" PROVE Named(o.code) \in NamedBy(faults)
    <3>1. Named(o.code) = IF Checks[i].fault = NoObject THEN "symbol" ELSE Checks[i].fault.field
      BY <2>3, <2>4, <2>6 DEF Rows
    <3> QED  BY <2>4, <3>1 DEF NamedBy, NoObject
  <2>7. ASSUME NEW f \in faults, IsNeed(f) PROVE o.kind = "error"
    <3>1. PICK j \in failed : j \in 2 .. 11  BY <1>3, <2>7
    <3>2. i <= j /\ i \in Nat  BY <2>1, <2>2
    <3>3. i # 1
      <4> SUFFICES ASSUME i = 1 PROVE FALSE
        OBVIOUS
      <4>1. Fault("text", "broken") \in faults  BY <2>4, ChecksFacts
      <4>2. f = Fault("text", "broken")  BY <2>7, <4>1
      <4> QED  BY <2>7, <4>2 DEF IsNeed, Fault
    <3>4. i \in 2 .. 11  BY <2>4, <3>1, <3>2, <3>3, ChecksFacts
    <3> QED  BY <2>3, <3>4, ChecksFacts DEF NeedRows
  <2> QED  BY <1>5, <2>5, <2>6, <2>7 DEF o
<1> QED  BY <1>4, <1>5

\* The last text's outcome is what parse_order says of its faults.
LastInv ==
    /\ last = [faults |-> last.faults, outcome |-> last.outcome]
    /\ last.faults \in SUBSET Faults
    /\ Fault("text", "broken") \in last.faults => last.faults = {Fault("text", "broken")}
    /\ last.outcome = ParseOrder(last.faults)

LEMMA LastInvariant == EntrySpec => []LastInv
<1>1. EntryInit => LastInv
  <2> SUFFICES ASSUME EntryInit PROVE LastInv
    OBVIOUS
  <2>1. last = [faults |-> {}, outcome |-> Outcome("order", 0)]  BY DEF EntryInit
  <2>2. ParseOrder({}) = Outcome("order", 0)  BY DEF ParseOrder
  <2> QED  BY <2>1, <2>2 DEF LastInv
<1>2. LastInv /\ [EntryNext]_entryVars => LastInv'
  <2> SUFFICES ASSUME LastInv, [EntryNext]_entryVars PROVE LastInv'
    OBVIOUS
  <2>1. CASE HandleEvent
    <3>1. PICK m \in Messages : last' = [faults |-> m.faults, outcome |-> ParseOrder(m.faults)]
      BY <2>1 DEF HandleEvent
    <3>2. m.faults \in SUBSET Faults  BY MessagesAssumption
    <3> QED  BY <3>1, <3>2, BrokenAssumption DEF LastInv
  <2>2. CASE StartAgain
    <3>1. last' = [faults |-> {}, outcome |-> Outcome("order", 0)]  BY <2>2 DEF StartAgain
    <3>2. ParseOrder({}) = Outcome("order", 0)  BY DEF ParseOrder
    <3> QED  BY <3>1, <3>2 DEF LastInv
  <2>3. CASE DayPasses  BY <2>3 DEF DayPasses, LastInv
  <2>4. CASE UNCHANGED entryVars  BY <2>4 DEF entryVars, LastInv
  <2> QED  BY <2>1, <2>2, <2>3, <2>4 DEF EntryNext
<1> QED  BY <1>1, <1>2, PTL DEF EntrySpec

\* A text without fault, and no other, is an order; one that lacks a field is
\* refused with an error for a field it lacks, whatever else is wrong with it;
\* and no error names a field nothing is wrong with: for all texts with any of
\* the faults together (parse_order, validate_required_fields).
THEOREM RefusalsCorrect == EntrySpec => []RefusalsNameAFault
<1>1. LastInv => RefusalsNameAFault
  <2> SUFFICES ASSUME LastInv PROVE RefusalsNameAFault
    OBVIOUS
  <2> DEFINE o == ParseOrder(last.faults)
  <2>1. /\ o.kind = "order" <=> last.faults = {}
        /\ (\E f \in last.faults : IsNeed(f)) => o.kind = "error"
        /\ o.kind = "error" => Named(o.code) \in NamedBy(last.faults)
    BY ParseOrderFacts DEF LastInv
  <2>2. last.outcome = o  BY DEF LastInv
  <2> HIDE DEF o
  <2>3. FaultyFields = NamedBy(last.faults)  BY DEF FaultyFields, NamedBy
  <2>4. LacksField => \E f \in last.faults : IsNeed(f)  BY DEF LacksField, IsNeed
  <2> QED  BY <2>1, <2>2, <2>3, <2>4 DEF RefusalsNameAFault
<1> QED  BY <1>1, LastInvariant, PTL

-----------------------------------------------------------------------------
(* Sums: what SumFunctionOnSet adds up, one element at a time.  It is       *)
(* recursive on sets: the facts are of a least counterexample.             *)

One(s) == CHOOSE x \in s : TRUE
SumStep(f, h, s) == IF s = {} THEN 0 ELSE f[One(s)] + h[s \ {One(s)}]

LEMMA SumIsFold ==
    ASSUME NEW f, NEW S
    PROVE  SumFunctionOnSet(f, S) = (CHOOSE h : h = [s \in SUBSET S |-> SumStep(f, h, s)])[S]
BY DEF SumFunctionOnSet, FoldFunctionOnSet, MapThenFoldSet, SumStep, One

LEMMA FoldExists ==
    ASSUME NEW f, NEW S, IsFiniteSet(S)
    PROVE  \E h : h = [s \in SUBSET S |-> SumStep(f, h, s)]
<1> DEFINE D(k) == {s \in SUBSET S : Cardinality(s) <= k}
           Has(k) == \E h : h = [s \in D(k) |-> SumStep(f, h, s)]
           B == {k \in Nat : ~Has(k)}
<1>1. \A s \in SUBSET S : IsFiniteSet(s) /\ Cardinality(s) \in Nat
  BY FS_Subset, FS_CardinalityType
<1>2. ASSUME B # {} PROVE FALSE
  <2>1. PICK k \in B : \A m \in B : k <= m
    <3>1. B \in SUBSET Nat  OBVIOUS
    <3>2. Min(B) \in B /\ \A m \in B : Min(B) <= m  BY <1>2, <3>1, Least
    <3> QED  BY <3>2
  <2>2. k # 0
    <3> SUFFICES ASSUME k = 0 PROVE Has(k)
      BY <2>1
    <3>1. \A s \in D(0) : s = {}
      BY <1>1, FS_EmptySet
    <3> DEFINE h == [s \in D(0) |-> 0]
    <3>2. h = [s \in D(0) |-> SumStep(f, h, s)]
      BY <3>1 DEF SumStep
    <3> QED  BY <3>2
  <2>3. k - 1 \in Nat /\ k \in Nat /\ ~(k <= k - 1)  BY <2>1, <2>2
  <2>4. Has(k - 1)  BY <2>1, <2>3
  <2>5. PICK h : h = [s \in D(k - 1) |-> SumStep(f, h, s)]  BY <2>4
  <2> DEFINE g == [s \in D(k) |-> IF s \in D(k - 1) THEN h[s] ELSE SumStep(f, h, s)]
  <2>6. ASSUME NEW s \in D(k) PROVE g[s] = SumStep(f, g, s)
    <3>1. s \in D(k - 1) => g[s] = SumStep(f, h, s)  BY <2>5
    <3>2. g[s] = SumStep(f, h, s)  BY <3>1
    <3>3. CASE s = {}  BY <3>2, <3>3 DEF SumStep
    <3>4. CASE s # {}
      <4> DEFINE t == s \ {One(s)}
      <4>1. One(s) \in s  BY <3>4 DEF One
      <4>2. Cardinality(t) = Cardinality(s) - 1
        BY <1>1, <4>1, FS_RemoveElement
      <4>3. t \in D(k - 1) /\ t \in D(k)
        <5>1. Cardinality(s) \in Nat /\ Cardinality(s) <= k  BY <1>1
        <5>2. t \in SUBSET S  OBVIOUS
        <5> HIDE DEF t
        <5>3. Cardinality(t) <= k - 1 /\ Cardinality(t) <= k  BY <2>3, <4>2, <5>1
        <5> QED  BY <5>2, <5>3
      <4>4. g[t] = h[t]  BY <4>3
      <4> QED  BY <3>2, <3>4, <4>4 DEF SumStep
    <3> QED  BY <3>3, <3>4
  <2>7. g = [s \in D(k) |-> SumStep(f, g, s)]  BY <2>6
  <2>8. Has(k)  BY <2>7
  <2> QED  BY <2>1, <2>8
<1>3. Has(Cardinality(S))
  <2>1. Cardinality(S) \in Nat  BY FS_CardinalityType
  <2> QED  BY <1>2, <2>1
<1>4. D(Cardinality(S)) = SUBSET S
  BY FS_Subset
<1> QED  BY <1>3, <1>4

IsFold(f, S, h) == \A s \in SUBSET S : h[s] = SumStep(f, h, s)

\* Two folds agree where both are defined.
LEMMA FoldUnique ==
    ASSUME NEW f, NEW S, IsFiniteSet(S), NEW T \in SUBSET S,
           NEW h, IsFold(f, S, h), NEW g, IsFold(f, T, g)
    PROVE  h[T] = g[T]
<1> DEFINE B == {Cardinality(s) : s \in {t \in SUBSET T : h[t] # g[t]}}
<1>1. \A s \in SUBSET T : IsFiniteSet(s) /\ Cardinality(s) \in Nat
  BY FS_Subset, FS_CardinalityType
<1>2. ASSUME B # {} PROVE FALSE
  <2>1. B \in SUBSET Nat  BY <1>1
  <2>2. PICK k \in B : \A m \in B : k <= m
    <3>1. Min(B) \in B /\ \A m \in B : Min(B) <= m  BY <1>2, <2>1, Least
    <3> QED  BY <3>1
  <2>3. PICK s \in SUBSET T : h[s] # g[s] /\ Cardinality(s) = k  BY <2>2
  <2>4. h[s] = SumStep(f, h, s) /\ g[s] = SumStep(f, g, s)
    <3>1. s \in SUBSET S  OBVIOUS
    <3> QED  BY <3>1 DEF IsFold
  <2>5. CASE s = {}  BY <2>3, <2>4, <2>5 DEF SumStep
  <2>6. CASE s # {}
    <3> DEFINE t == s \ {One(s)}
    <3>1. One(s) \in s  BY <2>6 DEF One
    <3>2. t \in SUBSET T /\ Cardinality(t) = k - 1 /\ k \in Nat
      BY <1>1, <2>3, <3>1, FS_RemoveElement
    <3>3. h[t] # g[t]  BY <2>3, <2>4, <2>6 DEF SumStep
    <3> HIDE DEF t
    <3>4. Cardinality(t) \in B  BY <3>2, <3>3
    <3>5. k <= k - 1  BY <2>2, <3>2, <3>4
    <3> QED  BY <3>2, <3>5
  <2> QED  BY <2>5, <2>6
<1>3. ASSUME h[T] # g[T] PROVE FALSE
  <2>1. T \in {t \in SUBSET T : h[t] # g[t]}  BY <1>3
  <2>2. Cardinality(T) \in B  BY <2>1
  <2> QED  BY <1>2, <2>2
<1> QED  BY <1>3

LEMMA SumUnfold ==
    ASSUME NEW f, NEW S, IsFiniteSet(S)
    PROVE  SumFunctionOnSet(f, S) =
             IF S = {} THEN 0 ELSE f[One(S)] + SumFunctionOnSet(f, S \ {One(S)})
<1> DEFINE T == S \ {One(S)}
           H(R) == CHOOSE h : h = [s \in SUBSET R |-> SumStep(f, h, s)]
<1>1. IsFiniteSet(T) /\ T \in SUBSET S  BY FS_Subset
<1>2. H(S) = [s \in SUBSET S |-> SumStep(f, H(S), s)]  BY FoldExists
<1>3. H(T) = [s \in SUBSET T |-> SumStep(f, H(T), s)]  BY <1>1, FoldExists
<1>4. SumFunctionOnSet(f, S) = H(S)[S] /\ SumFunctionOnSet(f, T) = H(T)[T]  BY SumIsFold
<1>5. H(S)[T] = H(T)[T]
  <2>1. PICK h : h = H(S)  OBVIOUS
  <2>2. PICK g : g = H(T)  OBVIOUS
  <2> HIDE DEF H, T
  <2>3. IsFold(f, S, h)  BY <1>2, <2>1 DEF IsFold
  <2>4. IsFold(f, T, g)  BY <1>3, <2>2 DEF IsFold
  <2>5. h[T] = g[T]  BY <1>1, <2>3, <2>4, FoldUnique
  <2> QED  BY <2>1, <2>2, <2>5
<1> HIDE DEF H
<1>6. H(S)[S] = SumStep(f, H(S), S)  BY <1>2
<1> QED  BY <1>4, <1>5, <1>6 DEF SumStep

\* A sum of numbers is a number, and any element can be taken out of it.
LEMMA SumFacts ==
    ASSUME NEW S, IsFiniteSet(S), NEW f, \A x \in S : f[x] \in Int
    PROVE  /\ SumFunctionOnSet(f, S) \in Int
           /\ (\A x \in S : f[x] >= 0) => SumFunctionOnSet(f, S) >= 0
           /\ SumFunctionOnSet(f, {}) = 0
           /\ \A x \in S : SumFunctionOnSet(f, S) = f[x] + SumFunctionOnSet(f, S \ {x})
<1> DEFINE Z(T) == SumFunctionOnSet(f, T)
           Good(T) == /\ Z(T) \in Int /\ ((\A x \in T : f[x] >= 0) => Z(T) >= 0)
                      /\ \A x \in T : Z(T) = f[x] + Z(T \ {x})
           B == {Cardinality(s) : s \in {t \in SUBSET S : ~Good(t)}}
<1>1. \A s \in SUBSET S : IsFiniteSet(s) /\ Cardinality(s) \in Nat
  BY FS_Subset, FS_CardinalityType
<1>2. \A s \in SUBSET S : Z(s) = IF s = {} THEN 0 ELSE f[One(s)] + Z(s \ {One(s)})
  BY <1>1, SumUnfold
<1> HIDE DEF Z
<1>3. ASSUME B # {} PROVE FALSE
  <2>1. B \in SUBSET Nat  BY <1>1
  <2>2. PICK k \in B : \A m \in B : k <= m
    <3>1. Min(B) \in B /\ \A m \in B : Min(B) <= m  BY <1>3, <2>1, Least
    <3> QED  BY <3>1
  <2>3. PICK s \in SUBSET S : ~Good(s) /\ Cardinality(s) = k  BY <2>2
  <2>4. CASE s = {}
    <3>1. Z(s) = 0  BY <1>2, <2>4
    <3>2. Good(s)  BY <2>4, <3>1
    <3> QED  BY <2>3, <3>2
  <2>5. CASE s # {}
    <3> DEFINE a == One(s)
    <3>1. a \in s  BY <2>5 DEF One
    <3>2. Z(s) = f[a] + Z(s \ {a})  BY <1>2, <2>5
    <3> HIDE DEF a
    <3>3. \A x \in s : Good(s \ {x})
      <4> SUFFICES ASSUME NEW x \in s, ~Good(s \ {x}) PROVE FALSE
        OBVIOUS
      <4>1. s \ {x} \in SUBSET S /\ Cardinality(s \ {x}) = k - 1 /\ k \in Nat
        BY <1>1, <2>3, FS_RemoveElement
      <4>2. k - 1 \in B  BY <4>1
      <4>3. k <= k - 1  BY <2>2, <4>2
      <4> QED  BY <4>1, <4>3
    <3>4. Z(s) \in Int /\ ((\A x \in s : f[x] >= 0) => Z(s) >= 0)
      <4>1. Z(s \ {a}) \in Int /\ ((\A x \in s \ {a} : f[x] >= 0) => Z(s \ {a}) >= 0)
        BY <3>1, <3>3
      <4>2. f[a] \in Int  BY <3>1
      <4>3. (\A x \in s : f[x] >= 0) => f[a] >= 0 /\ \A x \in s \ {a} : f[x] >= 0
        BY <3>1
      <4> QED  BY <3>2, <4>1, <4>2, <4>3
    <3>5. ASSUME NEW x \in s PROVE Z(s) = f[x] + Z(s \ {x})
      <4>1. CASE x = a  BY <3>2, <4>1
      <4>2. CASE x # a
        <5> DEFINE u == (s \ {a}) \ {x}
        <5>1. u = (s \ {x}) \ {a}  OBVIOUS
        <5> HIDE DEF u
        <5>2. Z(s \ {a}) = f[x] + Z(u)
          <6>1. x \in s \ {a}  BY <4>2
          <6> QED  BY <3>1, <3>3, <6>1 DEF u
        <5>3. Z(s \ {x}) = f[a] + Z(u)
          <6>1. a \in s \ {x}  BY <3>1, <4>2
          <6> QED  BY <3>3, <5>1, <6>1
        <5>4. Z(u) \in Int
          <6>1. u \in SUBSET S /\ Cardinality(u) = k - 2 /\ k \in Nat /\ k - 2 \in Nat
            <7>1. IsFiniteSet(s \ {a}) /\ Cardinality(s \ {a}) = k - 1 /\ k \in Nat
              BY <1>1, <2>3, <3>1, FS_RemoveElement
            <7>2. Cardinality((s \ {a}) \ {x}) = (k - 1) - 1
              BY <4>2, <7>1, FS_RemoveElement
            <7>3. u \in SUBSET S  BY DEF u
            <7>4. Cardinality(u) \in Nat  BY <1>1, <7>3
            <7> QED  BY <7>1, <7>2, <7>3, <7>4 DEF u
          <6>2. ASSUME ~Good(u) PROVE FALSE
            <7>1. k - 2 \in B  BY <6>1, <6>2
            <7> QED  BY <2>2, <6>1, <7>1
          <6> QED  BY <6>2
        <5>5. f[x] \in Int /\ f[a] \in Int  BY <3>1
        <5> QED  BY <3>2, <5>2, <5>3, <5>4, <5>5
      <4> QED  BY <4>1, <4>2
    <3> QED  BY <2>3, <3>4, <3>5
  <2> QED  BY <2>4, <2>5
<1>4. Good(S)
  <2> SUFFICES ASSUME ~Good(S) PROVE FALSE
    OBVIOUS
  <2>1. Cardinality(S) \in B  OBVIOUS
  <2> QED  BY <1>3, <2>1
<1>5. Z({}) = 0  BY <1>2
<1> QED  BY <1>4, <1>5 DEF Z


\* Sums are added element by element.
LEMMA SumAdds ==
    ASSUME NEW S, IsFiniteSet(S), NEW f, NEW g, NEW h,
           \A x \in S : f[x] \in Int /\ g[x] \in Int /\ h[x] \in Int /\ f[x] = g[x] + h[x]
    PROVE  SumFunctionOnSet(f, S) = SumFunctionOnSet(g, S) + SumFunctionOnSet(h, S)
<1> DEFINE Z(k, T) == SumFunctionOnSet(k, T)
           Good(T) == Z(f, T) = Z(g, T) + Z(h, T)
           B == {Cardinality(s) : s \in {t \in SUBSET S : ~Good(t)}}
<1>1. \A s \in SUBSET S : IsFiniteSet(s) /\ Cardinality(s) \in Nat
  BY FS_Subset, FS_CardinalityType
<1>2. \A T \in SUBSET S : /\ Z(f, T) \in Int /\ Z(g, T) \in Int /\ Z(h, T) \in Int
                          /\ \A x \in T : /\ Z(f, T) = f[x] + Z(f, T \ {x})
                                          /\ Z(g, T) = g[x] + Z(g, T \ {x})
                                          /\ Z(h, T) = h[x] + Z(h, T \ {x})
  <2> TAKE T \in SUBSET S
  <2>1. IsFiniteSet(T) /\ \A x \in T : f[x] \in Int /\ g[x] \in Int /\ h[x] \in Int  BY <1>1
  <2>2. Z(f, T) \in Int /\ \A x \in T : Z(f, T) = f[x] + Z(f, T \ {x})  BY <2>1, SumFacts
  <2>3. Z(g, T) \in Int /\ \A x \in T : Z(g, T) = g[x] + Z(g, T \ {x})  BY <2>1, SumFacts
  <2>4. Z(h, T) \in Int /\ \A x \in T : Z(h, T) = h[x] + Z(h, T \ {x})  BY <2>1, SumFacts
  <2> QED  BY <2>2, <2>3, <2>4
<1>3. Z(f, {}) = 0 /\ Z(g, {}) = 0 /\ Z(h, {}) = 0
  BY SumFacts
<1> HIDE DEF Z
<1>4. ASSUME B # {} PROVE FALSE
  <2>1. B \in SUBSET Nat  BY <1>1
  <2>2. PICK k \in B : \A m \in B : k <= m
    <3>1. Min(B) \in B /\ \A m \in B : Min(B) <= m  BY <1>4, <2>1, Least
    <3> QED  BY <3>1
  <2>3. PICK s \in SUBSET S : ~Good(s) /\ Cardinality(s) = k  BY <2>2
  <2>4. s # {}  BY <1>3, <2>3
  <2>5. PICK x \in s : TRUE  BY <2>4
  <2>6. s \ {x} \in SUBSET S /\ Cardinality(s \ {x}) = k - 1 /\ k \in Nat
    BY <1>1, <2>3, FS_RemoveElement
  <2>7. Good(s \ {x})
    <3> SUFFICES ASSUME ~Good(s \ {x}) PROVE FALSE
      OBVIOUS
    <3>1. k - 1 \in B  BY <2>6
    <3>2. k <= k - 1  BY <2>2, <3>1
    <3> QED  BY <2>6, <3>2
  <2>8. /\ Z(f, s) = f[x] + Z(f, s \ {x}) /\ Z(g, s) = g[x] + Z(g, s \ {x})
        /\ Z(h, s) = h[x] + Z(h, s \ {x}) /\ f[x] = g[x] + h[x]
        /\ Z(g, s \ {x}) \in Int /\ Z(h, s \ {x}) \in Int /\ g[x] \in Int /\ h[x] \in Int
    BY <1>2, <2>6
  <2>9. Good(s)  BY <2>7, <2>8
  <2> QED  BY <2>3, <2>9
<1>5. Good(S)
  <2> SUFFICES ASSUME ~Good(S) PROVE FALSE
    OBVIOUS
  <2>1. Cardinality(S) \in B  OBVIOUS
  <2> QED  BY <1>4, <2>1
<1> QED  BY <1>5 DEF Z

LEMMA SumSame ==
    ASSUME NEW S, IsFiniteSet(S), NEW f, NEW g, \A x \in S : f[x] \in Int /\ f[x] = g[x]
    PROVE  SumFunctionOnSet(f, S) = SumFunctionOnSet(g, S)
<1> DEFINE z == [x \in S |-> 0]
<1>1. \A x \in S : z[x] = 0  OBVIOUS
<1> HIDE DEF z
<1>2. \A x \in S : z[x] \in Int /\ z[x] = z[x] + z[x]  BY <1>1
<1>3. \A x \in S : f[x] \in Int /\ g[x] \in Int /\ z[x] \in Int /\ f[x] = g[x] + z[x]  BY <1>1
<1>4. SumFunctionOnSet(z, S) = SumFunctionOnSet(z, S) + SumFunctionOnSet(z, S)
  BY <1>2, SumAdds
<1>5. SumFunctionOnSet(f, S) = SumFunctionOnSet(g, S) + SumFunctionOnSet(z, S)
  BY <1>3, SumAdds
<1>6. SumFunctionOnSet(z, S) \in Int
  <2>1. \A x \in S : z[x] \in Int  BY <1>2
  <2> QED  BY <2>1, SumFacts
<1>7. SumFunctionOnSet(g, S) \in Int
  <2>1. \A x \in S : g[x] \in Int  BY <1>3
  <2> QED  BY <2>1, SumFacts
<1>8. \A a, b \in Int : (a = a + a => a = 0) /\ b + 0 = b  OBVIOUS
<1>9. SumFunctionOnSet(z, S) = 0  BY <1>4, <1>6, <1>8
<1>10. SumFunctionOnSet(f, S) = SumFunctionOnSet(g, S) + 0  BY <1>5, <1>9
<1> QED  BY <1>7, <1>8, <1>10

\* What is zero may be left out.
LEMMA SumLess ==
    ASSUME NEW S, IsFiniteSet(S), NEW T \in SUBSET S, NEW f, \A x \in S : f[x] \in Int,
           \A x \in S \ T : f[x] = 0
    PROVE  SumFunctionOnSet(f, S) = SumFunctionOnSet(f, T)
<1> DEFINE Z(R) == SumFunctionOnSet(f, R)
           B == {Cardinality(s) : s \in {t \in SUBSET S : T \subseteq t /\ Z(t) # Z(T)}}
<1>1. \A s \in SUBSET S : IsFiniteSet(s) /\ Cardinality(s) \in Nat
  BY FS_Subset, FS_CardinalityType
<1>2. \A R \in SUBSET S : Z(R) \in Int /\ \A x \in R : Z(R) = f[x] + Z(R \ {x})
  <2> TAKE R \in SUBSET S
  <2>1. IsFiniteSet(R) /\ \A x \in R : f[x] \in Int  BY <1>1
  <2> QED  BY <2>1, SumFacts
<1> HIDE DEF Z
<1>3. ASSUME B # {} PROVE FALSE
  <2>1. B \in SUBSET Nat  BY <1>1
  <2>2. PICK k \in B : \A m \in B : k <= m
    <3>1. Min(B) \in B /\ \A m \in B : Min(B) <= m  BY <1>3, <2>1, Least
    <3> QED  BY <3>1
  <2>3. PICK s \in SUBSET S : T \subseteq s /\ Z(s) # Z(T) /\ Cardinality(s) = k  BY <2>2
  <2>4. PICK x \in s \ T : TRUE
    <3>1. s # T  BY <2>3
    <3> QED  BY <2>3, <3>1
  <2>5. s \ {x} \in SUBSET S /\ Cardinality(s \ {x}) = k - 1 /\ k \in Nat /\ T \subseteq s \ {x}
    BY <1>1, <2>3, FS_RemoveElement
  <2>6. Z(s \ {x}) = Z(T)
    <3> SUFFICES ASSUME Z(s \ {x}) # Z(T) PROVE FALSE
      OBVIOUS
    <3>1. k - 1 \in B  BY <2>5
    <3>2. k <= k - 1  BY <2>2, <3>1
    <3> QED  BY <2>5, <3>2
  <2>7. f[x] = 0 /\ Z(s) = f[x] + Z(s \ {x}) /\ Z(s \ {x}) \in Int  BY <1>2, <2>5
  <2> QED  BY <2>3, <2>6, <2>7
<1>4. Z(S) = Z(T)
  <2> SUFFICES ASSUME Z(S) # Z(T) PROVE FALSE
    OBVIOUS
  <2>1. Cardinality(S) \in B  OBVIOUS
  <2> QED  BY <1>3, <2>1
<1> QED  BY <1>4 DEF Z


-----------------------------------------------------------------------------
(* The level: what its orders have left, and its total modulo 2^Width      *)

LEMMA Powers ==
    /\ 2^Width \in Nat \ {0} /\ Quantities \subseteq Nat /\ 0 \in Quantities
    /\ \A a \in Nat, b \in Quantities : a <= b => a \in Quantities
BY NumbersAssumption DEF Quantities

LEMMA MinMaxFacts ==
    ASSUME NEW a \in Int, NEW b \in Int
    PROVE  /\ Min({a, b}) = IF a <= b THEN a ELSE b
           /\ Max({a, b}) = IF a <= b THEN b ELSE a
<1>1. CASE a <= b
  <2>1. \E x \in {a, b} : \A y \in {a, b} : x <= y  BY <1>1
  <2>2. \E x \in {a, b} : \A y \in {a, b} : x >= y  BY <1>1
  <2>3. Min({a, b}) \in {a, b} /\ Min({a, b}) <= a /\ Min({a, b}) <= b  BY <2>1 DEF Min
  <2>4. Max({a, b}) \in {a, b} /\ Max({a, b}) >= a /\ Max({a, b}) >= b  BY <2>2 DEF Max
  <2> QED  BY <1>1, <2>3, <2>4
<1>2. CASE b < a
  <2>1. \E x \in {a, b} : \A y \in {a, b} : x <= y  BY <1>2
  <2>2. \E x \in {a, b} : \A y \in {a, b} : x >= y  BY <1>2
  <2>3. Min({a, b}) \in {a, b} /\ Min({a, b}) <= a /\ Min({a, b}) <= b  BY <2>1 DEF Min
  <2>4. Max({a, b}) \in {a, b} /\ Max({a, b}) >= a /\ Max({a, b}) >= b  BY <2>2 DEF Max
  <2> QED  BY <1>2, <2>3, <2>4
<1> QED  BY <1>1, <1>2

LEMMA RemsFacts ==
    ASSUME NEW q \in Seq(Resting)
    PROVE  /\ Len(q) \in Nat /\ DOMAIN q = 1 .. Len(q) /\ DOMAIN Rems(q) = 1 .. Len(q)
           /\ \A i \in 1 .. Len(q) : /\ q[i] \in Resting /\ q[i].rem \in Quantities
                                     /\ Rems(q)[i] = q[i].rem /\ Rems(q)[i] \in Nat
<1>1. Len(q) \in Nat /\ DOMAIN q = 1 .. Len(q)  BY LenProperties
<1>2. \A i \in 1 .. Len(q) : q[i] \in Resting  BY ElementOfSeq
<1>3. \A i \in 1 .. Len(q) : q[i].rem \in Quantities /\ q[i].rem \in Nat
  BY <1>2, Powers DEF Resting
<1> QED  BY <1>1, <1>2, <1>3 DEF Rems

\* What is ahead of an order grows by what each order has left.
LEMMA AheadFacts ==
    ASSUME NEW q \in Seq(Resting)
    PROVE  /\ Volume(q) \in Nat /\ Volume(q) = Ahead(q, Len(q) + 1) /\ Ahead(q, 1) = 0
           /\ \A i \in 1 .. Len(q) + 1 : Ahead(q, i) \in Nat
           /\ \A i \in 1 .. Len(q) : Ahead(q, i + 1) = Ahead(q, i) + q[i].rem
<1> DEFINE f == Rems(q)
           N == Len(q)
<1>1. N \in Nat /\ DOMAIN f = 1 .. N /\ \A i \in 1 .. N : f[i] = q[i].rem /\ f[i] \in Nat
  BY RemsFacts
<1>2. Volume(q) = SumFunctionOnSet(f, 1 .. N) /\ \A i : Ahead(q, i) = SumFunctionOnSet(f, 1 .. i - 1)
  BY <1>1 DEF Volume, SumFunction, Ahead
<1> HIDE DEF f, N
<1>3. \A k \in 0 .. N : /\ IsFiniteSet(1 .. k) /\ \A i \in 1 .. k : f[i] \in Int /\ f[i] >= 0 /\ f[i] \in Nat
  <2> TAKE k \in 0 .. N
  <2>1. IsFiniteSet(1 .. k)  BY <1>1, FS_Interval
  <2>2. \A i \in 1 .. k : i \in 1 .. N  BY <1>1
  <2> QED  BY <1>1, <2>1, <2>2
<1>4. ASSUME NEW k \in 0 .. N PROVE SumFunctionOnSet(f, 1 .. k) \in Nat
  <2>1. SumFunctionOnSet(f, 1 .. k) \in Int /\ SumFunctionOnSet(f, 1 .. k) >= 0  BY <1>3, SumFacts
  <2> QED  BY <2>1
<1>5. ASSUME NEW i \in 1 .. N + 1 PROVE Ahead(q, i) \in Nat
  <2>1. i - 1 \in 0 .. N  BY <1>1
  <2> QED  BY <1>2, <1>4, <2>1
<1>6. ASSUME NEW i \in 1 .. N PROVE Ahead(q, i + 1) = Ahead(q, i) + q[i].rem
  <2>1. i \in 0 .. N /\ i - 1 \in 0 .. N /\ (i + 1) - 1 = i /\ i \in 1 .. i /\ (1 .. i) \ {i} = 1 .. i - 1
    BY <1>1
  <2>2. SumFunctionOnSet(f, 1 .. i) = f[i] + SumFunctionOnSet(f, (1 .. i) \ {i})
    BY <1>3, <2>1, SumFacts
  <2>3. Ahead(q, i + 1) = SumFunctionOnSet(f, 1 .. i) /\ Ahead(q, i) = SumFunctionOnSet(f, 1 .. i - 1)
    BY <1>2, <2>1
  <2>4. f[i] = q[i].rem /\ f[i] \in Nat /\ SumFunctionOnSet(f, 1 .. i - 1) \in Nat
    BY <1>1, <1>4, <2>1
  <2>5. SumFunctionOnSet(f, 1 .. i) = f[i] + SumFunctionOnSet(f, 1 .. i - 1)
    BY <2>1, <2>2
  <2>6. \A a, b \in Nat : a + b = b + a  OBVIOUS
  <2> QED  BY <2>3, <2>4, <2>5, <2>6
<1>7. Ahead(q, 1) = 0
  <2>1. 1 .. 1 - 1 = {} /\ IsFiniteSet({})  BY FS_EmptySet
  <2>2. SumFunctionOnSet(f, {}) = 0  BY <2>1, SumFacts
  <2> QED  BY <1>2, <2>1, <2>2
<1>8. Volume(q) \in Nat /\ Volume(q) = Ahead(q, N + 1)
  <2>1. N \in 0 .. N /\ (N + 1) - 1 = N  BY <1>1
  <2> QED  BY <1>2, <1>4, <2>1
<1> QED  BY <1>5, <1>6, <1>7, <1>8 DEF N


\* Two FIFOs have as much ahead of an order if the orders before it do.
LEMMA AheadSame ==
    ASSUME NEW q \in Seq(Resting), NEW t \in Seq(Resting), NEW k \in Nat, k <= Len(q), k <= Len(t),
           \A i \in 1 .. k : t[i].rem = q[i].rem
    PROVE  Ahead(t, k + 1) = Ahead(q, k + 1)
<1> DEFINE f == Rems(q)
           g == Rems(t)
<1>1. \A i \in 1 .. k : i \in 1 .. Len(q) /\ i \in 1 .. Len(t)
  BY RemsFacts
<1>2. \A i \in 1 .. k : g[i] \in Int /\ g[i] = f[i]
  BY <1>1, RemsFacts
<1>3. IsFiniteSet(1 .. k)
  <2>1. 1 \in Int /\ k \in Int  OBVIOUS
  <2> QED  BY <2>1, FS_Interval
<1>4. Ahead(t, k + 1) = SumFunctionOnSet(g, 1 .. k) /\ Ahead(q, k + 1) = SumFunctionOnSet(f, 1 .. k)
  <2>1. (k + 1) - 1 = k  OBVIOUS
  <2> QED  BY <2>1 DEF Ahead
<1> HIDE DEF f, g
<1>5. SumFunctionOnSet(g, 1 .. k) = SumFunctionOnSet(f, 1 .. k)  BY <1>2, <1>3, SumSame
<1> QED  BY <1>4, <1>5

LEMMA VolumeAppend ==
    ASSUME NEW q \in Seq(Resting), NEW o \in Resting
    PROVE  Append(q, o) \in Seq(Resting) /\ Volume(Append(q, o)) = Volume(q) + o.rem
<1> DEFINE t == Append(q, o)
           N == Len(q)
<1>1. /\ t \in Seq(Resting) /\ N \in Nat /\ Len(t) = N + 1 /\ t[N + 1] = o
      /\ \A i \in 1 .. N : t[i] = q[i]
  BY AppendProperties, LenProperties
<1> HIDE DEF t, N
<1>2. N <= N /\ N <= N + 1 /\ N + 1 \in 1 .. N + 1  BY <1>1
<1>3. Ahead(t, N + 1) = Ahead(q, N + 1)
  <2>1. N <= Len(q) /\ N <= Len(t)  BY <1>1, <1>2 DEF N
  <2> QED  BY <1>1, <2>1, AheadSame
<1>4. Volume(t) = Ahead(t, (N + 1) + 1) /\ Ahead(t, (N + 1) + 1) = Ahead(t, N + 1) + t[N + 1].rem
  BY <1>1, <1>2, AheadFacts
<1>5. Volume(q) = Ahead(q, N + 1)  BY AheadFacts DEF N
<1> QED  BY <1>1, <1>3, <1>4, <1>5 DEF t

\* What a taker takes of each order leaves the rest, and it is all it wants of
\* what there is together.
LEMMA AfterFacts ==
    ASSUME NEW q \in Seq(Resting), NEW n \in Nat
    PROVE  /\ After(q, n) \in Seq(Resting) /\ Taken(q, n) \in Nat /\ Taken(q, n) <= n
           /\ Taken(q, n) <= Volume(q)
           /\ Volume(After(q, n)) = Volume(q) - Taken(q, n)
           /\ Len(After(q, n)) = Len(q)
           /\ \A i \in DOMAIN q : /\ After(q, n)[i].ticks = q[i].ticks
                                  /\ After(q, n)[i].units = q[i].units
                                  /\ After(q, n)[i].rem <= q[i].rem
<1> DEFINE t == After(q, n)
           N == Len(q)
           a(i) == Ahead(q, i)
           b(i) == Ahead(t, i)
           left(i) == IF n <= a(i) THEN a(i) - n ELSE 0
<1>1. /\ N \in Nat /\ DOMAIN q = 1 .. N
      /\ \A i \in 1 .. N : q[i] \in Resting /\ q[i].rem \in Quantities /\ q[i].rem \in Nat
  BY RemsFacts, Powers
<1>2. /\ Volume(q) \in Nat /\ Volume(q) = a(N + 1) /\ a(1) = 0
      /\ \A i \in 1 .. N + 1 : a(i) \in Nat
      /\ \A i \in 1 .. N : a(i + 1) = a(i) + q[i].rem
  BY AheadFacts
<1> HIDE DEF a
<1>3. ASSUME NEW i \in 1 .. N
      PROVE  Takes(q, n, i) = IF n <= a(i) THEN 0 ELSE IF n - a(i) <= q[i].rem THEN n - a(i) ELSE q[i].rem
  <2> DEFINE r == q[i].rem
             d == n - Ahead(q, i)
  <2>1. r \in Nat /\ a(i) \in Nat
    <3>1. i \in 1 .. N + 1  BY <1>1
    <3> QED  BY <1>1, <1>2, <3>1
  <2>2. d \in Int /\ d = n - a(i)  BY <2>1 DEF a
  <2> HIDE DEF r, d
  <2>3. Min({r, d}) = IF r <= d THEN r ELSE d  BY <2>1, <2>2, MinMaxFacts
  <2>4. Min({r, d}) \in Int  BY <2>1, <2>2, <2>3
  <2>5. Max({0, Min({r, d})}) = IF 0 <= Min({r, d}) THEN Min({r, d}) ELSE 0
    <3>1. 0 \in Int  OBVIOUS
    <3> QED  BY <2>4, <3>1, MinMaxFacts
  <2>6. Takes(q, n, i) = Max({0, Min({r, d})})  BY DEF Takes, r, d
  <2> QED  BY <2>1, <2>2, <2>3, <2>5, <2>6 DEF r
<1>4. \A i \in 1 .. N : Takes(q, n, i) \in Nat /\ Takes(q, n, i) <= q[i].rem
  <2> TAKE i \in 1 .. N
  <2>1. q[i].rem \in Nat /\ a(i) \in Nat
    <3>1. i \in 1 .. N + 1  BY <1>1
    <3> QED  BY <1>1, <1>2, <3>1
  <2> QED  BY <1>3, <2>1
<1>5. DOMAIN t = 1 .. N /\ \A i \in 1 .. N : t[i] = [q[i] EXCEPT !.rem = q[i].rem - Takes(q, n, i)]
  BY <1>1 DEF After
<1> HIDE DEF t, N
<1>6. \A i \in 1 .. N : t[i] \in Resting /\ t[i].rem = q[i].rem - Takes(q, n, i)
  <2> TAKE i \in 1 .. N
  <2> DEFINE r == q[i].rem - Takes(q, n, i)
  <2>1. r \in Quantities
    <3>1. r \in Nat /\ r <= q[i].rem  BY <1>1, <1>4
    <3> QED  BY <1>1, <3>1, Powers
  <2> HIDE DEF r
  <2>2. t[i] = [q[i] EXCEPT !.rem = r]  BY <1>5 DEF r
  <2>3. q[i] \in Resting  BY <1>1
  <2>4. t[i] \in Resting /\ t[i].rem = r  BY <2>1, <2>2, <2>3 DEF Resting
  <2> QED  BY <2>4 DEF r
<1>7. t \in Seq(Resting) /\ Len(t) = N
  <2>1. t \in [1 .. N -> Resting]
    <3>1. t = [i \in DOMAIN t |-> t[i]]  BY DEF t, After
    <3> QED  BY <1>5, <1>6, <3>1
  <2> QED  BY <1>1, <2>1, SeqDef, LenProperties
<1>8. /\ Volume(t) = b(N + 1) /\ b(1) = 0
      /\ \A i \in 1 .. N + 1 : b(i) \in Nat
      /\ \A i \in 1 .. N : b(i + 1) = b(i) + t[i].rem
  BY <1>7, AheadFacts
<1> HIDE DEF b
<1> DEFINE B == {i \in 1 .. N + 1 : b(i) # left(i)}
<1>9. ASSUME B # {} PROVE FALSE
  <2>1. B \in SUBSET Nat  BY <1>1
  <2>2. PICK k \in B : \A m \in B : k <= m
    <3>1. Min(B) \in B /\ \A m \in B : Min(B) <= m  BY <1>9, <2>1, Least
    <3> QED  BY <3>1
  <2>3. k # 1  BY <1>2, <1>8, <2>2
  <2>4. k \in 1 .. N + 1 /\ k \in Nat /\ b(k) # left(k)  BY <1>1, <2>2
  <2> DEFINE i == k - 1
  <2>5. i \in 1 .. N /\ i \in 1 .. N + 1 /\ i + 1 = k /\ ~(k <= i)  BY <1>1, <2>3, <2>4
  <2> HIDE DEF i
  <2>6. b(i) = left(i)  BY <2>2, <2>5
  <2>7. a(k) = a(i) + q[i].rem /\ b(k) = b(i) + t[i].rem /\ t[i].rem = q[i].rem - Takes(q, n, i)
    BY <1>2, <1>6, <1>8, <2>5
  <2>8. a(i) \in Nat /\ q[i].rem \in Nat  BY <1>1, <1>2, <2>5
  <2>9. Takes(q, n, i) = IF n <= a(i) THEN 0 ELSE IF n - a(i) <= q[i].rem THEN n - a(i) ELSE q[i].rem
    BY <1>3, <2>5
  <2>10. PICK r : r = q[i].rem  OBVIOUS
  <2>11. PICK x : x = Takes(q, n, i)  OBVIOUS
  <2>12. PICK y : y = a(i)  OBVIOUS
  <2>13. /\ r \in Nat /\ y \in Nat /\ a(k) = y + r /\ b(k) = (IF n <= y THEN y - n ELSE 0) + (r - x)
         /\ x = IF n <= y THEN 0 ELSE IF n - y <= r THEN n - y ELSE r
    BY <2>6, <2>7, <2>8, <2>9, <2>10, <2>11, <2>12
  <2>14. b(k) = IF n <= a(k) THEN a(k) - n ELSE 0  BY <2>13
  <2> QED  BY <2>4, <2>14
<1>10. N + 1 \in 1 .. N + 1  BY <1>1
<1>11. b(N + 1) = left(N + 1)  BY <1>9, <1>10
<1>12. Taken(q, n) = IF n <= Volume(q) THEN n ELSE Volume(q)
  <2>1. n \in Int /\ Volume(q) \in Int  BY <1>2
  <2> QED  BY <2>1, MinMaxFacts DEF Taken
<1>13. Volume(t) = Volume(q) - Taken(q, n)
  BY <1>2, <1>8, <1>11, <1>12
<1>14. Taken(q, n) \in Nat /\ Taken(q, n) <= n /\ Taken(q, n) <= Volume(q)
  BY <1>2, <1>12
<1>15. ASSUME NEW i \in DOMAIN q
       PROVE  t[i].ticks = q[i].ticks /\ t[i].units = q[i].units /\ t[i].rem <= q[i].rem
  <2>1. i \in 1 .. N  BY <1>1
  <2>2. t[i] = [q[i] EXCEPT !.rem = q[i].rem - Takes(q, n, i)] /\ q[i] \in Resting  BY <1>1, <1>5, <2>1
  <2>3. t[i].ticks = q[i].ticks /\ t[i].units = q[i].units  BY <2>2 DEF Resting
  <2>4. \A a1, b1 \in Nat : b1 <= a1 => a1 - b1 <= a1  OBVIOUS
  <2> QED  BY <1>1, <1>4, <1>6, <2>1, <2>3, <2>4
<1> QED  BY <1>7, <1>13, <1>14, <1>15 DEF t, N

KeptStep(q, f, i) ==
    IF i = 0 THEN <<>>
    ELSE IF q[i].rem > 0 THEN Append(f[i - 1], q[i]) ELSE f[i - 1]

LEMMA KeptExists ==
    ASSUME NEW q, NEW n \in Nat
    PROVE  \E f : f = [i \in 0 .. n |-> KeptStep(q, f, i)]
<1> DEFINE Has(k) == \E f : f = [i \in 0 .. k |-> KeptStep(q, f, i)]
           B == {k \in Nat : ~Has(k)}
<1> SUFFICES ASSUME B # {} PROVE FALSE
  <2>1. n \in B \/ Has(n)  OBVIOUS
  <2> QED BY <2>1
<1>1. PICK k \in B : \A m \in B : k <= m
  <2>1. B \in SUBSET Nat  OBVIOUS
  <2>2. Min(B) \in B /\ \A m \in B : Min(B) <= m  BY <2>1, Least
  <2> QED  BY <2>2
<1>2. k # 0
  <2> SUFFICES ASSUME k = 0 PROVE Has(k)
    BY <1>1
  <2> DEFINE f == [i \in 0 .. 0 |-> <<>>]
  <2>1. f = [i \in 0 .. 0 |-> KeptStep(q, f, i)]  BY DEF KeptStep
  <2> QED  BY <2>1
<1>3. k - 1 \in Nat /\ k \in Nat /\ ~(k <= k - 1)  BY <1>1, <1>2
<1>4. Has(k - 1)  BY <1>1, <1>3
<1>5. PICK f : f = [i \in 0 .. k - 1 |-> KeptStep(q, f, i)]  BY <1>4
<1> DEFINE g == [i \in 0 .. k |-> IF i < k THEN f[i] ELSE KeptStep(q, f, k)]
<1>6. ASSUME NEW i \in 0 .. k PROVE g[i] = KeptStep(q, g, i)
  <2>1. i = 0 \/ g[i - 1] = f[i - 1]  BY <1>3
  <2>2. KeptStep(q, g, i) = KeptStep(q, f, i)  BY <2>1 DEF KeptStep
  <2>3. CASE i < k
    <3>1. i \in 0 .. k - 1  BY <1>3, <2>3
    <3>2. f[i] = KeptStep(q, f, i)  BY <1>5, <3>1
    <3> QED  BY <2>2, <2>3, <3>2
  <2>4. CASE i = k  BY <2>2, <2>4
  <2> QED  BY <2>3, <2>4
<1>7. g = [i \in 0 .. k |-> KeptStep(q, g, i)]  BY <1>6
<1>8. Has(k)  BY <1>7
<1> QED  BY <1>1, <1>8

\* The orders that have nothing left make no difference to what is left.
LEMMA UnfilledFacts ==
    ASSUME NEW q \in Seq(Resting)
    PROVE  Unfilled(q) \in Seq(Resting) /\ Volume(Unfilled(q)) = Volume(q)
<1> DEFINE N == Len(q)
<1>1. /\ N \in Nat /\ \A i \in 1 .. N : q[i] \in Resting /\ q[i].rem \in Nat
  BY RemsFacts, Powers
<1>2. PICK f : f = [i \in 0 .. N |-> KeptStep(q, f, i)] /\ Unfilled(q) = f[N]
  <2> DEFINE F == CHOOSE f : f = [i \in 0 .. N |-> KeptStep(q, f, i)]
  <2>1. F = [i \in 0 .. N |-> KeptStep(q, F, i)]  BY <1>1, KeptExists
  <2>2. Unfilled(q) = F[N]  BY DEF Unfilled, KeptStep
  <2> QED  BY <2>1, <2>2
<1>3. /\ Volume(q) = Ahead(q, N + 1) /\ Ahead(q, 1) = 0
      /\ \A i \in 1 .. N : Ahead(q, i + 1) = Ahead(q, i) + q[i].rem
      /\ \A i \in 1 .. N + 1 : Ahead(q, i) \in Nat
  BY AheadFacts
<1> HIDE DEF N
<1> DEFINE Good(i) == f[i] \in Seq(Resting) /\ Volume(f[i]) = Ahead(q, i + 1)
           B == {i \in 0 .. N : ~Good(i)}
<1>4. ASSUME B # {} PROVE FALSE
  <2>1. PICK k \in B : \A m \in B : k <= m
    <3>1. B \in SUBSET Nat  BY <1>1
    <3>2. Min(B) \in B /\ \A m \in B : Min(B) <= m  BY <1>4, <3>1, Least
    <3> QED  BY <3>2
  <2>2. CASE k = 0
    <3>1. f[k] = <<>>  BY <1>1, <1>2, <2>2 DEF KeptStep
    <3>2. <<>> \in Seq(Resting) /\ Len(<<>>) = 0  OBVIOUS
    <3>3. Volume(<<>>) = 0
      <4>1. Volume(<<>>) = Ahead(<<>>, 0 + 1) /\ Ahead(<<>>, 1) = 0  BY <3>2, AheadFacts
      <4> QED  BY <4>1
    <3>4. Good(k)  BY <1>3, <2>2, <3>1, <3>2, <3>3
    <3> QED  BY <2>1, <3>4
  <2>3. CASE k # 0
    <3>1. k \in 1 .. N /\ k \in 0 .. N /\ k - 1 \in 0 .. N /\ ~(k <= k - 1) /\ (k - 1) + 1 = k
          /\ k \in 1 .. N + 1
      BY <1>1, <2>1, <2>3
    <3>2. f[k - 1] \in Seq(Resting) /\ Volume(f[k - 1]) = Ahead(q, k)
      <4>1. Good(k - 1)  BY <2>1, <3>1
      <4> QED  BY <3>1, <4>1
    <3>3. f[k] = IF q[k].rem > 0 THEN Append(f[k - 1], q[k]) ELSE f[k - 1]
      BY <1>2, <2>3, <3>1 DEF KeptStep
    <3>4. Ahead(q, k + 1) = Ahead(q, k) + q[k].rem /\ Ahead(q, k) \in Nat /\ q[k].rem \in Nat
      BY <1>1, <1>3, <3>1
    <3>5. CASE q[k].rem > 0
      <4>1. f[k] = Append(f[k - 1], q[k]) /\ q[k] \in Resting  BY <1>1, <3>1, <3>3, <3>5
      <4>2. f[k] \in Seq(Resting) /\ Volume(f[k]) = Volume(f[k - 1]) + q[k].rem
        BY <3>2, <4>1, VolumeAppend
      <4>3. Good(k)  BY <3>2, <3>4, <4>2
      <4> QED  BY <2>1, <4>3
    <3>6. CASE ~(q[k].rem > 0)
      <4>1. f[k] = f[k - 1] /\ q[k].rem = 0  BY <3>3, <3>4, <3>6
      <4>2. Ahead(q, k + 1) = Ahead(q, k)  BY <3>4, <4>1
      <4>3. Good(k)  BY <3>2, <4>1, <4>2
      <4> QED  BY <2>1, <4>3
    <3> QED  BY <3>5, <3>6
  <2> QED  BY <2>2, <2>3
<1>5. N \in 0 .. N  BY <1>1
<1>6. Good(N)  BY <1>4, <1>5
<1> QED  BY <1>2, <1>3, <1>6


\* A total is the sum, but for what has gone over the top.
Congruent(l) == \E k \in Int : Volume(l.orders) = l.total + k * 2^Width

LevelsInv ==
    /\ IsFiniteSet(DOMAIN levels) /\ DOMAIN levels \subseteq Int
    /\ \A p \in DOMAIN levels : levels[p] \in Level /\ Congruent(levels[p])

LEMMA PlusMinusFacts ==
    ASSUME NEW a \in Quantities, NEW b \in Quantities
    PROVE  /\ Qty!Plus(a, b) \in Quantities /\ Qty!Plus(a, b) \in {a + b, a + b - 2^Width}
           /\ Qty!Minus(a, b) \in Quantities /\ Qty!Minus(a, b) \in {a - b, a - b + 2^Width}
<1> DEFINE M == 2^Width
<1>1. M \in Nat \ {0}  BY Powers
<1>2. a \in 0 .. M - 1 /\ b \in 0 .. M - 1 /\ Quantities = 0 .. M - 1  BY DEF Quantities
<1>3. Qty!Plus(a, b) = (a + b) % M /\ Qty!Minus(a, b) = (a - b) % M
  BY DEF Qty!Plus, Qty!Minus
<1> HIDE DEF M
<1>4. (a + b) % M \in 0 .. M - 1 /\ (a - b) % M \in 0 .. M - 1
  BY <1>1, <1>2
<1>5. (a + b) % M \in {a + b, a + b - M}
  <2>1. CASE a + b < M
    <3>1. (a + b) % M = a + b  BY <1>1, <1>2, <2>1
    <3> QED  BY <3>1
  <2>2. CASE ~(a + b < M)
    <3>1. PICK x : x = a + b - M  OBVIOUS
    <3>2. x \in 0 .. M - 1 /\ a + b = x + M  BY <1>1, <1>2, <2>2, <3>1
    <3>3. (x + M) % M = x  BY <1>1, <3>2
    <3> QED  BY <3>1, <3>2, <3>3
  <2> QED  BY <2>1, <2>2
<1>6. (a - b) % M \in {a - b, a - b + M}
  <2>1. CASE a >= b
    <3>1. a - b \in 0 .. M - 1  BY <1>1, <1>2, <2>1
    <3>2. (a - b) % M = a - b  BY <1>1, <3>1
    <3> QED  BY <3>2
  <2>2. CASE ~(a >= b)
    <3>1. PICK x : x = a - b + M  OBVIOUS
    <3>2. x \in 0 .. M - 1 /\ a - b = x - M  BY <1>1, <1>2, <2>2, <3>1
    <3>3. (x - M) % M = x  BY <1>1, <3>2
    <3> QED  BY <3>1, <3>2, <3>3
  <2> QED  BY <2>1, <2>2
<1> QED  BY <1>2, <1>3, <1>4, <1>5, <1>6 DEF M

\* Two quantities that differ by a multiple of 2^Width are the same.
LEMMA Fits ==
    ASSUME NEW l \in Level, Congruent(l), Volume(l.orders) \in Quantities
    PROVE  l.total = Volume(l.orders)
<1> DEFINE M == 2^Width
           v == Volume(l.orders)
           t == l.total
<1>1. PICK k \in Int : v = t + k * M  BY DEF Congruent
<1>2. M \in Nat \ {0} /\ v \in 0 .. M - 1 /\ t \in 0 .. M - 1
  <2>1. t \in Quantities  BY DEF Level
  <2> QED  BY <2>1, Powers DEF Quantities
<1> HIDE DEF M, v, t
<1>3. k >= 1 => k * M >= M
  <2> SUFFICES ASSUME k >= 1 PROVE k * M >= M
    OBVIOUS
  <2>1. k - 1 \in Nat /\ k * M = M + (k - 1) * M  BY <1>2
  <2>2. \A a, b \in Nat : a * b \in Nat  OBVIOUS
  <2>3. (k - 1) * M \in Nat  BY <1>2, <2>1, <2>2
  <2> QED  BY <1>2, <2>1, <2>3
<1>4. k <= -1 => k * M <= -M
  <2> SUFFICES ASSUME k <= -1 PROVE k * M <= -M
    OBVIOUS
  <2>1. -k - 1 \in Nat /\ k * M = -M - (-k - 1) * M  BY <1>2
  <2>2. \A a, b \in Nat : a * b \in Nat  OBVIOUS
  <2>3. (-k - 1) * M \in Nat  BY <1>2, <2>1, <2>2
  <2> QED  BY <1>2, <2>1, <2>3
<1>5. k = 0
  <2>1. k * M \in Int  BY <1>2
  <2>2. ~(k >= 1) /\ ~(k <= -1)  BY <1>1, <1>2, <1>3, <1>4, <2>1
  <2> QED  BY <2>2
<1>6. v = t  BY <1>1, <1>2, <1>5
<1> QED  BY <1>6 DEF v, t

LEMMA LevelFacts ==
    ASSUME NEW l \in Level
    PROVE  l.orders \in Seq(Resting) /\ l.total \in Quantities /\ Volume(l.orders) \in Nat
<1>1. l.orders \in Seq(Resting) /\ l.total \in Quantities  BY DEF Level
<1> QED  BY <1>1, AheadFacts

\* An order that rests adds its quantity to the sum and to the total.
LEMMA RestLevel ==
    ASSUME NEW l \in Level, Congruent(l), NEW o \in Resting
    PROVE  LET r == [orders |-> Append(l.orders, o), total |-> Qty!Plus(l.total, o.rem)] IN
           r \in Level /\ Congruent(r) /\ Volume(r.orders) = Volume(l.orders) + o.rem
<1> DEFINE q == Append(l.orders, o)
           n == o.rem
           t == Qty!Plus(l.total, n)
           M == 2^Width
<1>1. /\ l.orders \in Seq(Resting) /\ l.total \in Quantities /\ Volume(l.orders) \in Nat
      /\ n \in Quantities
  BY LevelFacts DEF Resting
<1>2. q \in Seq(Resting) /\ Volume(q) = Volume(l.orders) + n  BY <1>1, VolumeAppend
<1>3. t \in Quantities /\ t \in {l.total + n, l.total + n - M}  BY <1>1, PlusMinusFacts
<1>4. PICK k \in Int : Volume(l.orders) = l.total + k * M  BY DEF Congruent
<1>5. M \in Nat /\ l.total \in Nat /\ n \in Nat /\ t \in Nat  BY <1>1, <1>3, Powers
<1> HIDE DEF q, t, M, n
<1>6. \E j \in Int : Volume(q) = t + j * M
  <2>1. k * M \in Int /\ (k + 1) * M = k * M + M /\ k + 1 \in Int  BY <1>5
  <2>2. CASE t = l.total + n
    <3>1. Volume(q) = t + k * M  BY <1>2, <1>4, <1>5, <2>1, <2>2
    <3> QED  BY <3>1
  <2>3. CASE t = l.total + n - M
    <3>1. Volume(q) = t + (k * M + M)  BY <1>2, <1>4, <1>5, <2>1, <2>3
    <3>2. Volume(q) = t + (k + 1) * M  BY <2>1, <3>1
    <3> QED  BY <2>1, <3>2
  <2> QED  BY <1>3, <2>2, <2>3
<1> DEFINE r == [orders |-> q, total |-> t]
<1>7. r \in Level /\ r.orders = q /\ r.total = t  BY <1>2, <1>3 DEF Level
<1> HIDE DEF r
<1>8. Congruent(r)  BY <1>6, <1>7 DEF Congruent, M
<1>9. r \in Level /\ Congruent(r) /\ Volume(r.orders) = Volume(l.orders) + n  BY <1>2, <1>7, <1>8
<1> QED  BY <1>9 DEF r, q, t, n

\* A match takes as much from the total as from the orders together.
LEMMA MatchLevel ==
    ASSUME NEW l \in Level, Congruent(l), NEW n \in Quantities
    PROVE  /\ Matched(l, n) \in Level /\ Congruent(Matched(l, n))
           /\ Taken(l.orders, n) \in Nat /\ Taken(l.orders, n) <= Volume(l.orders)
           /\ Volume(Matched(l, n).orders) = Volume(l.orders) - Taken(l.orders, n)
<1> DEFINE a == After(l.orders, n)
           q == Unfilled(a)
           x == Taken(l.orders, n)
           t == Qty!Minus(l.total, x)
           M == 2^Width
<1>1. l.orders \in Seq(Resting) /\ l.total \in Quantities /\ Volume(l.orders) \in Nat /\ n \in Nat
  BY LevelFacts, Powers
<1>2. /\ a \in Seq(Resting) /\ x \in Nat /\ x <= n /\ x <= Volume(l.orders)
      /\ Volume(a) = Volume(l.orders) - x
  BY <1>1, AfterFacts
<1> HIDE DEF a, x
<1>3. q \in Seq(Resting) /\ Volume(q) = Volume(l.orders) - x  BY <1>2, UnfilledFacts
<1>4. x \in Quantities  BY <1>2, Powers
<1>5. t \in Quantities /\ t \in {l.total - x, l.total - x + M}  BY <1>1, <1>4, PlusMinusFacts
<1>6. PICK k \in Int : Volume(l.orders) = l.total + k * M  BY DEF Congruent
<1>7. M \in Nat /\ l.total \in Nat /\ t \in Nat  BY <1>1, <1>5, Powers
<1> HIDE DEF q, t, M
<1>8. \E j \in Int : Volume(q) = t + j * M
  <2>1. k * M \in Int /\ (k - 1) * M = k * M - M /\ k - 1 \in Int  BY <1>7
  <2>2. CASE t = l.total - x
    <3>1. Volume(q) = t + k * M  BY <1>2, <1>3, <1>6, <1>7, <2>1, <2>2
    <3> QED  BY <3>1
  <2>3. CASE t = l.total - x + M
    <3>1. Volume(q) = t + (k * M - M)  BY <1>2, <1>3, <1>6, <1>7, <2>1, <2>3
    <3>2. Volume(q) = t + (k - 1) * M  BY <2>1, <3>1
    <3> QED  BY <2>1, <3>2
  <2> QED  BY <1>5, <2>2, <2>3
<1> DEFINE r == [orders |-> q, total |-> t]
<1>9. r \in Level /\ r.orders = q /\ r.total = t  BY <1>3, <1>5 DEF Level
<1>10. Matched(l, n) = r  BY DEF Matched, q, a, t, x
<1> HIDE DEF r
<1>11. Congruent(r)  BY <1>8, <1>9 DEF Congruent, M
<1> QED  BY <1>2, <1>3, <1>9, <1>10, <1>11 DEF x


-----------------------------------------------------------------------------
(* The conversions: doubles that are off by half a unit of their last bit  *)

\* What the prover is told of products, and of quotients in terms of them.
LEMMA Products ==
    ASSUME NEW a \in Nat, NEW b \in Nat, NEW c \in Nat
    PROVE  /\ a * c \in Nat /\ a * c = c * a
           /\ a <= b => a * c <= b * c
           /\ a < b /\ c > 0 => a * c < b * c
<1>1. \A x, y \in Nat : x * y \in Nat /\ x * y = y * x  OBVIOUS
<1>2. ASSUME a <= b PROVE a * c <= b * c
  <2>1. PICK d \in Nat : b = a + d
    <3>1. b - a \in Nat /\ b = a + (b - a)  BY <1>2
    <3> QED  BY <3>1
  <2>2. b * c = a * c + d * c  BY <2>1
  <2>3. a * c \in Nat /\ d * c \in Nat  BY <1>1
  <2> QED  BY <2>2, <2>3
<1>3. ASSUME a < b, c > 0 PROVE a * c < b * c
  <2>1. PICK d \in Nat : b = a + 1 + d
    <3>1. b - a - 1 \in Nat /\ b = a + 1 + (b - a - 1)  BY <1>3
    <3> QED  BY <3>1
  <2>2. b * c = a * c + c + d * c  BY <2>1
  <2>3. a * c \in Nat /\ d * c \in Nat  BY <1>1
  <2> QED  BY <1>3, <2>2, <2>3
<1> QED  BY <1>1, <1>2, <1>3

LEMMA DivFacts ==
    ASSUME NEW a \in Nat, NEW b \in Nat \ {0}
    PROVE  /\ a \div b \in Nat /\ a % b \in 0 .. b - 1 /\ a = (a \div b) * b + (a % b)
           /\ \A c \in Nat : /\ c * b <= a => c <= a \div b
                             /\ a < c * b => a \div b < c
<1> DEFINE q == a \div b
           r == a % b
<1>1. q \in Nat /\ r \in 0 .. b - 1 /\ a = q * b + r  OBVIOUS
<1> HIDE DEF q, r
<1>2. ASSUME NEW c \in Nat, c * b <= a PROVE c <= q
  <2>1. SUFFICES ASSUME q + 1 <= c PROVE FALSE  BY <1>1
  <2>2. (q + 1) * b <= c * b
    <3>1. q + 1 \in Nat  BY <1>1
    <3> QED  BY <2>1, <3>1, Products
  <2>3. (q + 1) * b = q * b + b  BY <1>1
  <2>4. q * b \in Nat /\ c * b \in Nat  BY <1>1, Products
  <2> QED  BY <1>1, <1>2, <2>2, <2>3, <2>4
<1>3. ASSUME NEW c \in Nat, a < c * b PROVE q < c
  <2>1. SUFFICES ASSUME c <= q PROVE FALSE  BY <1>1
  <2>2. c * b <= q * b  BY <1>1, <2>1, Products
  <2>4. q * b \in Nat /\ c * b \in Nat  BY <1>1, Products
  <2> QED  BY <1>1, <1>3, <2>2, <2>4
<1>4. q \in Nat /\ r \in 0 .. b - 1 /\ a = q * b + r
      /\ \A c \in Nat : (c * b <= a => c <= q) /\ (a < c * b => q < c)
  BY <1>1, <1>2, <1>3
<1> QED  BY <1>4 DEF q, r

\* Nearest is off by half at most, and loses no integer.
LEMMA NearestFacts ==
    ASSUME NEW a \in Nat, NEW b \in Nat \ {0}
    PROVE  \E q \in Nat : /\ q = Price!Nearest(a, b)
                         /\ 2 * (q * b) <= 2 * a + b /\ 2 * a <= 2 * (q * b) + b
                         /\ \A c \in Nat : c * b <= a => c <= q
<1> DEFINE d == a \div b
           r == a % b
           q == Price!Nearest(a, b)
<1>1. d \in Nat /\ r \in 0 .. b - 1 /\ a = d * b + r /\ \A c \in Nat : c * b <= a => c <= d
  BY DivFacts
<1>2. \/ q = d /\ ~(2 * r > b)
      \/ q = d + 1 /\ 2 * r >= b
  BY <1>1 DEF Price!Nearest
<1> HIDE DEF d, r, q
<1>3. d * b \in Nat /\ (d + 1) * b = d * b + b
  <2>1. (d + 1) * b = d * b + b  BY <1>1
  <2> QED  BY <1>1, <2>1, Products
<1>4. q \in Nat /\ 2 * (q * b) <= 2 * a + b /\ 2 * a <= 2 * (q * b) + b /\ d <= q
  <2>1. PICK x \in Nat : x = d * b  BY <1>3
  <2>2. CASE q = d /\ ~(2 * r > b)  BY <1>1, <2>1, <2>2
  <2>3. CASE q = d + 1 /\ 2 * r >= b
    <3>1. q * b = x + b /\ a = x + r  BY <1>1, <1>3, <2>1, <2>3
    <3>2. PICK y : y = q * b  OBVIOUS
    <3>3. 2 * y <= 2 * a + b /\ 2 * a <= 2 * y + b  BY <1>1, <2>3, <3>1, <3>2
    <3> QED  BY <1>1, <2>3, <3>2, <3>3
  <2> QED  BY <1>2, <2>2, <2>3
<1>5. \A c \in Nat : c * b <= a => c <= q
  <2> TAKE c \in Nat
  <2>1. c * b <= a => c <= d  BY <1>1
  <2> QED  BY <1>1, <1>4, <2>1
<1> QED  BY <1>4, <1>5 DEF q

\* There is an exponent at which a fraction fills the significand, and Double
\* takes one.
LEMMA DoubleFacts ==
    ASSUME NEW n \in Nat \ {0}, NEW d \in Nat \ {0},
           d * 2^(Precision - 1) <= n * 2^(2 * Precision)
    PROVE  \E e \in 0 .. 2 * Precision :
               /\ d * 2^(Precision - 1) <= n * 2^e
               /\ Price!Double(n, d) = [m |-> Price!Nearest(n * 2^e, d), e |-> e]
<1> DEFINE P == 2 * Precision
           Fills(k) == n * 2^k >= d * 2^(Precision - 1)
           Fit(k) == /\ n * 2^k >= d * 2^(Precision - 1)
                     /\ k > 0 => n * 2^(k - 1) < d * 2^(Precision - 1)
           B == {k \in 0 .. P : Fills(k)}
           e == CHOOSE k \in 0 .. P : Fit(k)
<1>1. Precision \in Nat /\ P \in Nat /\ Precision - 1 \in 0 .. P
  BY NumbersAssumption
<1>2. \A k \in 0 .. P : n * 2^k \in Nat
  <2> TAKE k \in 0 .. P
  <2>1. 2^k \in Nat  BY ExponentsAssumption
  <2> QED  BY <2>1, Products
<1>3. d * 2^(Precision - 1) \in Nat
  <2>1. 2^(Precision - 1) \in Nat  BY <1>1, ExponentsAssumption
  <2> QED  BY <2>1, Products
<1>4. \E k \in 0 .. P : Fit(k)
  <2>1. P \in B
    <3>1. P \in 0 .. P  BY <1>1
    <3>2. n * 2^P \in Nat  BY <1>2, <3>1
    <3>3. Fills(P)  BY <1>3, <3>2
    <3> QED  BY <3>1, <3>3
  <2>2. PICK k \in B : \A m \in B : k <= m
    <3>1. B \in SUBSET Nat  BY <1>1
    <3>2. Min(B) \in B /\ \A m \in B : Min(B) <= m  BY <2>1, <3>1, Least
    <3> QED  BY <3>2
  <2>3. k \in 0 .. P /\ Fills(k)  BY <2>2
  <2>4. ASSUME k > 0 PROVE n * 2^(k - 1) < d * 2^(Precision - 1)
    <3>1. k - 1 \in 0 .. P /\ ~(k <= k - 1)  BY <1>1, <2>3, <2>4
    <3>2. ~Fills(k - 1)  BY <2>2, <3>1
    <3>3. PICK x : x = n * 2^(k - 1)  OBVIOUS
    <3>4. PICK y : y = d * 2^(Precision - 1)  OBVIOUS
    <3>5. x \in Nat /\ y \in Nat /\ ~(x >= y)  BY <1>2, <1>3, <3>1, <3>2, <3>3, <3>4
    <3>6. x < y  BY <3>5
    <3> QED  BY <3>3, <3>4, <3>6
  <2> QED  BY <2>3, <2>4
<1>5. e \in 0 .. P /\ Fit(e)
  BY <1>4
<1>6. Price!Double(n, d) = [m |-> Price!WithSign(n, Price!Nearest(Price!Abs(n) * 2^(CHOOSE k \in 0 .. 2 * Precision :
                     /\ Price!Abs(n) * 2^k >= d * 2^(Precision - 1)
                     /\ k > 0 => Price!Abs(n) * 2^(k - 1) < d * 2^(Precision - 1)), d)), e |->
                     CHOOSE k \in 0 .. 2 * Precision :
                     /\ Price!Abs(n) * 2^k >= d * 2^(Precision - 1)
                     /\ k > 0 => Price!Abs(n) * 2^(k - 1) < d * 2^(Precision - 1)]
  BY DEF Price!Double
<1>7. Price!Abs(n) = n /\ \A x : Price!WithSign(n, x) = x
  BY DEF Price!Abs, Price!WithSign
<1>8. Price!Double(n, d) = [m |-> Price!Nearest(n * 2^e, d), e |-> e]
  BY <1>6, <1>7
<1>9. PICK x : x = e  OBVIOUS
<1>10. d * 2^(Precision - 1) <= n * 2^x
  <2>1. n * 2^x >= d * 2^(Precision - 1)  BY <1>5, <1>9
  <2>2. n * 2^x \in Nat  BY <1>2, <1>5, <1>9
  <2> HIDE DEF e
  <2>3. PICK v : v = n * 2^x  OBVIOUS
  <2>4. PICK y : y = d * 2^(Precision - 1)  OBVIOUS
  <2>5. v >= y /\ v \in Nat /\ y \in Nat  BY <1>3, <2>1, <2>2, <2>3, <2>4
  <2>6. y <= v  BY <2>5
  <2> QED  BY <2>3, <2>4, <2>6
<1> QED  BY <1>5, <1>8, <1>9, <1>10


\* A number's way into a double and out of it again, for a scale s.
Back(s, t) == Price!Truncated(Price!Double(Price!Double(t, s).m * s, 2^Price!Double(t, s).e))

\* Half a unit lost twice, in units that are small enough: less than one in all.
LEMMA Halves ==
    ASSUME NEW t \in Nat \ {0}, NEW s \in Nat, NEW A \in Nat \ {0}, NEW K \in Nat \ {0},
           NEW X \in Nat, NEW y \in Nat, s < A,
           2 * X <= 2 * (t * A) + s, 2 * (t * A) <= 2 * X + s,
           2 * (y * A) <= 2 * (X * K) + A, 2 * (X * K) <= 2 * (y * A) + A
    PROVE  (t - 1) * K <= y /\ y < (t + 1) * K
<1>1. /\ \A p, q \in Nat : (2 * p + q) * K = 2 * (p * K) + q * K
      /\ \A p \in Nat : (2 * p) * K = 2 * (p * K)
  OBVIOUS
<1>2. t * A \in Nat /\ t - 1 \in Nat /\ t + 1 \in Nat /\ t \in Nat /\ A \in Nat /\ K \in Nat
  BY Products
<1>3. PICK p \in Nat : p = t * A  BY <1>2
<1>4. 2 * X <= 2 * p + s /\ 2 * p <= 2 * X + s  BY <1>3
<1>5. 2 * (X * K) <= 2 * (p * K) + s * K
  <2>1. 2 * X \in Nat /\ 2 * p + s \in Nat  OBVIOUS
  <2>2. (2 * X) * K <= (2 * p + s) * K  BY <1>2, <1>4, <2>1, Products
  <2> QED  BY <1>1, <2>2
<1>6. 2 * (p * K) <= 2 * (X * K) + s * K
  <2>1. 2 * p \in Nat /\ 2 * X + s \in Nat  OBVIOUS
  <2>2. (2 * p) * K <= (2 * X + s) * K  BY <1>2, <1>4, <2>1, Products
  <2> QED  BY <1>1, <2>2
<1>7. PICK u \in Nat : u = p * K  BY <1>2, Products
<1>8. PICK v \in Nat : v = s * K  BY <1>2, Products
<1>9. PICK w \in Nat : w = A * K  BY <1>2, Products
<1>10. PICK g \in Nat : g = X * K  BY <1>2, Products
<1>11. PICK z \in Nat : z = y * A  BY <1>2, Products
<1>12. v < w  BY <1>2, <1>8, <1>9, Products
<1>13. A <= w
  <2>1. 1 * A <= K * A  BY <1>2, Products
  <2>2. K * A = A * K  BY <1>2, Products
  <2> QED  BY <1>9, <2>1, <2>2
<1>14. 2 * g <= 2 * u + v /\ 2 * u <= 2 * g + v /\ 2 * z <= 2 * g + A /\ 2 * g <= 2 * z + A
  BY <1>5, <1>6, <1>7, <1>8, <1>10, <1>11
<1>15. z < u + w /\ u < z + w
  BY <1>12, <1>13, <1>14
<1>16. ((t + 1) * K) * A = u + w /\ ((t - 1) * K) * A + w = u
  <2>1. ((t + 1) * K) * A = (t * A) * K + A * K  BY <1>2
  <2>2. ((t - 1) * K) * A + A * K = (t * A) * K  BY <1>2
  <2> QED  BY <1>3, <1>7, <1>9, <2>1, <2>2
<1>17. (t + 1) * K \in Nat /\ (t - 1) * K \in Nat  BY <1>2, Products
<1>18. PICK c \in Nat : c = (t + 1) * K  BY <1>17
<1>19. PICK b \in Nat : b = (t - 1) * K  BY <1>17
<1>20. ASSUME c <= y PROVE FALSE
  <2>1. c * A <= y * A  BY <1>2, <1>20, Products
  <2>2. u + w <= z  BY <1>11, <1>16, <1>18, <2>1
  <2> QED  BY <1>15, <2>2
<1>21. ASSUME y < b PROVE FALSE
  <2>1. y * A < b * A  BY <1>2, <1>21, Products
  <2>2. z + w < u
    <3>1. PICK r : r = b * A  OBVIOUS
    <3>2. z < r /\ r + w = u /\ r \in Nat  BY <1>2, <1>11, <1>16, <1>19, <2>1, <3>1, Products
    <3> QED  BY <3>2
  <2> QED  BY <1>15, <2>2
<1>22. b <= y /\ y < c  BY <1>20, <1>21
<1> QED  BY <1>18, <1>19, <1>22

\* A number that a double has a bit to spare for comes back, or one less.
LEMMA BackFacts ==
    ASSUME NEW s \in {PriceScale, QtyScale}, NEW t \in Nat, t < 2^(Precision - 1)
    PROVE  Back(s, t) \in Nat /\ AtOrBelow(Back(s, t), t)
<1> DEFINE H == 2^(Precision - 1)
           Z == 2^(2 * Precision)
           D == Price!Double(t, s)
           F == Price!Double(D.m * s, 2^D.e)
<1>1. /\ Precision - 1 \in 0 .. 2 * Precision /\ 0 \in 0 .. 2 * Precision
      /\ 2 * Precision \in 0 .. 2 * Precision /\ s \in Nat \ {0}
  BY NumbersAssumption
<1>2. H \in Nat \ {0} /\ Z \in Nat \ {0} /\ 2^0 \in Nat \ {0} /\ s * H <= Z
  BY <1>1, ExponentsAssumption
<1>3. Back(s, t) = Price!Truncated(F)  BY DEF Back
<1>4. \A k \in Nat, x \in Nat : Price!Truncated([m |-> x, e |-> k]) = x \div 2^k
  BY DEF Price!Truncated, Price!Abs, Price!WithSign
<1> HIDE DEF H, Z
<1>5. CASE t = 0
  <2>1. \A d : Price!Double(0, d) = [m |-> 0, e |-> 0]  BY DEF Price!Double
  <2>2. D = [m |-> 0, e |-> 0]  BY <1>5, <2>1
  <2>3. D.m * s = 0  BY <1>1, <2>2
  <2>4. F = [m |-> 0, e |-> 0]  BY <2>1, <2>3
  <2>5. Back(s, t) = 0 \div 2^0  BY <1>3, <1>4, <2>4
  <2>6. 0 \div 2^0 \in Nat /\ 0 \div 2^0 < 1
    <3>1. PICK a \in Nat \ {0} : a = 2^0  BY <1>2
    <3>2. 0 \in Nat /\ 1 \in Nat /\ 0 < 1 * a  BY <3>1
    <3>3. 0 \div a \in Nat /\ 0 \div a < 1  BY <3>2, DivFacts
    <3> QED  BY <3>1, <3>3
  <2>7. 0 \div 2^0 = 0
    <3>1. PICK x : x = 0 \div 2^0  OBVIOUS
    <3>2. x \in Nat /\ x < 1  BY <2>6, <3>1
    <3> QED  BY <3>1, <3>2
  <2> QED  BY <1>5, <2>5, <2>7 DEF AtOrBelow
<1>6. CASE t # 0
  <2>1. s * H <= t * Z
    <3>1. 1 * Z <= t * Z  BY <1>2, <1>6, Products
    <3>2. PICK x \in Nat : x = t * Z  BY <1>2, Products
    <3>3. PICK r \in Nat : r = s * H  BY <1>1, <1>2, Products
    <3> QED  BY <1>2, <3>1, <3>2, <3>3
  <2>2. PICK e \in 0 .. 2 * Precision :
            s * H <= t * 2^e /\ D = [m |-> Price!Nearest(t * 2^e, s), e |-> e]
    BY <1>1, <1>6, <2>1, DoubleFacts DEF H, Z
  <2>3. PICK A \in Nat \ {0} : A = 2^e /\ A <= Z  BY ExponentsAssumption DEF Z
  <2>4. PICK M \in Nat : /\ M = Price!Nearest(t * A, s)
                         /\ 2 * (M * s) <= 2 * (t * A) + s /\ 2 * (t * A) <= 2 * (M * s) + s
                         /\ \A c \in Nat : c * s <= t * A => c <= M
    <3>1. t * A \in Nat  BY <2>3, Products
    <3> QED  BY <1>1, <3>1, NearestFacts
  <2>5. H <= M
    <3>1. H * s = s * H  BY <1>1, <1>2, Products
    <3> QED  BY <1>2, <2>2, <2>3, <2>4, <3>1
  <2>6. s < A
    <3> SUFFICES ASSUME A <= s PROVE FALSE
      BY <1>1, <2>3
    <3>1. A * H <= s * H  BY <1>1, <1>2, <2>3, Products
    <3>2. t * A < H * A
      <4>1. t < H  BY DEF H
      <4> QED  BY <1>2, <2>3, <4>1, Products
    <3>3. H * A = A * H  BY <1>2, <2>3, Products
    <3>4. PICK x \in Nat : x = t * A  BY <2>3, Products
    <3>5. PICK r \in Nat : r = s * H  BY <1>1, <1>2, Products
    <3>6. PICK q \in Nat : q = A * H  BY <1>2, <2>3, Products
    <3>7. q <= r /\ r <= x /\ x < q  BY <2>2, <2>3, <3>1, <3>2, <3>3, <3>4, <3>5, <3>6
    <3> QED  BY <3>7
  <2>7. PICK X \in Nat : X = M * s /\ M <= X
    <3>1. M * s \in Nat  BY <1>1, Products
    <3>2. 1 * M <= s * M /\ s * M = M * s  BY <1>1, Products
    <3>3. M <= M * s  BY <3>2
    <3> QED  BY <3>1, <3>3
  <2>8. X \in Nat \ {0}
    <3>1. M >= 1  BY <1>2, <2>5
    <3> QED  BY <2>7, <3>1
  <2>9. A * H <= X * Z
    <3>1. A * H <= Z * H  BY <1>2, <2>3, Products
    <3>2. H <= X  BY <1>2, <2>5, <2>7
    <3>3. H * Z <= X * Z /\ H * Z = Z * H  BY <1>2, <3>2, Products
    <3>4. PICK x \in Nat : x = X * Z  BY <1>2, Products
    <3>5. PICK r \in Nat : r = Z * H  BY <1>2, Products
    <3>6. PICK q \in Nat : q = A * H  BY <1>2, <2>3, Products
    <3>7. q <= r /\ r <= x  BY <3>1, <3>3, <3>4, <3>5, <3>6
    <3>8. q <= x  BY <3>7
    <3> QED  BY <3>4, <3>6, <3>8
  <2>10. F = Price!Double(X, A)
    <3>1. D.m = M /\ D.e = e  BY <2>2, <2>3, <2>4
    <3> QED  BY <2>3, <2>7, <3>1
  <2>11. PICK k \in 0 .. 2 * Precision : F = [m |-> Price!Nearest(X * 2^k, A), e |-> k]
    BY <2>3, <2>8, <2>9, <2>10, DoubleFacts DEF H, Z
  <2>12. PICK K \in Nat \ {0} : K = 2^k  BY ExponentsAssumption
  <2>13. PICK y \in Nat : /\ y = Price!Nearest(X * K, A)
                          /\ 2 * (y * A) <= 2 * (X * K) + A /\ 2 * (X * K) <= 2 * (y * A) + A
    <3>1. X * K \in Nat  BY <2>12, Products
    <3> QED  BY <2>3, <3>1, NearestFacts
  <2>14. (t - 1) * K <= y /\ y < (t + 1) * K
    <3>1. 2 * X <= 2 * (t * A) + s /\ 2 * (t * A) <= 2 * X + s  BY <2>4, <2>7
    <3> QED  BY <1>1, <1>6, <2>3, <2>6, <2>12, <2>13, <3>1, Halves
  <2>15. Back(s, t) = y \div K
    <3>1. k \in Nat /\ F = [m |-> y, e |-> k]  BY <2>11, <2>12, <2>13
    <3> QED  BY <1>3, <1>4, <2>12, <3>1
  <2>16. y \div K \in Nat /\ t - 1 <= y \div K /\ y \div K < t + 1
    <3>1. t - 1 \in Nat /\ t + 1 \in Nat  BY <1>6
    <3> QED  BY <2>12, <2>14, <3>1, DivFacts
  <2>17. PICK x : x = y \div K  OBVIOUS
  <2>18. x \in Nat /\ x \in {t - 1, t}  BY <2>16, <2>17
  <2> QED  BY <2>15, <2>17, <2>18 DEF AtOrBelow
<1> QED  BY <1>5, <1>6

\* What becomes of a message's numbers.
LEMMA Conversions ==
    ASSUME NEW m \in Messages, m.faults = {}
    PROVE  /\ RawPrice(m) \in Nat /\ RawPrice(m) = Back(PriceScale, m.ticks)
           /\ AtOrBelow(RawPrice(m), m.ticks)
           /\ m.units \in Quantities => RawQty(m) <= m.units
<1>1. m.ticks \in Nat /\ m.ticks < 2^(Precision - 1)  BY MessagesAssumption, RangeAssumption
<1>2. RawPrice(m) = Back(PriceScale, m.ticks)
  BY DEF RawPrice, Back, Price!Scaled
<1>3. ASSUME m.units \in Quantities PROVE RawQty(m) <= m.units
  <2> DEFINE n == Back(QtyScale, m.units)
             M == 2^Width
  <2>1. m.units \in Nat /\ m.units < 2^(Precision - 1) /\ m.units < M
    <3>1. m.units < 2^(Precision - 1)  BY <1>3, RangeAssumption
    <3>2. m.units \in 0 .. M - 1 /\ M \in Nat  BY <1>3, Powers DEF Quantities
    <3> QED  BY <3>1, <3>2
  <2>2. n \in Nat /\ AtOrBelow(n, m.units)  BY <2>1, BackFacts
  <2>3. RawQty(m) = Qty!ToUnsigned(n)
    <3>1. \A a, b : Qty!Nearest(a, b) = Price!Nearest(a, b)
      BY DEF Qty!Nearest, Price!Nearest
    <3>2. \A a : Qty!Abs(a) = Price!Abs(a) /\ \A b : Qty!WithSign(a, b) = Price!WithSign(a, b)
      BY DEF Qty!Abs, Price!Abs, Qty!WithSign, Price!WithSign
    <3>3. \A a, b : Qty!Double(a, b) = Price!Double(a, b)
      BY <3>1, <3>2 DEF Qty!Double, Price!Double
    <3>4. \A x : Qty!Truncated(x) = Price!Truncated(x)
      BY <3>2 DEF Qty!Truncated, Price!Truncated
    <3> QED  BY <3>3, <3>4 DEF RawQty, Back, Qty!Scaled
  <2> HIDE DEF n
  <2>4. n <= m.units /\ n < M /\ M \in Nat \ {0}
    BY <2>1, <2>2, Powers DEF AtOrBelow
  <2>5. 2^(Width - 1) \in Nat  BY NumbersAssumption
  <2>6. Qty!ToUnsigned(n) = n
    <3>1. Qty!ToUnsigned(n) = IF n >= M THEN 0 ELSE IF n >= -(2^(Width - 1)) THEN n % M ELSE 2^(Width - 1)
      BY DEF Qty!ToUnsigned
    <3> HIDE DEF M
    <3>2. PICK h : h = 2^(Width - 1)  OBVIOUS
    <3>3. h \in Nat /\ Qty!ToUnsigned(n) = IF n >= M THEN 0 ELSE IF n >= -h THEN n % M ELSE h
      BY <2>5, <3>1, <3>2
    <3>4. ~(n >= M) /\ n >= -h  BY <2>2, <2>4, <3>3
    <3>5. n % M = n  BY <2>2, <2>4
    <3> QED  BY <3>3, <3>4, <3>5
  <2> QED  BY <2>3, <2>4, <2>6
<1> QED  BY <1>1, <1>2, <1>3, BackFacts

-----------------------------------------------------------------------------
(* The book                                                                *)

BookInv == up \in BOOLEAN /\ traded \in Nat /\ LevelsInv

LEMMA VolumesFacts ==
    ASSUME LevelsInv
    PROVE  /\ DOMAIN Volumes = DOMAIN levels
           /\ \A p \in DOMAIN levels : /\ Volumes[p] = Volume(levels[p].orders)
                                        /\ Volumes[p] \in Nat /\ Volumes[p] \in Int /\ Volumes[p] >= 0
           /\ \A S \in SUBSET DOMAIN levels : IsFiniteSet(S) /\ SumFunctionOnSet(Volumes, S) \in Nat
           /\ BookVolume = SumFunctionOnSet(Volumes, DOMAIN levels)
<1>1. DOMAIN Volumes = DOMAIN levels /\ \A p \in DOMAIN levels : Volumes[p] = Volume(levels[p].orders)
  BY DEF Volumes
<1>2. ASSUME NEW p \in DOMAIN levels
      PROVE  Volumes[p] \in Nat /\ Volumes[p] \in Int /\ Volumes[p] >= 0
  <2>1. Volumes[p] \in Nat  BY <1>1, LevelFacts DEF LevelsInv
  <2> QED  BY <2>1
<1>3. ASSUME NEW S \in SUBSET DOMAIN levels
      PROVE  IsFiniteSet(S) /\ SumFunctionOnSet(Volumes, S) \in Nat
  <2>1. IsFiniteSet(S)  BY FS_Subset DEF LevelsInv
  <2>2. \A p \in S : Volumes[p] \in Int /\ Volumes[p] >= 0  BY <1>2
  <2>3. SumFunctionOnSet(Volumes, S) \in Int /\ SumFunctionOnSet(Volumes, S) >= 0
    BY <2>1, <2>2, SumFacts
  <2> QED  BY <2>1, <2>3
<1>4. BookVolume = SumFunctionOnSet(Volumes, DOMAIN levels)  BY <1>1 DEF BookVolume, SumFunction
<1> QED  BY <1>1, <1>2, <1>3, <1>4

\* What the taker still wants when it comes to a level is a quantity.
LEMMA VisitedFacts ==
    ASSUME LevelsInv, NEW n \in Quantities, NEW p \in Visited(n)
    PROVE  LET x == Taken(levels[p].orders, n - Better(p)) IN
           /\ p \in DOMAIN levels /\ levels[p] \in Level
           /\ AfterMatch(p, n) \in Level /\ Congruent(AfterMatch(p, n))
           /\ x \in Nat /\ x <= Volume(levels[p].orders)
           /\ Volume(AfterMatch(p, n).orders) = Volume(levels[p].orders) - x
<1> DEFINE d == n - Better(p)
<1>1. p \in DOMAIN levels /\ n > Better(p)  BY DEF Visited
<1>2. Better(p) \in Nat
  <2>1. {b \in DOMAIN levels : b > p} \in SUBSET DOMAIN levels  OBVIOUS
  <2> QED  BY <2>1, VolumesFacts DEF Better
<1>3. d \in Quantities
  <2>1. n \in Nat  BY Powers
  <2>2. d \in Nat /\ d <= n  BY <1>1, <1>2, <2>1
  <2> QED  BY <2>2, Powers
<1>4. levels[p] \in Level /\ Congruent(levels[p])  BY <1>1 DEF LevelsInv
<1>5. AfterMatch(p, n) = Matched(levels[p], d)  BY DEF AfterMatch
<1> HIDE DEF d
<1>6. /\ Matched(levels[p], d) \in Level /\ Congruent(Matched(levels[p], d))
      /\ Taken(levels[p].orders, d) \in Nat /\ Taken(levels[p].orders, d) <= Volume(levels[p].orders)
      /\ Volume(Matched(levels[p], d).orders) = Volume(levels[p].orders) - Taken(levels[p].orders, d)
  BY <1>3, <1>4, MatchLevel
<1> QED  BY <1>1, <1>4, <1>5, <1>6 DEF d

TakenAt(n) == [p \in Visited(n) |-> Taken(levels[p].orders, n - Better(p))]

LEMMA TakenFacts ==
    ASSUME LevelsInv, NEW n \in Quantities
    PROVE  /\ IsFiniteSet(Visited(n)) /\ Visited(n) \subseteq DOMAIN levels
           /\ SumFunction(TakenAt(n)) = SumFunctionOnSet(TakenAt(n), Visited(n))
           /\ SumFunction(TakenAt(n)) \in Nat
           /\ \A p \in Visited(n) : TakenAt(n)[p] \in Nat
<1>1. Visited(n) \in SUBSET DOMAIN levels /\ IsFiniteSet(DOMAIN levels)  BY DEF Visited, LevelsInv
<1>2. IsFiniteSet(Visited(n))  BY <1>1, FS_Subset
<1>3. ASSUME NEW p \in Visited(n) PROVE TakenAt(n)[p] \in Nat
  BY VisitedFacts DEF TakenAt
<1>4. DOMAIN TakenAt(n) = Visited(n)  BY DEF TakenAt
<1>5. SumFunction(TakenAt(n)) = SumFunctionOnSet(TakenAt(n), Visited(n))  BY <1>4 DEF SumFunction
<1>6. \A p \in Visited(n) : TakenAt(n)[p] \in Int /\ TakenAt(n)[p] >= 0
  BY <1>3
<1>7. SumFunctionOnSet(TakenAt(n), Visited(n)) \in Int /\ SumFunctionOnSet(TakenAt(n), Visited(n)) >= 0
  BY <1>2, <1>6, SumFacts
<1> QED  BY <1>1, <1>2, <1>3, <1>5, <1>7

\* What a message makes rest.
RestOrder(m, id) == [id |-> id, ticks |-> m.ticks, units |-> m.units, rem |-> RawQty(m)]

LEMMA RestFacts ==
    ASSUME LevelsInv, NEW m \in Messages, m.faults = {}, NEW id \in Nat, Rest(m, id)
    PROVE  LET p == RawPrice(m)
               l == levels'[p]
           IN  /\ p \in Int /\ DOMAIN levels' = DOMAIN levels \cup {p}
               /\ \A b \in DOMAIN levels \ {p} : levels'[b] = levels[b]
               /\ LevelAt(p) \in Level /\ l \in Level /\ Congruent(l)
               /\ RawQty(m) \in Nat
               /\ Volume(l.orders) = Volume(LevelAt(p).orders) + RawQty(m)
<1> DEFINE p == RawPrice(m)
           n == RawQty(m)
           o == RestOrder(m, id)
           s == LevelAt(p)
           l == [orders |-> Append(s.orders, o), total |-> Qty!Plus(s.total, n)]
<1>1. p \in Int /\ n \in Quantities /\ n \in Nat
  <2>1. p \in Nat  BY Conversions
  <2>2. n \in Quantities  BY RangeAssumption
  <2> HIDE DEF p, n
  <2> QED  BY <2>1, <2>2, Powers
<1>2. m.ticks \in Nat /\ m.units \in Int  BY MessagesAssumption
<1>3. o \in Resting /\ o.rem = n  BY <1>1, <1>2 DEF Resting, RestOrder
<1>4. levels' = [b \in DOMAIN levels \cup {p} |-> IF b = p THEN l ELSE levels[b]]
  BY DEF Rest, RestOrder
<1>5. s \in Level /\ Congruent(s)
  <2>1. CASE p \in DOMAIN levels  BY <2>1 DEF LevelAt, LevelsInv
  <2>2. CASE p \notin DOMAIN levels
    <3> DEFINE e == [orders |-> <<>>, total |-> 0]
    <3>1. s = e  BY <2>2 DEF LevelAt
    <3>2. <<>> \in Seq(Resting) /\ Len(<<>>) = 0  OBVIOUS
    <3>3. e \in Level /\ e.orders = <<>> /\ e.total = 0  BY <3>2, Powers DEF Level
    <3>4. Volume(<<>>) = 0
      <4>1. Volume(<<>>) = Ahead(<<>>, 0 + 1) /\ Ahead(<<>>, 1) = 0  BY <3>2, AheadFacts
      <4> QED  BY <4>1
    <3> HIDE DEF e
    <3>5. 0 = 0 + 0 * 2^Width /\ 0 \in Int  BY Powers
    <3>6. Congruent(e)  BY <3>3, <3>4, <3>5 DEF Congruent
    <3> QED  BY <3>1, <3>3, <3>6
  <2> QED  BY <2>1, <2>2
<1> HIDE DEF s, o
<1>6. l \in Level /\ Congruent(l) /\ Volume(l.orders) = Volume(s.orders) + n
  BY <1>3, <1>5, RestLevel
<1> HIDE DEF l, p, n
<1>7. /\ DOMAIN levels' = DOMAIN levels \cup {p} /\ levels'[p] = l
      /\ \A b \in DOMAIN levels \ {p} : levels'[b] = levels[b]
  BY <1>4
<1> QED  BY <1>1, <1>5, <1>6, <1>7 DEF p, n, s

LEMMA TakeFacts ==
    ASSUME LevelsInv, NEW n \in Quantities, Take(n)
    PROVE  /\ DOMAIN levels' = DOMAIN levels \ Erased(n) /\ Erased(n) \subseteq Visited(n)
           /\ \A p \in DOMAIN levels' : levels'[p] = IF p \in Visited(n) THEN AfterMatch(p, n) ELSE levels[p]
           /\ traded' = SumFunction(TakenAt(n))
BY DEF Take, TakenAt, Erased

LEMMA BookInvStep ==
    ASSUME BookInv, IdInv, [EntryNext]_entryVars
    PROVE  BookInv'
<1>1. IsFiniteSet(DOMAIN levels) /\ DOMAIN levels \subseteq Int
      /\ \A p \in DOMAIN levels : levels[p] \in Level /\ Congruent(levels[p])
  BY DEF BookInv, LevelsInv
<1>2. ASSUME levels' = NoLevels PROVE LevelsInv'
  <2>1. DOMAIN levels' = {}  BY <1>2 DEF NoLevels
  <2> QED  BY <2>1, FS_EmptySet DEF LevelsInv
<1>3. ASSUME levels' = levels PROVE LevelsInv'
  BY <1>1, <1>3 DEF LevelsInv
<1>4. CASE HandleEvent
  <2>1. PICK m \in Messages : HandleOrder(m) \/ Crash(m)  BY <1>4 DEF HandleEvent
  <2>2. CASE Crash(m)  BY <1>2, <2>2 DEF Crash, BookInv
  <2>3. CASE HandleOrder(m) /\ NotFound
    BY <1>3, <2>3 DEF HandleOrder, NotFound, BookInv
  <2>4. CASE HandleOrder(m) /\ AddOrder(m)
    <3>1. m.faults = {}
      <4>1. m.faults \in SUBSET Faults
        BY MessagesAssumption
      <4>2. ParseOrder(m.faults).kind = "order"  BY <2>4 DEF HandleOrder
      <4> QED  BY <4>1, <4>2, BrokenAssumption, ParseOrderFacts
    <3>2. RawQty(m) \in Quantities  BY <3>1, RangeAssumption
    <3>3. up' \in BOOLEAN  BY <2>4 DEF HandleOrder, BookInv
    <3>4. CASE Rest(m, Count + 1) /\ traded' = 0
      <4>1. Count + 1 \in Nat
        <5>1. Count \in Nat  BY CountIsUpToDate
        <5> QED  BY <5>1
      <4> DEFINE p == RawPrice(m)
      <4>2. /\ p \in Int /\ DOMAIN levels' = DOMAIN levels \cup {p}
            /\ \A b \in DOMAIN levels \ {p} : levels'[b] = levels[b]
            /\ levels'[p] \in Level /\ Congruent(levels'[p])
        BY <3>1, <3>4, <4>1, RestFacts DEF BookInv
      <4> HIDE DEF p
      <4>3. IsFiniteSet(DOMAIN levels')  BY <1>1, <4>2, FS_AddElement
      <4>4. \A b \in DOMAIN levels' : levels'[b] \in Level /\ Congruent(levels'[b])
        BY <1>1, <4>2
      <4>5. LevelsInv'
        BY <1>1, <4>2, <4>3, <4>4 DEF LevelsInv, Congruent
      <4> QED  BY <3>3, <3>4, <4>5 DEF BookInv
    <3>5. CASE Take(RawQty(m))
      <4> DEFINE n == RawQty(m)
      <4>1. n \in Quantities /\ Take(n)  BY <3>2, <3>5
      <4> HIDE DEF n
      <4>2. /\ DOMAIN levels' = DOMAIN levels \ Erased(n)
            /\ \A p \in DOMAIN levels' : levels'[p] = IF p \in Visited(n) THEN AfterMatch(p, n) ELSE levels[p]
            /\ traded' = SumFunction(TakenAt(n))
        BY <4>1, TakeFacts DEF BookInv
      <4>3. traded' \in Nat  BY <4>1, <4>2, TakenFacts DEF BookInv
      <4>4. ASSUME NEW p \in DOMAIN levels' PROVE levels'[p] \in Level /\ Congruent(levels'[p])
        <5>1. CASE p \in Visited(n)
          <6>1. AfterMatch(p, n) \in Level /\ Congruent(AfterMatch(p, n))
            BY <4>1, <5>1, VisitedFacts DEF BookInv
          <6> QED  BY <4>2, <5>1, <6>1
        <5>2. CASE p \notin Visited(n)  BY <1>1, <4>2, <5>2
        <5> QED  BY <5>1, <5>2
      <4>5. IsFiniteSet(DOMAIN levels')
        <5>1. DOMAIN levels' \in SUBSET DOMAIN levels  BY <4>2
        <5> QED  BY <1>1, <5>1, FS_Subset
      <4>6. LevelsInv'  BY <1>1, <4>2, <4>4, <4>5 DEF LevelsInv, Congruent
      <4> QED  BY <3>3, <4>3, <4>6 DEF BookInv
    <3> QED  BY <2>4, <3>4, <3>5 DEF AddOrder
  <2> QED  BY <2>1, <2>2, <2>3, <2>4 DEF HandleOrder
<1>5. CASE StartAgain  BY <1>2, <1>5 DEF StartAgain, BookInv
<1>6. CASE DayPasses  BY <1>3, <1>6 DEF DayPasses, BookInv
<1>7. CASE UNCHANGED entryVars  BY <1>3, <1>7 DEF entryVars, BookInv
<1> QED  BY <1>4, <1>5, <1>6, <1>7 DEF EntryNext

\* The book of numbers stays what it is: totals are sums modulo 2^Width.
THEOREM BookInvariant == EntrySpec => []BookInv
<1>1. EntryInit => BookInv
  <2> SUFFICES ASSUME EntryInit PROVE BookInv
    OBVIOUS
  <2>1. up = TRUE /\ traded = 0 /\ DOMAIN levels = {}  BY DEF EntryInit, NoLevels
  <2>2. LevelsInv  BY <2>1, FS_EmptySet DEF LevelsInv
  <2> QED  BY <2>1, <2>2 DEF BookInv
<1>2. BookInv /\ IdInv /\ [EntryNext]_entryVars => BookInv'  BY BookInvStep
<1> QED  BY <1>1, <1>2, EntryIdInvariant, PTL DEF EntrySpec

\* A level's total is what its orders have left whenever that fits in a
\* Quantity, though the sum did not fit before (PriceLevel::add_order and
\* match_order), for every width.
THEOREM TotalsCorrect == EntrySpec => []TotalExactIfItFits
<1>1. BookInv => TotalExactIfItFits
  BY Fits DEF BookInv, LevelsInv, TotalExactIfItFits
<1> QED  BY <1>1, BookInvariant, PTL


\* Every variable of the engine keeps to its type: the totals to the width of a
\* Quantity, the outcomes to those parse_order has.
THEOREM EntryTypes == EntrySpec => []EntryTypeOK
<1>1. BookInv /\ IdInv /\ LastInv => EntryTypeOK
  <2> SUFFICES ASSUME BookInv, IdInv, LastInv PROVE EntryTypeOK
    OBVIOUS
  <2>1. ParseOrder(last.faults) \in Outcomes  BY ParseOrderFacts DEF LastInv
  <2>2. last \in [faults : SUBSET Faults, outcome : Outcomes]  BY <2>1 DEF LastInv
  <2> QED  BY <2>2 DEF BookInv, LevelsInv, IdInv, EntryTypeOK
<1> QED  BY <1>1, BookInvariant, EntryIdInvariant, LastInvariant, PTL

\* The sum over the book after a step.
LEMMA VolumesNext ==
    ASSUME LevelsInv'
    PROVE  /\ IsFiniteSet(DOMAIN levels')
           /\ \A p \in DOMAIN levels' : Volumes'[p] = Volume(levels'[p].orders) /\ Volumes'[p] \in Nat
           /\ BookVolume' = SumFunctionOnSet(Volumes', DOMAIN levels')
<1>1. IsFiniteSet(DOMAIN levels') /\ \A p \in DOMAIN levels' : levels'[p] \in Level
  BY DEF LevelsInv
<1>2. Volumes' = [p \in DOMAIN levels' |-> Volume(levels'[p].orders)]
  BY DEF Volumes
<1>3. \A p \in DOMAIN levels' : Volumes'[p] = Volume(levels'[p].orders) /\ Volumes'[p] \in Nat
  BY <1>1, <1>2, LevelFacts
<1>4. BookVolume' = SumFunctionOnSet(Volumes', DOMAIN levels')
  BY <1>2 DEF BookVolume, SumFunction
<1> QED  BY <1>1, <1>3, <1>4

\* An order that rests takes nothing away.
LEMMA RestKeeps ==
    ASSUME LevelsInv, LevelsInv', NEW m \in Messages, m.faults = {}, NEW id \in Nat, Rest(m, id)
    PROVE  BookVolume' >= BookVolume
<1> DEFINE p == RawPrice(m)
           D == DOMAIN levels
           V == Volumes
           W == Volumes'
<1>1. /\ DOMAIN levels' = D \cup {p} /\ \A b \in D \ {p} : levels'[b] = levels[b]
      /\ LevelAt(p) \in Level /\ RawQty(m) \in Nat
      /\ Volume(levels'[p].orders) = Volume(LevelAt(p).orders) + RawQty(m)
  BY RestFacts
<1>2. /\ IsFiniteSet(D) /\ \A b \in D : V[b] = Volume(levels[b].orders) /\ V[b] \in Nat
      /\ BookVolume = SumFunctionOnSet(V, D) /\ \A S \in SUBSET D : IsFiniteSet(S)
  BY VolumesFacts
<1>3. /\ IsFiniteSet(D \cup {p}) /\ \A b \in D \cup {p} : W[b] = Volume(levels'[b].orders) /\ W[b] \in Nat
      /\ BookVolume' = SumFunctionOnSet(W, D \cup {p})
  BY <1>1, VolumesNext
<1>4. \A b \in D \ {p} : W[b] = V[b]
  BY <1>1, <1>2, <1>3
<1>5. p \in D => W[p] >= V[p]
  <2>1. p \in D => LevelAt(p) = levels[p]  BY DEF LevelAt
  <2> QED  BY <1>1, <1>2, <1>3, <2>1
<1> HIDE DEF V, W, D, p
<1> DEFINE R == D \ {p}
           Z == SumFunctionOnSet(V, R)
<1>6. SumFunctionOnSet(W, R) = Z /\ Z \in Int
  <2>1. R \in SUBSET D /\ IsFiniteSet(R)  BY <1>2
  <2>2. \A b \in R : W[b] \in Int /\ V[b] \in Int /\ W[b] = V[b]  BY <1>2, <1>3, <1>4
  <2> QED  BY <2>1, <2>2, SumSame, SumFacts
<1>7. SumFunctionOnSet(W, D \cup {p}) = W[p] + Z
  <2>1. \A b \in D \cup {p} : W[b] \in Int  BY <1>3
  <2>2. SumFunctionOnSet(W, D \cup {p}) = W[p] + SumFunctionOnSet(W, (D \cup {p}) \ {p})
    BY <1>3, <2>1, SumFacts
  <2>3. (D \cup {p}) \ {p} = R  OBVIOUS
  <2> QED  BY <1>6, <2>2, <2>3
<1>8. SumFunctionOnSet(V, D) = IF p \in D THEN V[p] + Z ELSE Z
  <2>1. \A b \in D : V[b] \in Int  BY <1>2
  <2>2. p \in D => SumFunctionOnSet(V, D) = V[p] + Z
    BY <1>2, <2>1, SumFacts
  <2>3. p \notin D => R = D  OBVIOUS
  <2> QED  BY <2>2, <2>3
<1> HIDE DEF Z, R
<1>9. W[p] \in Nat /\ (p \in D => V[p] \in Nat)  BY <1>2, <1>3
<1>10. \A a, b, c \in Int : (a >= b => a + c >= b + c) /\ (a >= 0 => a + c >= c)  OBVIOUS
<1>11. CASE p \in D
  <2>1. W[p] + Z >= V[p] + Z  BY <1>5, <1>6, <1>9, <1>10, <1>11
  <2> QED  BY <1>2, <1>3, <1>7, <1>8, <1>11, <2>1
<1>12. CASE p \notin D
  <2>1. W[p] + Z >= Z  BY <1>6, <1>9, <1>10
  <2> QED  BY <1>2, <1>3, <1>7, <1>8, <1>12, <2>1
<1> QED  BY <1>11, <1>12

\* A taker takes away what its trades say, though it erases levels by their
\* totals alone.
LEMMA TakeTrades ==
    ASSUME LevelsInv, LevelsInv', AllFit, NEW n \in Quantities, Take(n)
    PROVE  BookVolume' + traded' = BookVolume
<1> DEFINE D == DOMAIN levels
           V == Volumes
           W == Volumes'
           T == [p \in D |-> IF p \in Visited(n) THEN TakenAt(n)[p] ELSE 0]
           U == [p \in D |-> V[p] - T[p]]
<1>1. /\ DOMAIN levels' = D \ Erased(n) /\ Erased(n) \subseteq Visited(n)
      /\ \A p \in D \ Erased(n) : levels'[p] = IF p \in Visited(n) THEN AfterMatch(p, n) ELSE levels[p]
      /\ traded' = SumFunction(TakenAt(n))
  BY TakeFacts
<1>2. /\ IsFiniteSet(D) /\ \A b \in D : V[b] = Volume(levels[b].orders) /\ V[b] \in Nat
      /\ BookVolume = SumFunctionOnSet(V, D)
  BY VolumesFacts
<1>3. /\ \A b \in D \ Erased(n) : W[b] = Volume(levels'[b].orders) /\ W[b] \in Nat
      /\ BookVolume' = SumFunctionOnSet(W, D \ Erased(n))
  BY <1>1, VolumesNext
<1>4. /\ Visited(n) \subseteq D /\ \A p \in Visited(n) : TakenAt(n)[p] \in Nat
      /\ SumFunction(TakenAt(n)) = SumFunctionOnSet(TakenAt(n), Visited(n))
      /\ IsFiniteSet(Visited(n))
  BY TakenFacts
<1>5. ASSUME NEW p \in Visited(n)
      PROVE  /\ Volume(AfterMatch(p, n).orders) = V[p] - TakenAt(n)[p]
             /\ p \in Erased(n) => V[p] - TakenAt(n)[p] = 0
  <2>1. /\ p \in D /\ AfterMatch(p, n) \in Level /\ Congruent(AfterMatch(p, n))
        /\ TakenAt(n)[p] \in Nat /\ TakenAt(n)[p] <= Volume(levels[p].orders)
        /\ Volume(AfterMatch(p, n).orders) = Volume(levels[p].orders) - TakenAt(n)[p]
    BY VisitedFacts DEF TakenAt
  <2>2. V[p] = Volume(levels[p].orders) /\ V[p] \in Nat /\ V[p] \in Quantities
    BY <1>2, <2>1 DEF AllFit
  <2>3. V[p] - TakenAt(n)[p] \in Nat /\ V[p] - TakenAt(n)[p] <= V[p]
    <3>1. \A a, b \in Nat : b <= a => a - b \in Nat /\ a - b <= a  OBVIOUS
    <3> HIDE DEF V
    <3> QED  BY <2>1, <2>2, <3>1
  <2>4. V[p] - TakenAt(n)[p] \in Quantities  BY <2>2, <2>3, Powers
  <2>5. AfterMatch(p, n).total = Volume(AfterMatch(p, n).orders)
    BY <2>1, <2>2, <2>4, Fits
  <2>6. p \in Erased(n) => AfterMatch(p, n).total = 0  BY DEF Erased
  <2> QED  BY <2>1, <2>2, <2>5, <2>6
<1> HIDE DEF V, W
<1>6. \A p \in D : /\ T[p] = IF p \in Visited(n) THEN TakenAt(n)[p] ELSE 0
                   /\ U[p] = V[p] - T[p]
  OBVIOUS
<1> HIDE DEF T, U
<1>7. \A p \in D : V[p] \in Int /\ T[p] \in Int /\ U[p] \in Int /\ V[p] = T[p] + U[p]
  <2> TAKE p \in D
  <2>1. V[p] \in Nat /\ T[p] \in Nat  BY <1>2, <1>4, <1>6
  <2> QED  BY <1>6, <2>1
<1>8. \A p \in D \ Erased(n) : U[p] = W[p]
  <2> TAKE p \in D \ Erased(n)
  <2>1. W[p] = Volume(levels'[p].orders)  BY <1>3
  <2>2. CASE p \in Visited(n)
    <3>1. levels'[p] = AfterMatch(p, n)  BY <1>1, <2>2
    <3>2. Volume(AfterMatch(p, n).orders) = V[p] - TakenAt(n)[p]  BY <1>5, <2>2
    <3> QED  BY <1>6, <2>1, <2>2, <3>1, <3>2
  <2>3. CASE p \notin Visited(n)
    <3>1. levels'[p] = levels[p]  BY <1>1, <2>3
    <3>2. V[p] = Volume(levels[p].orders) /\ V[p] \in Nat  BY <1>2
    <3> QED  BY <1>6, <2>1, <2>3, <3>1, <3>2
  <2> QED  BY <2>2, <2>3
<1>9. \A p \in Erased(n) : U[p] = 0
  BY <1>1, <1>4, <1>5, <1>6
<1> HIDE DEF D
<1>10. SumFunctionOnSet(V, D) = SumFunctionOnSet(T, D) + SumFunctionOnSet(U, D)
  BY <1>2, <1>7, SumAdds
<1>11. SumFunctionOnSet(T, D) = SumFunctionOnSet(TakenAt(n), Visited(n))
  <2>1. \A p \in D \ Visited(n) : T[p] = 0  BY <1>6
  <2>2. SumFunctionOnSet(T, D) = SumFunctionOnSet(T, Visited(n))
    BY <1>2, <1>4, <1>7, <2>1, SumLess
  <2>3. \A p \in Visited(n) : T[p] \in Int /\ T[p] = TakenAt(n)[p]  BY <1>4, <1>6, <1>7
  <2>4. SumFunctionOnSet(T, Visited(n)) = SumFunctionOnSet(TakenAt(n), Visited(n))
    BY <1>4, <2>3, SumSame
  <2> QED  BY <2>2, <2>4
<1>12. SumFunctionOnSet(U, D) = SumFunctionOnSet(W, D \ Erased(n))
  <2> DEFINE R == D \ Erased(n)
  <2>1. R \in SUBSET D /\ \A p \in D \ R : U[p] = 0  BY <1>9
  <2>2. SumFunctionOnSet(U, D) = SumFunctionOnSet(U, R)
    <3> HIDE DEF R
    <3> QED  BY <1>2, <1>7, <2>1, SumLess
  <2>3. IsFiniteSet(R) /\ \A p \in R : U[p] \in Int /\ U[p] = W[p]
    BY <1>2, <1>7, <1>8, FS_Subset
  <2>4. SumFunctionOnSet(U, R) = SumFunctionOnSet(W, R)
    <3> HIDE DEF R
    <3> QED  BY <2>3, SumSame
  <2> QED  BY <2>2, <2>4
<1>13. SumFunctionOnSet(T, D) \in Int /\ SumFunctionOnSet(U, D) \in Int
  BY <1>2, <1>7, SumFacts
<1>14. \A a, b \in Int : a + b = b + a  OBVIOUS
<1> QED  BY <1>1, <1>2, <1>3, <1>4, <1>10, <1>11, <1>12, <1>13, <1>14

LEMMA TradesStep ==
    ASSUME BookInv, BookInv', IdInv, [EntryNext]_entryVars, up, up', AllFit, ~StartAgain
    PROVE  BookVolume' + traded' >= BookVolume
<1>1. LevelsInv /\ LevelsInv' /\ traded' \in Nat  BY DEF BookInv
<1>2. BookVolume \in Nat /\ BookVolume' \in Nat
  <2>1. BookVolume \in Nat  BY <1>1, VolumesFacts
  <2>2. /\ IsFiniteSet(DOMAIN levels') /\ \A p \in DOMAIN levels' : Volumes'[p] \in Nat
        /\ BookVolume' = SumFunctionOnSet(Volumes', DOMAIN levels')
    BY <1>1, VolumesNext
  <2>3. PICK W : W = Volumes'  OBVIOUS
  <2>4. \A p \in DOMAIN levels' : W[p] \in Int /\ W[p] >= 0  BY <2>2, <2>3
  <2>5. SumFunctionOnSet(W, DOMAIN levels') \in Int /\ SumFunctionOnSet(W, DOMAIN levels') >= 0
    BY <2>2, <2>4, SumFacts
  <2> QED  BY <2>1, <2>2, <2>3, <2>5
<1>3. \A a, b, c \in Nat : a >= b => a + c >= b  OBVIOUS
<1>4. BookVolume' >= BookVolume => BookVolume' + traded' >= BookVolume
  BY <1>1, <1>2, <1>3
<1>5. ASSUME levels' = levels PROVE BookVolume' + traded' >= BookVolume
  <2>1. BookVolume' = BookVolume  BY <1>5 DEF BookVolume, Volumes
  <2>2. \A a, b \in Nat : a = b => a >= b  OBVIOUS
  <2> QED  BY <1>2, <1>4, <2>1, <2>2
<1>6. CASE HandleEvent
  <2>1. PICK m \in Messages : HandleOrder(m) \/ Crash(m)  BY <1>6 DEF HandleEvent
  <2>2. HandleOrder(m)  BY <2>1 DEF Crash
  <2>3. CASE NotFound  BY <1>5, <2>3 DEF NotFound
  <2>4. CASE AddOrder(m)
    <3>1. m.faults = {}
      <4>1. m.faults \in SUBSET Faults
        BY MessagesAssumption
      <4>2. ParseOrder(m.faults).kind = "order"  BY <2>2 DEF HandleOrder
      <4> QED  BY <4>1, <4>2, BrokenAssumption, ParseOrderFacts
    <3>2. CASE Rest(m, Count + 1)
      <4>1. Count + 1 \in Nat
        <5>1. Count \in Nat  BY CountIsUpToDate
        <5> QED  BY <5>1
      <4> QED  BY <1>1, <1>4, <3>1, <3>2, <4>1, RestKeeps
    <3>3. CASE Take(RawQty(m))
      <4>1. RawQty(m) \in Quantities  BY <3>1, RangeAssumption
      <4>2. BookVolume' + traded' = BookVolume  BY <1>1, <3>3, <4>1, TakeTrades
      <4>3. \A a, b, c \in Nat : a + b = c => a + b >= c  OBVIOUS
      <4> QED  BY <1>1, <1>2, <4>2, <4>3
    <3> QED  BY <2>4, <3>2, <3>3 DEF AddOrder
  <2> QED  BY <2>2, <2>3, <2>4 DEF HandleOrder
<1>7. CASE DayPasses  BY <1>5, <1>7 DEF DayPasses
<1>8. CASE UNCHANGED entryVars  BY <1>5, <1>8 DEF entryVars
<1> QED  BY <1>6, <1>7, <1>8 DEF EntryNext

\* What leaves the book was traded, as long as every level's sum fits in a
\* Quantity: match_order erases a level by its total alone, and the total is
\* the sum (OnlyTradesTakeAway; BookSide::match_order).
THEOREM OnlyTradesCorrect == EntrySpec => OnlyTradesTakeAway
<1>1. BookInv /\ BookInv' /\ IdInv /\ [EntryNext]_entryVars =>
        [up /\ up' /\ AllFit /\ ~StartAgain => BookVolume' + traded' >= BookVolume]_entryVars
  BY TradesStep
<1> QED  BY <1>1, BookInvariant, EntryIdInvariant, PTL DEF EntrySpec, OnlyTradesTakeAway

\* The orders that may rest at the price p, and the prices there are levels for.
Written(p) ==
    {o \in Resting : /\ o.ticks < 2^(Precision - 1) /\ p = Back(PriceScale, o.ticks)
                     /\ o.units \in Quantities => o.rem <= o.units}
NumbersInv ==
    \A p \in DOMAIN levels :
        p \in Nat /\ p < 2^(Precision - 1) /\ levels[p].orders \in Seq(Written(p))

\* What is left after a match are orders there were, with less.
LEMMA UnfilledKeeps ==
    ASSUME NEW E, NEW q \in Seq(E)
    PROVE  Unfilled(q) \in Seq(E)
<1> DEFINE N == Len(q)
<1>1. N \in Nat /\ \A i \in 1 .. N : q[i] \in E  BY LenProperties, ElementOfSeq
<1>2. PICK f : f = [i \in 0 .. N |-> KeptStep(q, f, i)] /\ Unfilled(q) = f[N]
  <2> DEFINE F == CHOOSE f : f = [i \in 0 .. N |-> KeptStep(q, f, i)]
  <2>1. F = [i \in 0 .. N |-> KeptStep(q, F, i)]  BY <1>1, KeptExists
  <2>2. Unfilled(q) = F[N]  BY DEF Unfilled, KeptStep
  <2> QED  BY <2>1, <2>2
<1> HIDE DEF N
<1> DEFINE B == {i \in 0 .. N : f[i] \notin Seq(E)}
<1>3. ASSUME B # {} PROVE FALSE
  <2>1. PICK k \in B : \A m \in B : k <= m
    <3>1. B \in SUBSET Nat  BY <1>1
    <3>2. Min(B) \in B /\ \A m \in B : Min(B) <= m  BY <1>3, <3>1, Least
    <3> QED  BY <3>2
  <2>2. k # 0
    <3> SUFFICES ASSUME k = 0 PROVE FALSE
      OBVIOUS
    <3>1. f[k] = <<>>  BY <1>1, <1>2 DEF KeptStep
    <3>2. <<>> \in Seq(E)  OBVIOUS
    <3> QED  BY <2>1, <3>1, <3>2
  <2>3. k \in 1 .. N /\ k \in 0 .. N /\ k - 1 \in 0 .. N /\ ~(k <= k - 1)  BY <1>1, <2>1, <2>2
  <2>4. f[k - 1] \in Seq(E)  BY <2>1, <2>3
  <2>5. f[k] = IF q[k].rem > 0 THEN Append(f[k - 1], q[k]) ELSE f[k - 1]
    BY <1>2, <2>2, <2>3 DEF KeptStep
  <2>6. Append(f[k - 1], q[k]) \in Seq(E)  BY <1>1, <2>3, <2>4, AppendProperties
  <2> QED  BY <2>1, <2>4, <2>5, <2>6
<1>4. N \in 0 .. N  BY <1>1
<1> QED  BY <1>2, <1>3, <1>4

LEMMA MatchKeeps ==
    ASSUME NEW p, NEW q \in Seq(Written(p)), NEW n \in Nat
    PROVE  Unfilled(After(q, n)) \in Seq(Written(p))
<1> DEFINE t == After(q, n)
<1>1. q \in Seq(Resting)
  <2>1. Written(p) \subseteq Resting  BY DEF Written
  <2> QED  BY <2>1, SeqMonotonic
<1>2. /\ t \in Seq(Resting) /\ Len(t) = Len(q)
      /\ \A i \in DOMAIN q : /\ t[i].ticks = q[i].ticks /\ t[i].units = q[i].units
                             /\ t[i].rem <= q[i].rem
  BY <1>1, AfterFacts
<1>3. /\ Len(q) \in Nat /\ DOMAIN q = 1 .. Len(q) /\ DOMAIN t = 1 .. Len(q)
      /\ \A i \in 1 .. Len(q) : q[i] \in Written(p) /\ t[i] \in Resting
  BY <1>2, LenProperties, ElementOfSeq
<1> HIDE DEF t
<1>4. ASSUME NEW i \in 1 .. Len(q) PROVE t[i] \in Written(p)
  <2>1. t[i].ticks = q[i].ticks /\ t[i].units = q[i].units /\ t[i].rem <= q[i].rem
    BY <1>2, <1>3
  <2>2. q[i] \in Resting /\ t[i] \in Resting  BY <1>3 DEF Written
  <2>3. t[i].rem \in Nat /\ q[i].rem \in Nat  BY <2>2, Powers DEF Resting
  <2>4. t[i].units \in Quantities => t[i].rem <= t[i].units
    <3> SUFFICES ASSUME t[i].units \in Quantities PROVE t[i].rem <= t[i].units
      OBVIOUS
    <3>1. q[i].rem <= q[i].units /\ q[i].units \in Nat  BY <1>3, <2>1, Powers DEF Written
    <3> QED  BY <2>1, <2>3, <3>1
  <2> QED  BY <1>3, <2>1, <2>2, <2>4 DEF Written
<1>5. t \in Seq(Written(p))
  <2>1. t = [i \in 1 .. Len(q) |-> t[i]]
    <3>1. t \in [1 .. Len(q) -> Resting]  BY <1>2, LenProperties
    <3> QED  BY <3>1
  <2>2. t \in [1 .. Len(q) -> Written(p)]  BY <1>4, <2>1
  <2> QED  BY <1>3, <2>2, SeqDef
<1> QED  BY <1>5, UnfilledKeeps DEF t

LEMMA NumbersInvStep ==
    ASSUME NumbersInv, BookInv, IdInv, [EntryNext]_entryVars
    PROVE  NumbersInv'
<1>1. ASSUME levels' = NoLevels PROVE NumbersInv'
  <2>1. DOMAIN levels' = {}  BY <1>1 DEF NoLevels
  <2> QED  BY <2>1 DEF NumbersInv
<1>2. ASSUME levels' = levels PROVE NumbersInv'
  BY <1>2 DEF NumbersInv
<1>3. LevelsInv  BY DEF BookInv
<1>4. CASE HandleEvent
  <2>1. PICK m \in Messages : HandleOrder(m) \/ Crash(m)  BY <1>4 DEF HandleEvent
  <2>2. CASE Crash(m)  BY <1>1, <2>2 DEF Crash
  <2>3. CASE HandleOrder(m) /\ NotFound  BY <1>2, <2>3 DEF NotFound
  <2>4. CASE HandleOrder(m) /\ AddOrder(m)
    <3>1. m.faults = {}
      <4>1. m.faults \in SUBSET Faults
        BY MessagesAssumption
      <4>2. ParseOrder(m.faults).kind = "order"  BY <2>4 DEF HandleOrder
      <4> QED  BY <4>1, <4>2, BrokenAssumption, ParseOrderFacts
    <3>2. RawQty(m) \in Quantities  BY <3>1, RangeAssumption
    <3>3. CASE Rest(m, Count + 1)
      <4> DEFINE p == RawPrice(m)
                 o == RestOrder(m, Count + 1)
      <4>1. Count + 1 \in Nat
        <5>1. Count \in Nat  BY CountIsUpToDate
        <5> QED  BY <5>1
      <4>2. /\ p \in Nat /\ p = Back(PriceScale, m.ticks) /\ AtOrBelow(p, m.ticks)
            /\ m.units \in Quantities => RawQty(m) <= m.units
        BY <3>1, Conversions
      <4>3. m.ticks \in Nat /\ m.units \in Int /\ m.ticks < 2^(Precision - 1)
        BY <3>1, MessagesAssumption, RangeAssumption
      <4>4. o \in Written(p)
        BY <3>2, <4>1, <4>2, <4>3 DEF RestOrder, Written, Resting
      <4>5. p < 2^(Precision - 1)
        <5>1. 2^(Precision - 1) \in Nat
          <6>1. Precision - 1 \in 0 .. 2 * Precision  BY NumbersAssumption
          <6> QED  BY <6>1, ExponentsAssumption
        <5>2. PICK h \in Nat : h = 2^(Precision - 1)  BY <5>1
        <5> HIDE DEF p
        <5> QED  BY <4>2, <4>3, <5>2 DEF AtOrBelow
      <4>6. LevelAt(p).orders \in Seq(Written(p))
        <5>1. CASE p \in DOMAIN levels  BY <5>1 DEF LevelAt, NumbersInv
        <5>2. CASE p \notin DOMAIN levels
          <6>1. LevelAt(p).orders = <<>>  BY <5>2 DEF LevelAt
          <6> QED  BY <6>1
        <5> QED  BY <5>1, <5>2
      <4>7. Append(LevelAt(p).orders, o) \in Seq(Written(p))
        BY <4>4, <4>6, AppendProperties
      <4>8. /\ DOMAIN levels' = DOMAIN levels \cup {p}
            /\ levels'[p].orders = Append(LevelAt(p).orders, o)
            /\ \A b \in DOMAIN levels \ {p} : levels'[b] = levels[b]
        BY <3>3 DEF Rest, RestOrder
      <4> HIDE DEF p, o
      <4>9. ASSUME NEW b \in DOMAIN levels'
            PROVE  b \in Nat /\ b < 2^(Precision - 1) /\ levels'[b].orders \in Seq(Written(b))
        <5>1. CASE b = p  BY <4>2, <4>5, <4>7, <4>8, <5>1
        <5>2. CASE b # p  BY <4>8, <4>9, <5>2 DEF NumbersInv
        <5> QED  BY <5>1, <5>2
      <4> QED  BY <4>9 DEF NumbersInv, Written
    <3>4. CASE Take(RawQty(m))
      <4> DEFINE n == RawQty(m)
      <4>1. n \in Quantities /\ Take(n)  BY <3>2, <3>4
      <4> HIDE DEF n
      <4>2. /\ DOMAIN levels' = DOMAIN levels \ Erased(n)
            /\ \A p \in DOMAIN levels' : levels'[p] = IF p \in Visited(n) THEN AfterMatch(p, n) ELSE levels[p]
        BY <1>3, <4>1, TakeFacts
      <4>3. ASSUME NEW b \in DOMAIN levels'
            PROVE  b \in Nat /\ b < 2^(Precision - 1) /\ levels'[b].orders \in Seq(Written(b))
        <5>1. b \in DOMAIN levels /\ levels[b].orders \in Seq(Written(b))
              /\ b \in Nat /\ b < 2^(Precision - 1)
          BY <4>2, <4>3 DEF NumbersInv
        <5>2. CASE b \in Visited(n)
          <6>1. n - Better(b) \in Nat
            <7>1. n \in Nat /\ n > Better(b)  BY <4>1, <5>2, Powers DEF Visited
            <7>2. Better(b) \in Nat
              <8>1. {c \in DOMAIN levels : c > b} \in SUBSET DOMAIN levels  OBVIOUS
              <8> QED  BY <1>3, <8>1, VolumesFacts DEF Better
            <7> QED  BY <7>1, <7>2
          <6>2. AfterMatch(b, n).orders = Unfilled(After(levels[b].orders, n - Better(b)))
            BY DEF AfterMatch, Matched
          <6>3. AfterMatch(b, n).orders \in Seq(Written(b))
            BY <5>1, <6>1, <6>2, MatchKeeps
          <6> QED  BY <4>2, <4>3, <5>1, <5>2, <6>3
        <5>3. CASE b \notin Visited(n)  BY <4>2, <4>3, <5>1, <5>3
        <5> QED  BY <5>2, <5>3
      <4> QED  BY <4>3 DEF NumbersInv, Written
    <3> QED  BY <2>4, <3>3, <3>4 DEF AddOrder
  <2> QED  BY <2>1, <2>2, <2>3, <2>4 DEF HandleOrder
<1>5. CASE StartAgain  BY <1>1, <1>5 DEF StartAgain
<1>6. CASE DayPasses  BY <1>2, <1>6 DEF DayPasses
<1>7. CASE UNCHANGED entryVars  BY <1>2, <1>7 DEF entryVars
<1> QED  BY <1>4, <1>5, <1>6, <1>7 DEF EntryNext

\* One conversion loses a tick at most, keeps the order of prices and never adds
\* quantity; and a price shown by the feed comes back a tick lower at most: for
\* doubles of any precision and any scale small beside it (ScaledInt's
\* constructor and descaled_value, parse_order, to_json_string).
THEOREM NumbersCorrect == EntrySpec => []NumbersFaithful
<1>1. EntryInit => NumbersInv
  <2>1. EntryInit => DOMAIN levels = {}  BY DEF EntryInit, NoLevels
  <2> QED  BY <2>1 DEF NumbersInv
<1>2. NumbersInv /\ BookInv /\ IdInv /\ [EntryNext]_entryVars => NumbersInv'
  BY NumbersInvStep
<1>3. NumbersInv => NumbersFaithful
  <2> SUFFICES ASSUME NumbersInv, NEW p \in DOMAIN levels
               PROVE  /\ AtOrBelow(Price!Scaled(LevelLine(p).price), p)
                      /\ \A o \in ToSet(levels[p].orders) :
                          /\ AtOrBelow(p, o.ticks)
                          /\ o.units \in Quantities => o.rem <= o.units
                          /\ \A r \in DOMAIN levels : r > p =>
                              \A b \in ToSet(levels[r].orders) : b.ticks > o.ticks
    BY DEF NumbersFaithful
  <2>1. p \in Nat /\ p < 2^(Precision - 1)  BY DEF NumbersInv
  <2>2. Price!Scaled(LevelLine(p).price) = Back(PriceScale, p)
    BY DEF LevelLine, Price!Scaled, Price!Descaled, Back
  <2>3. AtOrBelow(Back(PriceScale, p), p)  BY <2>1, BackFacts
  <2>4. ASSUME NEW r \in DOMAIN levels, NEW o \in ToSet(levels[r].orders)
        PROVE  /\ r \in Nat /\ o.ticks \in Nat /\ r = Back(PriceScale, o.ticks)
               /\ AtOrBelow(r, o.ticks)
               /\ o.units \in Quantities => o.rem <= o.units
    <3>1. r \in Nat /\ levels[r].orders \in Seq(Written(r))  BY <2>4 DEF NumbersInv
    <3>2. o \in Written(r)
      <4>1. PICK i \in DOMAIN levels[r].orders : o = levels[r].orders[i]  BY <2>4 DEF ToSet
      <4> QED  BY <3>1, <4>1, LenProperties, ElementOfSeq
    <3>3. o.ticks \in Nat /\ o.ticks < 2^(Precision - 1)  BY <3>2 DEF Written, Resting
    <3> QED  BY <3>1, <3>2, <3>3, BackFacts DEF Written
  <2>5. ASSUME NEW o \in ToSet(levels[p].orders), NEW r \in DOMAIN levels, r > p,
               NEW b \in ToSet(levels[r].orders)
        PROVE  b.ticks > o.ticks
    <3>1. o.ticks \in Nat /\ p = Back(PriceScale, o.ticks) /\ p \in {o.ticks - 1, o.ticks} /\ p \in Nat
      BY <2>4, <2>5 DEF AtOrBelow
    <3>2. b.ticks \in Nat /\ r = Back(PriceScale, b.ticks) /\ r \in {b.ticks - 1, b.ticks} /\ r \in Nat
      BY <2>4, <2>5 DEF AtOrBelow
    <3>3. b.ticks # o.ticks  BY <2>5, <3>1, <3>2
    <3>4. PICK x : x = o.ticks  OBVIOUS
    <3>5. PICK y : y = b.ticks  OBVIOUS
    <3> QED  BY <2>5, <3>1, <3>2, <3>3, <3>4, <3>5
  <2> QED  BY <2>2, <2>3, <2>4, <2>5
<1> QED  BY <1>1, <1>2, <1>3, BookInvariant, EntryIdInvariant, PTL DEF EntrySpec

=============================================================================
