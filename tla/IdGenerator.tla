----------------------------- MODULE IdGenerator -----------------------------
(***************************************************************************)
(* The generator of order ids (and, as another instance, of trade ids): a  *)
(* static object that is constructed when a process asks for its first id, *)
(* with a counter that starts at that day's date times COUNTER_SPACE.      *)
(* Nothing is kept when the process ends.                                  *)
(***************************************************************************)
EXTENDS Integers, Sequences

CONSTANTS
    CounterSpace,   \* COUNTER_SPACE
    Dates,          \* the days, as the numbers YYYYMMDD
    MaxIds          \* BOUND: ids generated in a behaviour

ASSUME CounterSpaceAssumption == CounterSpace \in Nat \ {0}
ASSUME DatesAssumption == Dates \subseteq Nat

VARIABLES
    today,      \* the date
    built,      \* the process has constructed its generator
    started,    \* the date the last generator was constructed on
    counter,    \* its counter_
    issued      \* the ids generated, those of earlier processes included

vars == <<today, built, started, counter, issued>>

TypeOK ==
    /\ today \in Dates /\ started \in Dates /\ built \in BOOLEAN
    /\ counter \in Nat /\ issued \in Seq(Nat)

\* The constructor; Slip: every day starts from the same number.
FirstCounterSlip(d) == CounterSpace
FirstCounter(d) == d * CounterSpace

Init ==
    /\ today \in Dates /\ started = today
    /\ built = FALSE /\ counter = 0 /\ issued = <<>>

\* instance() constructs the generator at its first call.
Count == IF built THEN counter ELSE FirstCounter(today)

GenerateId ==
    /\ Len(issued) < MaxIds
    /\ built' = TRUE /\ started' = (IF built THEN started ELSE today)
    /\ counter' = Count + 1
    /\ issued' = Append(issued, Count + 1)
    /\ UNCHANGED today

\* Midnight passes; a generator goes on counting from its own date.
Midnight ==
    /\ \E d \in Dates : d > today /\ today' = d
    /\ UNCHANGED <<built, started, counter, issued>>

Restart ==
    /\ built' = FALSE
    /\ UNCHANGED <<today, started, counter, issued>>

Next == GenerateId \/ Midnight \/ Restart
Spec == Init /\ [][Next]_vars

\* ENVIRONMENT: a process that has generated ids is restarted on a later day
\* than that of its first id only, and generates at most CounterSpace ids.
DailyGenerate == GenerateId /\ counter' <= (started' + 1) * CounterSpace
DailyRestart == Restart /\ (built => started < today)
DailyNext == DailyGenerate \/ Midnight \/ DailyRestart
DailySpec == Init /\ [][DailyNext]_vars

-----------------------------------------------------------------------------
(* Properties *)

\* No id is generated twice, not by a later process either: "unique trade
\* id's and order id's", "independent across unique assets and times/days".
NeverReissued ==
    \A i, j \in DOMAIN issued : issued[i] = issued[j] => i = j

\* What makes NeverReissued inductive: ids grow, up to the counter, and the
\* counter stays in the space of the day it was started on, a day that is over
\* when the next generator is constructed.
Growing ==
    /\ \A i \in DOMAIN issued : issued[i] <= counter
    /\ \A i, j \in DOMAIN issued : i < j => issued[i] < issued[j]
InDay == counter <= (started + 1) * CounterSpace
DayOver == built \/ issued = <<>> \/ started < today
IdInv == TypeOK /\ Growing /\ InDay /\ DayOver /\ started <= today

=============================================================================
