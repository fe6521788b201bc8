\* Doubles of 8 bits, in which 0.29 becomes 28 ticks as it does with 53, and
\* quantities of 5 bits, in which two orders of 16 add up to nothing and -1
\* becomes 31.
CONSTANTS
    CounterSpace = 3
    Dates = {1, 2}
    MaxIds = 4
    Precision = 8
    PriceScale = 100
    QtyScale = 100
    Width = 5
    Messages <- MCMessages
SPECIFICATION EntrySpec
INVARIANTS
    EntryTypeOK
    RefusalsNameAFault
    NumbersFaithful
    TotalExactIfItFits
    NeverReissued
    IdInv
PROPERTIES
    OnlyTradesTakeAway
\* All dates may pass and all ids be generated.
CHECK_DEADLOCK FALSE
