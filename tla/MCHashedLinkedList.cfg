\* Two levels that share the pool; the pool grows from one slot to seven.
CONSTANTS
    Lists = {bid, ask}
    Ids = {o1, o2, o3, o4}
    None = None
    NodeBytes = 2
    PoolSize = 1
    MaxSlots = 7
SYMMETRY Symmetry
SPECIFICATION Spec
INVARIANTS
    TypeOK
    IterationIsQueue
    BackwardIsQueue
    FindsItsNode
    SlotsConserved
