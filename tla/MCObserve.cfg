SPECIFICATION Spec
CONSTANTS
    NSlots = 2
    NAttrs = 1
    Tokens = {t1, t2}
    Resources = {"a"}
    Multi = {}
    Values = {0, 1, 2}
    ObserveAttrs <- MCObserveAttrs
    WriteAttrs <- MCWriteAttrs
    Blocks <- MCBlocks
    DefaultPmin = 1
    DefaultPmax = 0
    DefaultCon = FALSE
    Day = 2
    MaxAge = 2
    NumMod = 2
    ReadFails = {"message", "change"}
    MaxEvents = 4
SYMMETRY Symmetric
INVARIANTS
    AttributesInForce
    TimeExact
    ChangesReported
    TableInOrder
PROPERTIES
    OnlyItsOwn
CHECK_DEADLOCK FALSE
