SPECIFICATION Spec
CONSTANTS
    Call = {c1, c2}
    c1 = c1
    c2 = c2
    Kind <- MCKind
    SymbolOf <- MCSymbolOf
    Log <- MCLog
    Capacity = 1
    Window = 1
    MaxBreaks = 1
    MaxLost = 1
    Letter = {"a", "b", "c", "t", "p", "0", "1"}
    DigitOf <- MCDigitOf
    Queries <- MCQueries
    ParamLimit = 3
    Symbol = {2, 3, 4, 5}
    PageSize = 1
    Start <- MCStart
\* Clients may do nothing, and a process that crashed does nothing.
CHECK_DEADLOCK FALSE
INVARIANTS
    TypeOK
    NothingLostInside
    BoundByName
    ListingMissesTokensOnly
PROPERTIES
    GoroutinesEnd
