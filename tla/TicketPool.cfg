SPECIFICATION Spec
CONSTANTS
    Tickets = {t1, t2}
    MaxHeight = 2
    StoreOK = {TRUE, FALSE}
    NoDiff = NoDiff
    NoAnswer = NoAnswer
INVARIANTS
    TypeOK
    CursorInBounds
    PoolIsLiveAtCursor
    StoredDiffsAreCurrent
PROPERTIES
    PoolAnswersLiveSet
    LockIsReleased
