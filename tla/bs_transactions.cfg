SPECIFICATION Spec
CONSTANTS
    card = card
    text = text
    extra = extra
    t1 = t1
    t2 = t2
    Blocks = {card, text, extra}
    Board = Board
    Titles = {t1, t2}
    Keep = Keep
    Files = {text}
    HasFileInfo = TRUE
    InitialRows <- OneCard
    Transactional = TRUE
    Requests = {r1}
    NewRows <- RowsToInsert
    SomePatches <- TwoPatches
    MaxRequests = 4
    MaxFaults = 1
CHECK_DEADLOCK FALSE
INVARIANTS HistoryMatchesTable
PROPERTIES ImplementsAtomic UndoRestores
