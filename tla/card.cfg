SPECIFICATION Spec
CONSTANTS
    Titles = {a, b, c}
    MaxActs = 2
INVARIANTS ContentsStayListed DragLandsWhereDropped CardFollowsServer
CHECK_DEADLOCK FALSE
