SPECIFICATION MCSpec
CONSTANTS
    Boards = {b1, b2}
    Default = def
    Customs = {c1}
    None = none
    MaxActs = 2
INVARIANTS ListedOnce SidebarAgrees
PROPERTIES OpenBoardGetsACategory
CHECK_DEADLOCK FALSE
