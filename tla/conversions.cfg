SPECIFICATION MCSpec
CONSTANTS
    TrelloExports <- SomeTrello
    DeckExports <- SomeDecks
    TodoistExports <- SomeTodoist
    AsanaExports <- SomeAsana
    JiraExports <- SomeJira
    NotionExports <- SomeNotion
    Tables <- SomeTables
    Columns <- SomeColumns
    Menus <- SomeMenus
    ann = ann
    ben = ben
    Users = {ann, ben}
    Days <- ThreeDays
    Zones <- ThreeZones
    Instants <- NoonsAndOthers
    Created <- CreatedAt
SYMMETRY AnyUser
INVARIANTS DaysAgree ConversionsAgree
PROPERTIES ImplementsDays
CHECK_DEADLOCK FALSE
