SPECIFICATION MCSpec
CONSTANTS
    Names <- TwoNames
    Types <- CheckedTypes
    MaxEdits = 2
    MaxActs = 2
    MaxMeddled = 1
INVARIANTS ShownOnce BoardsFollowHistory
PROPERTIES UndoRestores CardsLandWhereAsked ConversionKeepsMeaning
CHECK_DEADLOCK FALSE
