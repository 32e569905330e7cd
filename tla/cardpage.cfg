SPECIFICATION TourSpec
CONSTANTS
  Views <- MCViews
  BoardOf <- MCBoardOf
  TypeOf <- MCTypeOf
  FirstCards <- MCFirstCards
  MaxActs = 2
  MaxOthers = 1
  TourStarts <- MCTourStarts
  TourActs = 4
INVARIANTS AddedStaysListed  TourGoesOn
PROPERTY TourMovesOn
CHECK_DEADLOCK FALSE
