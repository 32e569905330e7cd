SPECIFICATION MCSpec
CONSTANTS
  b1 = b1
  b2 = b2
  v1 = v1
  v2 = v2
  v3 = v3
  u1 = u1
  u2 = u2
  n1 = n1
  n2 = n2
  n3 = n3
  n4 = n4
  None = None
  Boards <- MCBoards
  Views <- MCViews
  BoardOf <- MCBoardOf
  Categories <- MCCategories
  Admins = {TRUE, FALSE}
  MaxActs = 2
  Tabs = {t1, t2}
  Languages = {"en", "de"}
  Navigator = "en"
  Unset = Unset
  MaxPicks = 3
  MaxEvents = 6
  Rooms <- MCBoards
  Notes = {n1, n2, n3, n4}
  RoomOf <- MCRoomOf
  NoteTemplates = {n3}
  People = {u1, u2}
  NoteLimit = 1
  Nothing = None
  MaxQuestions = 2
  MaxTurns = 3
INVARIANTS AddressIsShown SettingsAgree ChatAgrees
CHECK_DEADLOCK FALSE
PROPERTIES Settles
