----------------------------- MODULE MCCardPage -----------------------------
EXTENDS Tour, TLC
MCViews == 1 .. 3
MCBoardOf == <<1, 1, 2>>
MCTypeOf == <<"board", "table", "gallery">>
MCFirstCards == <<1, 1, 2>>
MCTourStarts == {At("onboarding", 0), At("card", 2), At("board", 2), At("sidebar", 1)}
=============================================================================
