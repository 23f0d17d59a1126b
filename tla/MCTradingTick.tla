--------------------------- MODULE MCTradingTick ----------------------------
EXTENDS TradingTick, TLC

Order == <<"growi", "mc">>
Prio  == <<Acevault, "growi", "mc">>
TwoTrackA == {"growi", "mc"}
OneTrackA == {"growi"}
Symmetry == Permutations(Coins) \cup Permutations(Ids)
=============================================================================
