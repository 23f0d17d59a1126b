------------------------------ MODULE MCJournal ------------------------------
(* Model checking of Journal: two AceVault trades against a record of one, *)
(* one trade of another engine, one restart.                                 *)
EXTENDS Journal

CONSTANTS a1, a2, s1

MCAce == {a1, a2}
MCTrackA == {s1}
MCPnls == {1, -1}
=============================================================================
