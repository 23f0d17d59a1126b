--------------------------- MODULE MCDexPipeline ----------------------------
(* A small instance of the DEX pair pipeline.                              *)
EXTENDS DexPipeline

\* A pair of the best fields there can be, and one whose calls all failed.
MCOnchain ==
  {[approvals |-> FALSE, removal |-> FALSE, top10 |-> 40, single |-> 10, age |-> 90, buyers |-> 50],
   [approvals |-> FALSE, removal |-> FALSE, top10 |-> 0, single |-> 0, age |-> 0, buyers |-> 0]}

\* Past the stop, at a significant loss, past both profit targets.
MCGains == {-20, -12, 60}
=============================================================================
