---------------------------- MODULE MCMarketGate ----------------------------
EXTENDS MarketGate

CONSTANTS c1, c2

Reading(primary, vol, move, extended, far) ==
  [primary |-> primary, vol |-> vol, move |-> move, extended |-> extended,
   farFromVwap |-> far, expanding |-> extended]

\* A calm rise, a nervous fall, a stretched range after an impulse, a shock.
SampleReadings == {
  Reading("trending_up", 0, 0, FALSE, FALSE),
  Reading("trending_down", 1, 1, FALSE, FALSE),
  Reading("mean_reverting", 0, 2, TRUE, TRUE),
  Reading("trending_up", 2, 3, TRUE, FALSE) }

Ranks == [c \in {c1, c2} |-> IF c = c1 THEN 1 ELSE 2]
Mults == [r \in BtcRegimes |-> 100]
Conflict == [e \in Engines |-> IF e = "btc" THEN 100 ELSE 50]
NoCoins == [c \in {} |-> 2]
Tiers == [e \in Engines |-> IF e = "btc" THEN 3 ELSE 1]
Caps == [s \in Sides |-> IF s = "long" THEN 6 ELSE 3]
Gross == [r \in {"RANGING"} |-> 100]
=============================================================================
