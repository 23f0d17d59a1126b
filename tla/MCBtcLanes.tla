----------------------------- MODULE MCBtcLanes -----------------------------
EXTENDS BtcLanes

Reading(t1, t4, vol, dist, rsi, comp, highs, lows, last) ==
  [t1 |-> t1, t4 |-> t4, vol |-> vol, dist |-> dist, rsi |-> rsi, compressing |-> comp,
   highs |-> highs, lows |-> lows, last |-> last]

Rising == <<4, 5, 6>>
Falling == <<6, 5, 4>>

\* A confirmed rise with and without a breakout, one too weak to be traded, a
\* confirmed fall, a range stretched enough to revert, a fall that is not
\* confirmed.
SampleReadings == {
  Reading(8, 8, 6, 2, 60, FALSE, Rising, <<2, 3, 4>>, 6),
  Reading(8, 8, 6, 2, 60, FALSE, Rising, <<2, 3, 4>>, 5),
  Reading(5, 5, 5, 2, 60, FALSE, Rising, <<2, 3, 4>>, 6),
  Reading(-8, -8, 6, -2, 40, FALSE, Falling, <<4, 3, 2>>, 2),
  Reading(0, 1, 1, 2, 80, TRUE, <<4, 6, 5>>, <<3, 3, 4>>, 5),
  Reading(-8, -8, 3, -2, 40, TRUE, <<6, 4, 5>>, <<4, 3, 2>>, 3) }

PerDay == [l \in Lanes |-> IF l = "trend" THEN 1 ELSE 2]
PerSession == [l \in Lanes |-> 1]
Sizes == [l \in Lanes |-> IF l = "trend" THEN 2 ELSE 1]
=============================================================================
