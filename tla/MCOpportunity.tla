--------------------------- MODULE MCOpportunity ----------------------------
EXTENDS Opportunity, TLC

Row(vlm, quoted, liq, maxLev, carry) ==
  [vlm |-> vlm, oi |-> 2, quoted |-> quoted, impact |-> 0, funding |-> 1,
   premium |-> 1, isolated |-> maxLev < 10, liq |-> liq,
   cost |-> [long |-> 1, short |-> carry], maxLev |-> maxLev]

\* Liquid and highly leverable, liquid but limited, thin, unquoted.
SampleRows == {Row(5, TRUE, 2, 10, 1), Row(3, TRUE, 2, 3, 2), Row(3, TRUE, 1, 10, 1), Row(5, FALSE, 2, 10, 1)}

\* Washed out, overbought, and at rest.
SampleReadings ==
  {[rsi |-> 27, drop |-> 5, volr |-> 2], [rsi |-> 73, drop |-> 0, volr |-> 2], [rsi |-> 50, drop |-> 0, volr |-> 1]}

Weak == {2}
AllRegimes == {"ranging", "trending_down"}
TradesIn == [e \in TrackA |-> IF e = "mc" THEN {"ranging"} ELSE AllRegimes]
Liqs == <<1, 3>>
Costs == <<1, 5>>
Raw == [e \in Engines |-> <<0, 4>>]
Mult == [e \in Engines |-> [b \in {"trending"} |-> 2]]
Submit == ("ranging" :> 2)
Table == (1 :> [medium |-> 4, strong |-> 7, elite |-> 10]) @@ (2 :> [medium |-> 2, strong |-> 3, elite |-> 5])
Overrides == ("ranging" :> [high |-> 5, gross |-> 0])
Clamps == [high |-> <<1, 4>>, gross |-> <<0, 9>>]
SizeOf == [e \in Engines |-> 1]
Concurrent == [e \in Engines |-> CASE e = "growi" -> 3 [] e = "mc" -> 2 [] OTHER -> 2]
Candidates == [e \in Engines |-> 2]
Cut == [e \in Engines |-> IF e = "mc" THEN 1 ELSE 0]
Symmetry == Permutations(Coins)
=============================================================================
