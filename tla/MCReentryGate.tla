--------------------------- MODULE MCReentryGate ----------------------------
EXTENDS ReentryGate

FourPrices == 1..4

Look(g, structured, weakness) ==
  [regime |-> g, structured |-> structured, weight |-> 1, weakness |-> weakness, volume |-> 1]

\* A range, one without structure, a trend, and a coin too strong to short.
SomeLooks ==
  {Look("ranging", TRUE, 2), Look("ranging", FALSE, 2), Look("trending_down", FALSE, 2),
   Look("trending_down", FALSE, 0)}
=============================================================================
