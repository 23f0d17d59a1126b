--------------------------- MODULE MCMassExitGate ---------------------------
EXTENDS MassExitGate

Calm == [dump |-> FALSE, vol |-> "low", trend |-> "flat", features |-> TRUE,
         strict |-> FALSE, lean |-> "flat"]

\* One market for each thing the detector can say of a regime, and one that
\* meets some of the conditions of risk off and of a trend but not all.
EightMarkets ==
  {[Calm EXCEPT !.trend = "up"],                     \* up, confident
   [Calm EXCEPT !.lean = "up"],                      \* up, demoted from ranging
   [Calm EXCEPT !.trend = "down"],                   \* down, confident
   [Calm EXCEPT !.dump = TRUE, !.vol = "high"],      \* risk off
   [Calm EXCEPT !.strict = TRUE],                    \* a structured range
   Calm,                                             \* an unstructured one
   [Calm EXCEPT !.features = FALSE],                 \* ranging without the features
   [Calm EXCEPT !.dump = TRUE, !.lean = "up", !.vol = "mid"]}
=============================================================================
