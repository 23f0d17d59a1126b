------------------------------ MODULE MCRetro -------------------------------
EXTENDS Retro

DeployedSettings ==
  [off |-> {}, size |-> [g \in Strategies |-> 1], score |-> 0, slots |-> 2, mult |-> 1]

Scores == {-1, 0}
Down == {-1}
=============================================================================
