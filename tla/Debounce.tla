------------------------------ MODULE Debounce ------------------------------
(***************************************************************************)
(* What a debounced label promises: the label held changes only to one     *)
(* that was read a given number of times in a row, and then it does.       *)
(***************************************************************************)
EXTENDS Integers

CONSTANTS
  Labels,   \* what may be read
  Initial,  \* the label held at first, one of Labels
  InARow    \* how many readings make a label count, at least one

VARIABLES
  held,     \* the label that is acted on
  latest,   \* the last label read
  times     \* how often in a row it was read, up to InARow

vars == <<held, latest, times>>

Init == held = Initial /\ latest = Initial /\ times = 0

Read(l) ==
  /\ latest' = l
  /\ times' = IF l # latest \/ times = 0 THEN 1
              ELSE IF times < InARow THEN times + 1 ELSE times
  /\ held' = IF times' = InARow THEN l ELSE held

Next == \E l \in Labels : Read(l)

Spec == Init /\ [][Next]_vars
=============================================================================
