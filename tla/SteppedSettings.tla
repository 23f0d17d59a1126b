-------------------------- MODULE SteppedSettings --------------------------
(***************************************************************************)
(* What the retrospective promises of config.yaml, without saying how: the *)
(* file changes by one notch of one setting at a time, only the minimum    *)
(* signal score may go either way, and between two changes passes at least *)
(* the pause, unless the note of the earlier one was never written.        *)
(* Retro is shown to implement this (Retro!Stepped).                       *)
(***************************************************************************)
EXTENDS Integers

CONSTANTS
  Coins, Strategies,
  Factory,     \* the settings the operator deployed, and may put back
  Pause        \* cooldown_minutes_after_change, in steps of the clock

VARIABLES
  setting,     \* what config.yaml says
  rest,        \* time since the last automatic change, up to Pause
  noted        \* the last automatic change is on record

vars == <<setting, rest, noted>>

\* One notch of one setting: sizes, slots and multiplier only go down, the
\* disabled coins only grow.
OneNotch(s, t) ==
  \/ t = s
  \/ \E c \in Coins : t = [s EXCEPT !.off = @ \cup {c}]
  \/ \E g \in Strategies : t = [s EXCEPT !.size[g] = @ - 1]
  \/ t = [s EXCEPT !.score = @ + 1] \/ t = [s EXCEPT !.score = @ - 1]
  \/ t = [s EXCEPT !.slots = @ - 1]
  \/ t = [s EXCEPT !.mult = @ - 1]

Init == setting = Factory /\ rest = Pause /\ noted = TRUE

Change ==
  /\ noted => rest >= Pause
  /\ OneNotch(setting, setting')
  /\ rest' = 0
  /\ noted' = FALSE

Note == noted' = TRUE /\ UNCHANGED <<setting, rest>>

Wait ==
  /\ rest' = IF rest < Pause THEN rest + 1 ELSE Pause
  /\ UNCHANGED <<setting, noted>>

PutBack == setting' = Factory /\ UNCHANGED <<rest, noted>>

Next == Change \/ Note \/ Wait \/ PutBack

Spec == Init /\ [][Next]_vars
=============================================================================
