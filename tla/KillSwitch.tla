----------------------------- MODULE KillSwitch -----------------------------
(***************************************************************************)
(* The per-engine kill switch, src/risk/engine_killswitch.py, in full: a   *)
(* rolling window of losses, a trip, and a reset nobody schedules (the     *)
(* first is_active call after the cooldown performs it).                   *)
(*                                                                         *)
(* Time is counted in steps of the clock and kept as ages, capped at the   *)
(* cooldown, past which the code tells no two ages apart.  A loss is in    *)
(* units of which an engine's loss_pct is Threshold many.                  *)
(***************************************************************************)
EXTENDS Integers, FiniteSets, FiniteSetsExt

CONSTANTS
  Engines,
  Cooldown,      \* engines.<id>.cooldown_hours, also the width of the window
  Threshold,     \* engines.<id>.loss_pct
  Losses,        \* the loss_pct values callers report
  ManualResets   \* whether somebody calls reset() by hand

ASSUME KillSwitchConstants ==
  /\ Cooldown \in Nat \ {0} /\ Threshold \in Nat \ {0}
  /\ Losses \subseteq Nat
  /\ ManualResets \in BOOLEAN

VARIABLES
  window,    \* _loss_window: the loss of each age, per engine
  tripAge    \* the age of _tripped_at; Untripped for None

\* History, which the code does not keep: the losses booked while the engine was
\* free to trade, per age, since somebody last reset it by hand.  The reset that
\* ends a cooldown forgets none of them.
VARIABLE lost

vars == <<window, tripAge, lost>>

Untripped == -1

Ages == 0..Cooldown

EmptyWindow == [a \in Ages |-> 0]

Min2(x, y) == IF x < y THEN x ELSE y

\* The sum that record_loss compares with the threshold.
Cumulative(w) == MapThenSumSet(LAMBDA a : w[a], Ages)

\* What an engine lost less than a whole window ago.
LostLately(e) == MapThenSumSet(LAMBDA a : lost[e][a], 0..(Cooldown - 1))

Init ==
  /\ window = [e \in Engines |-> EmptyWindow]
  /\ tripAge = [e \in Engines |-> Untripped]
  /\ lost = window

\* One step of the clock.  A loss of the oldest age falls out of the window:
\* record_loss prunes it before it sums.
Shifted(w) == [a \in Ages |-> IF a = 0 THEN 0 ELSE w[a - 1]]

Tick ==
  /\ window' = [e \in Engines |-> Shifted(window[e])]
  /\ tripAge' = [e \in Engines |->
       IF tripAge[e] = Untripped THEN Untripped ELSE Min2(tripAge[e] + 1, Cooldown)]
  /\ lost' = [e \in Engines |-> Shifted(lost[e])]

\* The sum only matters up to the threshold, so each age keeps at most that.
WithLoss(w, loss) == [w EXCEPT ![0] = Min2(@ + loss, Threshold)]

Books(e, loss) ==
  /\ window' = [window EXCEPT ![e] = WithLoss(@, loss)]
  /\ lost' = IF tripAge[e] = Untripped THEN [lost EXCEPT ![e] = WithLoss(@, loss)] ELSE lost

\* Mutant: a loss of a tripped engine starts its cooldown over.
RestartsCooldown(e, loss) ==
  /\ Books(e, loss)
  /\ tripAge' = IF Cumulative(window'[e]) >= Threshold
                THEN [tripAge EXCEPT ![e] = 0] ELSE tripAge

\* record_loss: it does not look whether an earlier trip is over.
RecordLoss(e, loss) ==
  /\ Books(e, loss)
  /\ tripAge' = IF Cumulative(window'[e]) >= Threshold /\ tripAge[e] = Untripped
                THEN [tripAge EXCEPT ![e] = 0] ELSE tripAge

\* reset: the trip is lifted and the window emptied, whatever is in it.
Reset(e) ==
  /\ tripAge' = [tripAge EXCEPT ![e] = Untripped]
  /\ window' = [window EXCEPT ![e] = EmptyWindow]

\* Mutant: the cooldown ends a step of the clock before the window it waits for.
OverEarly(e) == tripAge[e] # Untripped /\ tripAge[e] >= Cooldown - 1

CooldownOver(e) == tripAge[e] # Untripped /\ tripAge[e] >= Cooldown

\* is_active changes state only through the reset it performs.
IsActiveResets(e) == CooldownOver(e) /\ Reset(e) /\ UNCHANGED lost

ManualReset(e) ==
  /\ ManualResets /\ Reset(e)
  /\ lost' = [lost EXCEPT ![e] = EmptyWindow]

\* What is_active(e) answers now.
IsActive(e) == tripAge[e] # Untripped /\ ~CooldownOver(e)

Next ==
  \/ Tick
  \/ \E e \in Engines, loss \in Losses : RecordLoss(e, loss)
  \/ \E e \in Engines : IsActiveResets(e)
  \/ \E e \in Engines : ManualReset(e)

Spec == Init /\ [][Next]_vars

-----------------------------------------------------------------------------
\* The values of the variables.
TypeOK ==
  /\ window \in [Engines -> [Ages -> Nat]] /\ lost \in [Engines -> [Ages -> Nat]]
  /\ tripAge \in [Engines -> Ages \cup {Untripped}]

\* An engine is free to trade only while all it lost less than a window ago,
\* booked while it was free to trade and not forgiven by hand, is below its
\* limit: the reset that empties the window does not come before what tripped
\* the switch has grown old.  (What a tripped engine goes on to lose is
\* forgotten: reset empties that too.)
TradingBelowThreshold ==
  \A e \in Engines : tripAge[e] = Untripped => LostLately(e) < Threshold

\* Nothing but the end of the cooldown, or somebody's hand, lifts a trip, and
\* no later loss restarts it.
TripLastsCooldown ==
  [][\A e \in Engines : tripAge[e] # Untripped =>
       \/ tripAge'[e] >= tripAge[e]
       \/ tripAge[e] = Cooldown /\ tripAge'[e] = Untripped
       \/ ManualResets /\ tripAge'[e] = Untripped]_vars
=============================================================================
