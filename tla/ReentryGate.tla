---------------------------- MODULE ReentryGate -----------------------------
(***************************************************************************)
(* When AceVault may short a coin again: the closed positions and the      *)
(* re-entry watch of PortfolioState (src/risk/portfolio_state.py) and the  *)
(* gates of EntryManager.should_enter (src/engines/acevault/entry.py), in  *)
(* the order the code takes them, over the cycles of one coin.  Coins do   *)
(* not influence each other here, and the limit on all open positions is   *)
(* part of the choice of when the coin is a candidate.                     *)
(*                                                                         *)
(* A cycle has two parts: its head marks the price on the watch and closes *)
(* the position if an exit rule says so; after the scan the coin may be a  *)
(* candidate, with the range its candles show and a look at the market.    *)
(* The exits, the journal and the scan are awaited between.  Fractions are *)
(* percentages, costs and moves basis points.                              *)
(***************************************************************************)
EXTENDS Integers

CONSTANTS
  Prices,         \* the prices the venue may show
  Looks,          \* regime, its structure and weight, weakness and volume ratio
  MinWeakness, RangingMinWeakness, MinVolumeRatio,
  DeadZone,       \* midpoint_no_trade_fraction
  EdgeDistance,   \* min_distance_to_range_edge_for_entry
  Buffer,         \* reentry_reset_buffer_frac_of_width
  MinMoveToCost,  \* min_expected_move_to_cost_ratio
  RoundTripCost,  \* taker fee and slippage budget
  HardTarget,     \* hard_target_r_cap times the stop's distance
  Profitability,  \* acevault_profitability.enabled
  BlockLow, BlockHigh, BlockAbove,   \* its bands of weakness
  LossCooldown,   \* bars_cooldown_after_loss bars, in steps of the clock
  StopCooldown,   \* reentry_stop_loss_cooldown, in steps of the clock
  Restarts        \* whether the process may die and start again

ASSUME ReentryConstants ==
  /\ Prices \subseteq Nat \ {0}
  /\ Buffer \in Nat
  /\ LossCooldown \in Nat /\ StopCooldown \in Nat
  /\ Restarts \in BOOLEAN

ASSUME LookConstants ==
  /\ Looks \subseteq [regime : {"ranging", "trending_up", "trending_down", "risk_off"},
                      structured : BOOLEAN, weight : Nat, weakness : Nat, volume : Nat]
  /\ \A n \in {MinWeakness, RangingMinWeakness, MinVolumeRatio, DeadZone, EdgeDistance,
               MinMoveToCost, RoundTripCost, HardTarget, BlockLow, BlockHigh, BlockAbove} :
       n \in Nat
  /\ Profitability \in BOOLEAN

VARIABLES
  phase,     \* "head" or "scan": which part of the cycle comes next
  price,     \* what all_mids shows
  held,      \* an AceVault position of the coin is open
  closed,    \* the latest closed record: reason, whether it lost, its age
  watch,     \* low_since of the coin's re-entry watch, or None
  lossAge,   \* history: age of the last losing close with a cooldown reason
  stopAge,   \* history: age of the last close on the stop
  lowest,    \* history: the lowest price a cycle's head saw since the last loss
  owed       \* history: no signal since the last loss had its edge reached

vars == <<phase, price, held, closed, watch, lossAge, stopAge, lowest, owed>>
memory == <<closed, watch>>
history == <<lossAge, stopAge, lowest, owed>>

None == -1

Larger(x, y)  == IF x > y THEN x ELSE y
Smaller(x, y) == IF x < y THEN x ELSE y

\* Past this age no gate tells two ages apart.
AgeLimit == Larger(LossCooldown, StopCooldown)
Ages == 0..AgeLimit

Older(age) == IF age = None THEN None ELSE Smaller(age + 1, AgeLimit)

\* loss_cooldown_exit_reasons, and the exit reasons it does not name.
CooldownReasons == {"stop_loss", "time_stop", "trailing_stop"}
Reasons == CooldownReasons \cup {"other"}

NoRecord == [reason |-> "none", lost |-> FALSE, age |-> None]

Init ==
  /\ phase = "head" /\ price \in Prices /\ held = FALSE
  /\ closed = NoRecord /\ watch = None
  /\ lossAge = None /\ stopAge = None /\ lowest = None /\ owed = FALSE

Market ==
  /\ price' \in Prices \ {price}
  /\ UNCHANGED <<phase, held, memory, history>>

Clock ==
  /\ closed' = [closed EXCEPT !.age = Older(@)]
  /\ lossAge' = Older(lossAge) /\ stopAge' = Older(stopAge)
  /\ UNCHANGED <<phase, price, held, watch, lowest, owed>>

-----------------------------------------------------------------------------
\* acevault_reentry_mark_prices.
Marked == IF watch = None THEN None ELSE Smaller(watch, price)

LowestNow == IF lowest = None THEN None ELSE Smaller(lowest, price)

\* The head of a cycle that closes nothing of the coin: it may have no price of it.
Keep(priced) ==
  /\ phase = "head" /\ phase' = "scan"
  /\ watch' = IF priced THEN Marked ELSE watch
  /\ lowest' = IF priced THEN LowestNow ELSE lowest
  /\ UNCHANGED <<price, held, closed, lossAge, stopAge, owed>>

\* Mutant: a loss with a reason the cooldown does not know is not watched.
WatchesCooldownReasons(reason, lost) ==
  IF lost /\ reason \in CooldownReasons THEN price ELSE None

\* _acevault_on_close: a loss is watched from its exit price; a close without
\* one ends the watch.
WatchAfter(reason, lost) == IF lost THEN price ELSE None

\* The head of a cycle that closes the position.
Close(reason, lost) ==
  /\ phase = "head" /\ phase' = "scan"
  /\ held /\ held' = FALSE
  /\ closed' = [reason |-> reason, lost |-> lost, age |-> 0]
  /\ watch' = WatchAfter(reason, lost)
  /\ lossAge' = IF lost /\ reason \in CooldownReasons THEN 0 ELSE lossAge
  /\ stopAge' = IF reason = "stop_loss" THEN 0 ELSE stopAge
  /\ lowest' = IF lost THEN price ELSE None
  /\ owed' = lost
  /\ UNCHANGED price

-----------------------------------------------------------------------------
(* The candidate *)

NoRange == [low |-> None, high |-> None, last |-> None]

\* _range_geometry: the band of the latest candles and their last close, if
\* there are enough of them.
Ranges ==
  {r \in [low : Prices, high : Prices, last : Prices] : r.low <= r.last /\ r.last <= r.high}
    \cup {NoRange}

Width(r) == r.high - r.low
HasEdge(r) == r # NoRange /\ Width(r) > 0

\* acevault_opposite_edge_touched: the lower edge with its buffer.
Edge(r) == r.low + (Buffer * Width(r)) \div 100

-----------------------------------------------------------------------------
(* The gates that look at the market *)

WeaknessGate(look) ==
  look.weakness >= (IF look.regime = "ranging" THEN RangingMinWeakness ELSE MinWeakness)

LiquidityGate(look) == look.volume >= MinVolumeRatio

RegimeGate(look) == look.weight > 0

StructureGate(look) == look.regime = "ranging" => look.structured

Ranging(look) == look.regime = "ranging" /\ look.structured

\* Outside the dead zone round the middle of the range, by today's price, and
\* close to its upper edge, by the last candle's.
GeometryGate(look, r) ==
  Ranging(look) =>
    /\ HasEdge(r)
    /\ LET offset == 2 * price - (r.high + r.low)
       IN Larger(offset, -offset) * 100 > 2 * DeadZone * Width(r)
    /\ (r.high - r.last) * 100 <= EdgeDistance * Width(r)

CostGate(look, r) ==
  Ranging(look) /\ MinMoveToCost > 0 /\ r # NoRange =>
    \/ (price - r.low) * 10000 >= MinMoveToCost * RoundTripCost * price
    \/ HardTarget >= MinMoveToCost * RoundTripCost

\* classify_adaptive_entry, of which only the blocked bands refuse an entry.
Adaptive(look) ==
  Profitability =>
    /\ look.regime = "trending_up" => ~(BlockLow <= look.weakness /\ look.weakness < BlockHigh)
    /\ look.regime = "trending_down" => look.weakness <= BlockAbove

-----------------------------------------------------------------------------
(* The gates that remember *)

\* Mutant: the gate looks for stops only, as the other one does.
LossGateForStops ==
  closed.lost /\ closed.reason = "stop_loss" => closed.age >= LossCooldown

\* _check_loss_cooldown_gate.
LossGate ==
  closed.lost /\ closed.reason \in CooldownReasons => closed.age >= LossCooldown

\* _check_reentry_cooldown_gate: a stop counts even when it closed with a gain.
StopGate == closed.reason = "stop_loss" => closed.age >= StopCooldown

\* _check_reentry_reset_gate: it lets a candidate without a range pass.
ResetGate(r) == HasEdge(r) /\ watch # None => watch <= Edge(r)

\* should_enter
MayEnter(look, r) ==
  /\ WeaknessGate(look) /\ LiquidityGate(look) /\ RegimeGate(look) /\ StructureGate(look)
  /\ ~held
  /\ GeometryGate(look, r)
  /\ LossGate /\ ResetGate(r)
  /\ CostGate(look, r)
  /\ StopGate
  /\ Adaptive(look)

\* The coin is not a candidate, or the cycle ended before the scan.
NotACandidate ==
  /\ phase = "scan" /\ phase' = "head"
  /\ UNCHANGED <<price, held, memory, history>>

Refuse(look, r) ==
  /\ phase = "scan" /\ phase' = "head"
  /\ ~MayEnter(look, r)
  /\ UNCHANGED <<price, held, memory, history>>

(***************************************************************************)
(* should_enter builds a signal and clears the watch.  The signal may      *)
(* still be rejected by the risk layer or lost in the submission: then the *)
(* watch is gone and nothing was opened.                                   *)
(***************************************************************************)
Signal(look, r, opened) ==
  /\ phase = "scan" /\ phase' = "head"
  /\ MayEnter(look, r)
  /\ watch' = None
  /\ held' = opened
  /\ owed' = (owed /\ HasEdge(r) /\ lowest > Edge(r))
  /\ UNCHANGED <<price, closed, lossAge, stopAge, lowest>>

\* All of this is memory; what was open belongs to "recovered" from now on.
Restart ==
  /\ Restarts
  /\ phase' = "head" /\ held' = FALSE
  /\ closed' = NoRecord /\ watch' = None
  /\ lossAge' = None /\ stopAge' = None /\ lowest' = None /\ owed' = FALSE
  /\ UNCHANGED price

Next ==
  \/ Market \/ Clock \/ Restart
  \/ \E priced \in BOOLEAN : Keep(priced)
  \/ \E reason \in Reasons, lost \in BOOLEAN : Close(reason, lost)
  \/ NotACandidate
  \/ \E look \in Looks, r \in Ranges :
       Refuse(look, r) \/ \E opened \in BOOLEAN : Signal(look, r, opened)

Spec == Init /\ [][Next]_vars

-----------------------------------------------------------------------------
\* The values of the variables.
TypeOK ==
  /\ phase \in {"head", "scan"} /\ price \in Prices /\ held \in BOOLEAN
  /\ closed \in {NoRecord} \cup [reason : Reasons, lost : BOOLEAN, age : Ages]
  /\ watch \in Prices \cup {None} /\ lowest \in Prices \cup {None}
  /\ lossAge \in Ages \cup {None} /\ stopAge \in Ages \cup {None}
  /\ owed \in BOOLEAN

\* Within one life of the process a coin is not entered again before both of its
\* cooldowns are over, counted from every earlier close and not only from the
\* latest, which is the one the gates look at.
LossesWaitOut ==
  [][~held /\ held' =>
       /\ lossAge = None \/ lossAge >= LossCooldown
       /\ stopAge = None \/ stopAge >= StopCooldown]_vars

\* A coin closed at a loss, for whatever reason, is entered again only after some
\* cycle since then saw the lower edge of a range the coin was signalled on, or a
\* signal had no range to speak of: acevault_clear_reentry_watch also runs for
\* signals that open nothing, but a loss is never forgotten unearned.
EdgeEarned == [][~held /\ held' => ~owed']_vars
=============================================================================
