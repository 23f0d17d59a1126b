------------------------------ MODULE BtcLanes ------------------------------
(***************************************************************************)
(* The BTC lanes strategy: its regime detector (src/regime/btc), the       *)
(* supervisor that permits one of two lanes (src/supervisors), the lanes'  *)
(* proposals (src/strategies), the activity limits and gates               *)
(* (src/risk/btc_lane_limits.py) and the cycle that joins them             *)
(* (src/engines/btc_lanes/engine.py), behind its kill switch.              *)
(*                                                                         *)
(* A reading is what the indicators make of the fetched candles (trends,   *)
(* volatility, distance from the VWAP and RSI, in integer notches that are *)
(* compared with thresholds) and the highs, lows and last close of the     *)
(* latest 5 minute bars.  Session ids are left out: the detector counts    *)
(* one up exactly when the regime changes, and the same cycle hands it to  *)
(* the limits.                                                             *)
(***************************************************************************)
EXTENDS KillSwitch, Sequences, SequencesExt

CONSTANTS
  Btc,              \* the strategy's engine_id, one of Engines
  Readings,         \* what the market may look like
  TrendMin,         \* trend_min, in notches
  VolTrend,         \* vol_trend, in notches
  ExtendedMin,      \* extreme_dist_min, in notches
  SwingBars,        \* swing_bars
  RangeBars,        \* range_high_lookback_bars
  RsiExtreme,       \* rsi_extreme
  MinConfidence,    \* trend_min_confidence, in tenths
  HysteresisTicks,  \* hysteresis_ticks
  MaxOpensPerDay, MaxOpensPerSession,   \* per lane
  PositionSize,     \* position_size_usd, per lane
  GrossCap,         \* max_btc_gross_usd
  DayLength,        \* steps of the clock in a UTC day
  MaxPositions      \* bound of the model on open positions per lane

Lanes == {"trend", "regression"}

Regimes == {"trending_up", "trending_down", "mean_reverting"}

ASSUME BtcLanesConstants ==
  /\ Btc \in Engines
  /\ \A r \in Readings :
       /\ r \in [t1 : Int, t4 : Int, vol : Nat, dist : Int, rsi : 0..100, compressing : BOOLEAN,
                 highs : Seq(Nat), lows : Seq(Nat), last : Nat]
       /\ Len(r.highs) = Len(r.lows) /\ r.highs # <<>>
  /\ \A n \in {TrendMin, VolTrend, HysteresisTicks, GrossCap, DayLength, SwingBars, RangeBars} :
       n \in Nat \ {0}
  /\ ExtendedMin \in Nat /\ RsiExtreme \in 51..100
  /\ MinConfidence \in 0..10 /\ MaxPositions \in Nat
  /\ \A f \in {MaxOpensPerDay, MaxOpensPerSession, PositionSize} : f \in [Lanes -> Nat]

VARIABLES
  regime,       \* _committed
  rawHistory,   \* _raw_history
  dayOpens,     \* _day.trend_opens and _day.regression_opens
  sessOpens,    \* _sess_trend and _sess_regression
  sameDay,      \* whether _day.utc_day is today
  hour,         \* time of day
  intent,       \* the proposal on its way to the executor
  open          \* the engine's open BTC positions of each lane

limits == <<dayOpens, sessOpens, sameDay>>
detector == <<regime, rawHistory>>
lanesVars == <<vars, detector, limits, hour, intent, open>>

NoIntent == "none"
Zero == [l \in Lanes |-> 0]

LanesInit ==
  /\ Init
  /\ regime = "mean_reverting" /\ rawHistory = <<>>
  /\ dayOpens = Zero /\ sessOpens = Zero /\ sameDay = TRUE
  /\ hour = 0 /\ intent = NoIntent
  /\ open = Zero

-----------------------------------------------------------------------------
(* The detector *)

\* The last n bars of s, or as many as there are.
LastBars(s, n) == IF Len(s) <= n THEN s ELSE SubSeq(s, Len(s) - n + 1, Len(s))

NeverFalls(s) == \A i \in 2..Len(s) : s[i] >= s[i - 1]
NeverRises(s) == \A i \in 2..Len(s) : s[i] <= s[i - 1]

\* swing_structure_highs_lows: bars that do not move at all count as rising.
Structure(r) ==
  LET h == LastBars(r.highs, SwingBars)
      l == LastBars(r.lows, SwingBars)
  IN CASE NeverFalls(h) /\ NeverFalls(l) -> "HH_HL"
       [] NeverRises(h) /\ NeverRises(l) -> "LL_LH"
       [] OTHER                          -> "NEUTRAL"

RawClassify(r) ==
  CASE r.t1 > TrendMin /\ r.t4 > TrendMin /\ r.vol > VolTrend /\ Structure(r) = "HH_HL"
         -> "trending_up"
    [] r.t1 < -TrendMin /\ r.t4 < -TrendMin /\ r.vol > VolTrend /\ Structure(r) = "LL_LH"
         -> "trending_down"
    [] OTHER -> "mean_reverting"

Abs(x) == IF x < 0 THEN -x ELSE x

Extended(r) == Abs(r.dist) >= ExtendedMin

Weaker(r) == Min2(Abs(r.t1), Abs(r.t4))

\* _confidence(...) >= trend_min_confidence of a trending regime g: the mean of
\* the trend's and the volatility's ratio to its threshold, halved, and halved
\* again when the hourly trend does not bear the regime out.
Confident(r, g) ==
  LET borneOut == IF g = "trending_up" THEN r.t1 >= TrendMin ELSE r.t1 <= -TrendMin
  IN 10 * (Weaker(r) * VolTrend + r.vol * TrendMin)
       >= MinConfidence * TrendMin * VolTrend * (IF borneOut THEN 4 ELSE 8)

Uniform(h) == \A i, j \in DOMAIN h : h[i] = h[j]

\* Mutants: the newest label decides alone; a full deque takes no more.
AppendedAlone(h, raw) == [i \in 1..HysteresisTicks |-> raw]

AppendedUntilFull(h, raw) == IF Len(h) < HysteresisTicks THEN Append(h, raw) ELSE h

\* The deque: at most hysteresis_ticks labels, the newest last.
Appended(h, raw) ==
  LET longer == Append(h, raw)
  IN IF Len(longer) > HysteresisTicks THEN Tail(longer) ELSE longer

Commits(h) == Len(h) >= HysteresisTicks /\ Uniform(h)

\* detect with enough candles; without them it changes nothing.
Detect(r) ==
  /\ rawHistory' = Appended(rawHistory, RawClassify(r))
  /\ regime' = IF Commits(rawHistory') THEN Last(rawHistory') ELSE regime

-----------------------------------------------------------------------------
(* The supervisor, the limits and the gates *)

TrendAllowed(r, g) == g # "mean_reverting" /\ Confident(r, g)

RegressionAllowed(r, g) == g = "mean_reverting" /\ Extended(r) /\ r.compressing

\* lane_permissions: at most one lane.
Permitted(r, g) ==
  {l \in Lanes : IF l = "trend" THEN TrendAllowed(r, g) ELSE RegressionAllowed(r, g)}

\* TrendContinuationStrategy: the last close is beyond the range of the bars
\* before it, on the side of the regime.
TrendSetup(r, g) ==
  LET earlier(s) == LET w == LastBars(s, RangeBars) IN IF Len(w) > 1 THEN Front(w) ELSE w
  IN CASE g = "trending_up"   -> r.last > Max(ToSet(earlier(r.highs)))
       [] g = "trending_down" -> r.last < Min(ToSet(earlier(r.lows)))
       [] OTHER               -> FALSE

\* PostImpulseRegressionStrategy: stretched the same way from the VWAP and by RSI.
RegressionSetup(r) ==
  \/ r.dist > 0 /\ r.rsi >= RsiExtreme
  \/ r.dist < 0 /\ r.rsi <= 100 - RsiExtreme

HasSetup(l, r, g) == IF l = "trend" THEN TrendSetup(r, g) ELSE RegressionSetup(r)

\* _roll_day, of which allow and record both begin.
Rolled == IF sameDay THEN dayOpens ELSE Zero

AllowOpen(l, sess) == Rolled[l] < MaxOpensPerDay[l] /\ sess[l] < MaxOpensPerSession[l]

GrossBtc ==
  open["trend"] * PositionSize["trend"] + open["regression"] * PositionSize["regression"]

\* btc_lane_risk_gates.  Whether the engine's pnl of 24 hours is past its cap
\* comes from PortfolioState and is left to the environment.
WithinRiskGates(lossGate) == ~lossGate /\ GrossBtc < GrossCap

-----------------------------------------------------------------------------
(* run_cycle *)

\* is_active, asked first: it lifts an expired trip, or stops the cycle.
AsksKillSwitch ==
  /\ ~IsActive(Btc)
  /\ IF CooldownOver(Btc) THEN IsActiveResets(Btc) ELSE UNCHANGED vars

\* Too few candles, or the fetch raised: no detection, and no lane is permitted
\* because the confidence is zero and the flags are false.
CycleWithoutData ==
  /\ intent = NoIntent /\ AsksKillSwitch
  /\ UNCHANGED <<detector, limits, hour, intent, open>>

\* A detection, and the limits told of a new session.
Detects(r) ==
  /\ intent = NoIntent /\ AsksKillSwitch
  /\ Detect(r)
  /\ UNCHANGED <<hour, open>>

SyncedSession == IF regime' # regime THEN Zero ELSE sessOpens

\* No lane is permitted, or its setup is missing, or a gate or cap forbids it.
\* Only a permitted lane that passed the gates comes to roll the day.
CycleDeclines(r, lossGate) ==
  /\ Detects(r)
  /\ sessOpens' = SyncedSession
  /\ LET asked == IF WithinRiskGates(lossGate) THEN Permitted(r, regime') ELSE {}
     IN /\ \A l \in asked : ~AllowOpen(l, SyncedSession) \/ ~HasSetup(l, r, regime')
        /\ dayOpens' = IF asked # {} THEN Rolled ELSE dayOpens
        /\ sameDay' = (asked # {} \/ sameDay)
  /\ UNCHANGED intent

\* The permitted lane proposes, which counts whether or not it is executed.
CycleProposes(r, lossGate) ==
  /\ Detects(r)
  /\ WithinRiskGates(lossGate)
  /\ \E l \in Permitted(r, regime') :
       /\ AllowOpen(l, SyncedSession) /\ HasSetup(l, r, regime')
       /\ dayOpens' = [Rolled EXCEPT ![l] = @ + 1]
       /\ sessOpens' = [SyncedSession EXCEPT ![l] = @ + 1]
       /\ sameDay' = TRUE
       /\ intent' = l

-----------------------------------------------------------------------------
(* The rest of the process *)

\* The executor takes the intent, or the conflict policy, the risk layer or
\* the venue turns it down; both before the next cycle.
Execute ==
  /\ intent # NoIntent /\ open[intent] < MaxPositions
  /\ open' = [open EXCEPT ![intent] = @ + 1]
  /\ intent' = NoIntent
  /\ UNCHANGED <<vars, detector, limits, hour>>

TurnDown ==
  /\ intent # NoIntent
  /\ intent' = NoIntent
  /\ UNCHANGED <<vars, detector, limits, hour, open>>

Close(l) ==
  /\ open[l] > 0
  /\ open' = [open EXCEPT ![l] = @ - 1]
  /\ UNCHANGED <<vars, detector, limits, hour, intent>>

Midnight == hour = DayLength - 1

Clock ==
  /\ Tick
  /\ hour' = (hour + 1) % DayLength
  /\ sameDay' = (sameDay /\ ~Midnight)
  /\ UNCHANGED <<detector, dayOpens, sessOpens, intent, open>>

SwitchUsed(A) == A /\ UNCHANGED <<detector, limits, hour, intent, open>>

LanesNext ==
  \/ CycleWithoutData
  \/ \E r \in Readings, g \in BOOLEAN : CycleDeclines(r, g) \/ CycleProposes(r, g)
  \/ Execute \/ TurnDown \/ Clock
  \/ \E l \in Lanes : Close(l)
  \/ \E e \in Engines, loss \in Losses : SwitchUsed(RecordLoss(e, loss))
  \/ \E e \in Engines : SwitchUsed(ManualReset(e))

LanesSpec == LanesInit /\ [][LanesNext]_lanesVars

\* The main loop runs a cycle whenever the last tick is over, and the candle
\* feed works again and again, also after a trip is over.
DetectingCycle == \E r \in Readings, g \in BOOLEAN : CycleDeclines(r, g) \/ CycleProposes(r, g)

LanesFairSpec ==
  /\ LanesSpec
  /\ WF_lanesVars(Clock) /\ WF_lanesVars(Execute \/ TurnDown)
  /\ SF_lanesVars(DetectingCycle)

-----------------------------------------------------------------------------
\* The regime the lanes trade on is a debounced label of the market: it changes
\* only after hysteresis_ticks equal readings in a row, and then it does.
Streak(h) == Cardinality({i \in DOMAIN h : \A j \in i..Len(h) : h[j] = Last(h)})

Debounced == INSTANCE Debounce WITH
  Labels <- Regimes, Initial <- "mean_reverting", InARow <- HysteresisTicks,
  held <- regime, times <- Streak(rawHistory),
  latest <- IF rawHistory = <<>> THEN "mean_reverting" ELSE Last(rawHistory)

DebouncesRegime == Debounced!Spec

\* A lane proposes an open only while the engine's recent losses are below its
\* limit, whatever trips, resets and cycles came before: run_cycle asks the kill
\* switch first, in the same cycle.
ProposesBelowLimit ==
  [][intent = NoIntent /\ intent' # NoIntent => LostLately(Btc)' < Threshold]_lanesVars

\* A market that keeps one face is traded as what it is, whatever trips, data
\* gaps and earlier regimes came first.
LastingMarketIsCommitted ==
  \A g \in Regimes : <>[](rawHistory # <<>> /\ Last(rawHistory) = g) => <>[](regime = g)
=============================================================================
