---------------------------- MODULE Opportunity -----------------------------
(***************************************************************************)
(* How the strategies find, rank and lever their entries: the cycles of    *)
(* Growi HF and MC recovery and AceVault's ranking of its candidates       *)
(* (src/engines), the shared opportunity ranker and leverage policy        *)
(* (src/opportunity), fed by the cached venue metadata                     *)
(* (src/market_context/hl_meta_snapshot.py), on one book.                  *)
(*                                                                         *)
(* Scores, alphas and multipliers are integers; the exp and log terms of   *)
(* the liquidity and cost multipliers are fields of an asset's row, and    *)
(* what the candles of a coin say (RSI, drop, volume ratio, weakness) is a *)
(* reading.  What the entry manager, the risk layer, the conflict policy   *)
(* and the venue make of an intent is left to the environment: ReentryGate *)
(* and TradingTick model it.                                               *)
(***************************************************************************)
EXTENDS Integers, FiniteSets, FiniteSetsExt, Bags

CONSTANTS
  Markets, Excluded,   \* what the venue quotes; spot, index and EXCLUDED_COINS
  Disabled,            \* learning.disabled_coins
  Rows,                \* what the venue may say of an asset
  Readings,            \* what the candles of a coin may show
  Weaknesses,          \* weakness scores of AceVault's scanner
  Regimes, Allowed,    \* regime_allow of each Track A strategy
  MinVolume, MinOpenInterest, MaxImpact, MaxFunding,   \* opportunity.hard_reject,
  MaxPremium, RejectIsolated,                          \* a maximum of 0 asks nothing
  LiqRange, CostRange, \* the ranges of the two multipliers
  RawRange,            \* opportunity.alpha: min_raw and max_raw per engine
  AlphaScale,          \* the integer that stands for an alpha of 1
  RegimeByEngine, DefaultMult,       \* opportunity.regime
  MinSubmitBase, MinSubmitByRegime,  \* opportunity.final_score
  Tier1Liq, Tier2Liq,  \* opportunity.tiering
  MediumScore, StrongScore, EliteScore,   \* confidence_bands
  BandLeverage,        \* by_band capped by tier_caps, per tier and band
  TopTarget,           \* top_target_x
  HighLeverage,        \* high_leverage_threshold_x
  HighBase, GrossBase, \* portfolio_caps: positions and gross
  CapMult, CapClamps,  \* regime_overrides, in tenths, and their clamps
  Size,                \* position size per engine
  MaxConcurrent,       \* max_concurrent_positions per engine
  MaxCandidates,       \* max_candidates per engine
  MaxEval,             \* max_coins_to_evaluate per engine, 0 for all
  AcePool,             \* acevault_rank_pool_size
  Oversold, Overbought, MinDrop, RsiMax, MinVolRatio,
  RefreshEvery         \* context_refresh_seconds, in steps of the clock

TrackA == {"growi", "mc"}
Engines == TrackA \cup {"acevault"}
Sides == {"long", "short"}

\* perp_symbols_from_mids
Coins == Markets \ Excluded

ASSUME OpportunityConstants ==
  /\ Rows \subseteq [vlm : Nat, oi : Nat, quoted : BOOLEAN, impact : Nat, funding : Nat,
                     premium : Nat, isolated : BOOLEAN, liq : Nat, cost : [Sides -> Nat],
                     maxLev : Nat]
  /\ Readings \subseteq [rsi : Nat, drop : Nat, volr : Nat]
  /\ Disabled \subseteq Coins /\ Weaknesses \subseteq Nat
  /\ \E G \in SUBSET Regimes : MinSubmitByRegime \in [G -> Nat]
  /\ \E G \in SUBSET Regimes : CapMult \in [G -> [high : Nat, gross : Nat]]
  /\ CapClamps \in [high : Nat \X Nat, gross : Nat \X Nat]
  /\ Size \in [Engines -> Nat] /\ MaxCandidates \in [Engines -> Nat]
  /\ MaxConcurrent \in [Engines -> Nat] /\ Allowed \in [TrackA -> SUBSET Regimes]
  /\ MaxEval \in [Engines -> Nat] /\ AcePool \in Nat
  /\ IsFiniteSet(Coins) /\ IsFiniteSet(Regimes) /\ Regimes # {}
  /\ \A e \in TrackA : Allowed[e] \subseteq Regimes
  /\ HighBase \in Nat /\ GrossBase \in Nat
  /\ HighLeverage \in Nat \ {0} /\ TopTarget \in Nat /\ RefreshEvery \in Nat
  /\ BandLeverage \in [{1, 2} -> [{"medium", "strong", "elite"} -> Nat]]

VARIABLES
  rows,      \* _by_upper: the last parsed row of each asset, or NoRow
  valid,     \* _ok
  age,       \* time since _last_attempt_mono
  turn,      \* whose cycle of the tick comes next
  queue,     \* intents on their way to the venue
  book       \* open positions, a bag

cyclesVars == <<rows, valid, age, turn, queue, book>>

NoRow == [vlm |-> -1, oi |-> -1, quoted |-> FALSE, impact |-> 0, funding |-> 0,
          premium |-> 0, isolated |-> FALSE, liq |-> 0, cost |-> [d \in Sides |-> 0], maxLev |-> 0]
NoRows == [c \in Coins |-> NoRow]

CyclesInit ==
  /\ rows = NoRows /\ valid = FALSE /\ age = RefreshEvery
  /\ turn = "refresh" /\ queue = {} /\ book = EmptyBag

-----------------------------------------------------------------------------
(* The metadata snapshot *)

\* refresh: an unusable answer or an exception leaves no rows behind.
Fetched(answer) ==
  /\ rows' = answer /\ valid' = TRUE

FetchFailed == rows' = NoRows /\ valid' = FALSE

RefreshIfNeeded ==
  /\ turn = "refresh" /\ turn' = "acevault"
  /\ IF age < RefreshEvery THEN UNCHANGED <<rows, valid, age>>
     ELSE /\ age' = 0
          /\ \/ \E answer \in [Coins -> Rows] : Fetched(answer)
             \/ FetchFailed
  /\ UNCHANGED <<queue, book>>

-----------------------------------------------------------------------------
(* The ranker *)

\* hard_reject_check; funding and premium are absolute.
Over(x, max) == max > 0 /\ x > max

HardReject(row) ==
  \/ row = NoRow
  \/ row.vlm < MinVolume \/ row.oi < MinOpenInterest \/ ~row.quoted
  \/ Over(row.impact, MaxImpact) \/ Over(row.funding, MaxFunding)
  \/ Over(row.premium, MaxPremium) \/ (RejectIsolated /\ row.isolated)

Clamp(x, range) == Min({Max({x, range[1]}), range[2]})

\* normalize_engine_alpha
Alpha(e, raw) ==
  LET lo == RawRange[e][1]
      hi == RawRange[e][2]
  IN IF hi <= lo THEN AlphaScale \div 2
     ELSE Clamp((AlphaScale * (raw - lo)) \div (hi - lo), <<0, AlphaScale>>)

\* compute_liq_mult and compute_cost_mult: the cost depends on the side, for
\* funding that one side pays the other receives.
LiqMult(row) == Clamp(row.liq, LiqRange)
CostMult(row, side) == Clamp(row.cost[side], CostRange)

Bucket(g) ==
  CASE g \in {"trending_up", "trending_down"} -> "trending"
    [] g = "risk_off"                         -> "panic"
    [] OTHER                                  -> g

RegimeMult(e, g) ==
  IF Bucket(g) \in DOMAIN RegimeByEngine[e] THEN RegimeByEngine[e][Bucket(g)] ELSE DefaultMult

\* classify_tier: from liquidity alone.
Tier(row) == CASE LiqMult(row) >= Tier1Liq -> 1 [] LiqMult(row) >= Tier2Liq -> 2 [] OTHER -> 3

\* A setup is the raw score an engine gives a coin and the side it would take.
FinalScore(e, g, setup, row) ==
  Alpha(e, setup.raw) * LiqMult(row) * RegimeMult(e, g) * CostMult(row, setup.side)

\* effective_min_submit_score
MinSubmit(g) == IF g \in DOMAIN MinSubmitByRegime THEN MinSubmitByRegime[g] ELSE MinSubmitBase

\* rank_opportunity, and the threshold an enforced ranking adds to it.
Eligible(e, g, setup, row) ==
  ~HardReject(row) /\ Tier(row) < 3 /\ FinalScore(e, g, setup, row) >= MinSubmit(g)

-----------------------------------------------------------------------------
(* The leverage policy *)

Band(score) ==
  CASE score >= EliteScore  -> "elite"
    [] score >= StrongScore -> "strong"
    [] score >= MediumScore -> "medium"
    [] OTHER                -> "weak"

\* propose_leverage
Proposed(score, row) ==
  IF Band(score) = "weak" \/ Tier(row) >= 3 THEN 1
  ELSE Max({1, Min({BandLeverage[Tier(row)][Band(score)], TopTarget, Max({row.maxLev, 1})})})

Copies(P(_)) == MapThenSumSet(LAMBDA p : IF P(p) THEN book[p] ELSE 0, DOMAIN book)

IsHigh(p) == p.high
HighCount == Copies(IsHigh)
HighNotional == MapThenSumSet(LAMBDA p : IF IsHigh(p) THEN book[p] * Size[p.engine] ELSE 0, DOMAIN book)

Min2(x, y) == IF x < y THEN x ELSE y

\* resolve_effective_high_leverage_caps
EffectiveCaps(g) ==
  IF g \in DOMAIN CapMult
  THEN [high  |-> Clamp((HighBase * CapMult[g].high) \div 10, CapClamps.high),
        gross |-> Clamp((GrossBase * CapMult[g].gross) \div 10, CapClamps.gross)]
  ELSE [high |-> HighBase, gross |-> GrossBase]

\* Mutant: only the engine's own positions count.
CappedByOwn(e, g, lev) ==
  IF lev >= HighLeverage /\ Copies(LAMBDA p : IsHigh(p) /\ p.engine = e) >= EffectiveCaps(g).high
  THEN Max({1, HighLeverage - 1}) ELSE lev

\* apply_portfolio_leverage_caps: the book as it is before any intent of this
\* cycle is executed.
Capped(e, g, lev) ==
  LET caps == EffectiveCaps(g)
  IN IF lev >= HighLeverage
        /\ \/ HighCount >= caps.high
           \/ caps.gross > 0 /\ HighNotional + Size[e] > caps.gross
     THEN Max({1, HighLeverage - 1}) ELSE lev

Leverage(e, g, setup, row) == Capped(e, g, Proposed(FinalScore(e, g, setup, row), row))

-----------------------------------------------------------------------------
(* Finding the setups *)

\* The n best of S by a measure; ties fall either way.
Best(S, n, V(_)) ==
  {T \in kSubset(Min2(n, Cardinality(S)), S) : \A c \in T, d \in S \ T : V(c) >= V(d)}

LiquidityPreScore(c) == rows[c].vlm + rows[c].oi

\* order_perp_symbols_for_evaluation, cut to max_coins_to_evaluate.
Evaluated(e, S) == IF MaxEval[e] = 0 THEN {S} ELSE Best(S, MaxEval[e], LiquidityPreScore)

\* Candles that are missing, too few or flat show nothing.
NoReading == [rsi |-> -1, drop |-> -1, volr |-> -1]
Shown == [Coins -> Readings \cup {NoReading}]

NoSetup == [raw |-> -1, side |-> "none"]

GrowiSetup(reading) ==
  CASE reading = NoReading        -> NoSetup
    [] reading.rsi <= Oversold    -> [raw |-> Oversold - reading.rsi, side |-> "long"]
    [] reading.rsi >= Overbought  -> [raw |-> reading.rsi - Overbought, side |-> "short"]
    [] OTHER                      -> NoSetup

McSetup(reading) ==
  IF reading # NoReading /\ reading.drop >= MinDrop /\ reading.rsi <= RsiMax
     /\ reading.volr >= MinVolRatio
  THEN [raw |-> reading.drop, side |-> "long"] ELSE NoSetup

\* The setups of a Track A cycle: the cut comes first, so a disabled coin uses
\* up a place of it.
TrackASetups(e) ==
  {[c \in top \ Disabled |-> IF e = "growi" THEN GrowiSetup(shown[c]) ELSE McSetup(shown[c])] :
     top \in Evaluated(e, Coins), shown \in Shown}

\* _compute_weakness_score: none for a coin whose candles, or BTC's, are
\* missing, too few or flat.
WeaknessScores == [Coins -> {[raw |-> w, side |-> "short"] : w \in Weaknesses} \cup {NoSetup}]

\* AltScanner.scan: disabled coins go before the cut, coins without a score
\* after it, and the weakest AcePool stay.
AceSetups ==
  LET pools(top, seen) == Best({c \in top : seen[c] # NoSetup}, AcePool, LAMBDA c : seen[c].raw)
  IN UNION {{[c \in pool |-> seen[c]] : pool \in pools(top, seen)} :
              top \in Evaluated("acevault", Coins \ Disabled), seen \in WeaknessScores}

-----------------------------------------------------------------------------
(* The cycles *)

\* What an enforced ranking keeps of the setups found.
Kept(e, g, found) ==
  {c \in DOMAIN found : found[c] # NoSetup /\ Eligible(e, g, found[c], rows[c])}

\* NormalizedEntryIntent
Intent(e, g, c, setup) ==
  [engine |-> e, coin |-> c, side |-> setup.side, lev |-> Leverage(e, g, setup, rows[c])]

\* Intents for the best of the kept coins.
Submitted(e, g, found) ==
  {{Intent(e, g, c, found[c]) : c \in T} :
     T \in Best(Kept(e, g, found), MaxCandidates[e],
                LAMBDA c : FinalScore(e, g, found[c], rows[c]))}

OpenOf(e) == Copies(LAMBDA p : p.engine = e)

NextTurn(e) == CASE e = "acevault" -> "growi" [] e = "growi" -> "mc" [] e = "mc" -> "execute"

\* Mutant: no capacity check.
HasNoLimit(e) == TRUE

HasCapacity(e) == OpenOf(e) < MaxConcurrent[e]

\* run_cycle of a Track A strategy, under the enforced ranking of config.yaml.
Cycle(e) ==
  /\ turn = e /\ turn' = NextTurn(e)
  /\ HasCapacity(e) /\ valid
  /\ \E g \in Allowed[e], found \in TrackASetups(e) :
       \E intents \in Submitted(e, g, found) : queue' = queue \cup intents
  /\ UNCHANGED <<rows, valid, age, book>>

\* AceVault ranks its candidates; its entry manager, risk check and advisor
\* let some of them through, and they are executed within its own cycle.
AceCycle ==
  /\ turn = "acevault" /\ turn' = "drain"
  /\ HasCapacity("acevault") /\ valid
  /\ \E g \in Regimes, found \in AceSetups :
       \E intents \in Submitted("acevault", g, found) :
         \E through \in SUBSET intents : queue' = through
  /\ UNCHANGED <<rows, valid, age, book>>

\* A strategy that is killed, in a regime it does not trade, full, without
\* prices or without a valid snapshot proposes nothing.
SitOut(e) ==
  /\ turn = e /\ turn' = NextTurn(e)
  /\ UNCHANGED <<rows, valid, age, queue, book>>

Settle(i, result) ==
  /\ turn \in {"drain", "execute"} /\ i \in queue
  /\ queue' = queue \ {i}
  /\ book' = result
  /\ UNCHANGED <<rows, valid, age, turn>>

\* register_position; of its leverage only the caps make use.
Position(i) == [engine |-> i.engine, high |-> i.lev >= HighLeverage]

Filled(i) == Settle(i, book (+) SetToBag({Position(i)}))
Rejected(i) == Settle(i, book)

Settled ==
  /\ turn \in {"drain", "execute"} /\ queue = {}
  /\ turn' = IF turn = "drain" THEN "growi" ELSE "refresh"
  /\ UNCHANGED <<rows, valid, age, queue, book>>

PositionCloses(p) ==
  /\ p \in DOMAIN book
  /\ book' = book (-) SetToBag({p})
  /\ UNCHANGED <<rows, valid, age, turn, queue>>

ContextAges ==
  /\ age < RefreshEvery /\ age' = age + 1
  /\ UNCHANGED <<rows, valid, turn, queue, book>>

CyclesNext ==
  \/ RefreshIfNeeded \/ AceCycle \/ Settled \/ ContextAges
  \/ \E e \in TrackA : Cycle(e)
  \/ \E e \in Engines : SitOut(e)
  \/ \E i \in queue : Filled(i) \/ Rejected(i)
  \/ \E p \in DOMAIN book : PositionCloses(p)

CyclesSpec == CyclesInit /\ [][CyclesNext]_cyclesVars

-----------------------------------------------------------------------------
\* max_high_leverage_positions is read per candidate against the book alone:
\* AceVault's batch, and the two strategies of one tick that do not see each
\* other's intents, may pass it, but only by what one tick can propose.
HighLeverageOvershootBounded ==
  LET cap == Max({EffectiveCaps(g).high : g \in Regimes})
      batch == Max({MaxCandidates["acevault"], MaxCandidates["growi"] + MaxCandidates["mc"]})
  IN HighCount <= Max({0, cap - 1}) + batch

\* A strategy checks its capacity once for all intents of its cycle: it may
\* pass max_concurrent_positions by the rest of one batch, however its
\* positions close and its intents are delayed.
CapacityOvershootBounded ==
  \A e \in Engines : OpenOf(e) <= Max({0, MaxConcurrent[e] - 1}) + MaxCandidates[e]

=============================================================================
