----------------------------- MODULE MarketGate -----------------------------
(***************************************************************************)
(* What the market has to say about an entry.  At the head of each tick    *)
(* the orchestrator stores a BTC context (src/market/btc_context_engine.py *)
(* in btc_context_holder.py) and, when it is due, the list of tradable     *)
(* coins (src/market_universe/top25_universe.py); UnifiedRiskLayer.validate*)
(* (src/risk/unified_risk.py) then vetoes or shrinks what the strategies   *)
(* propose, and holds the book's BTC-weighted exposure to a cap            *)
(* (src/risk/portfolio_state.py).  config/btc_context_policy.yaml switches *)
(* all three on.                                                           *)
(*                                                                         *)
(* A reading is what the indicators make of fetched candles, in notches of *)
(* the thresholds they are compared with.  Percentages scale sizes; weights*)
(* are in halves, as in sensitivity_weight.                                *)
(***************************************************************************)
EXTENDS UnifiedRisk, Sequences

CONSTANTS
  Coins, Engines,      \* Engines contains Acevault, not Recovered
  CoinRank,            \* an order on coins, for the ids of a recovered book
  Continuing,          \* engines whose signals may continue a trend
  Readings,            \* what the BTC candles may look like
  VolExpanding, VolYellow, VolHigh, VolShock, VolRed,   \* on the volatility ratio
  MovePost, MoveRevert, MoveShock,        \* on the move of the last bars
  RegimeMult, RedMult, HighVolMult, ConflictMult,   \* percentages
  SkipShock, SkipConflict,                \* engine_overrides
  CoinWeight, EngineWeight, MediumWeight, \* BTC sensitivity
  BetaCap,             \* portfolio_beta.max_long and max_short
  RegimeGross, EarlyGross, GrossFloor,    \* regime and transition overrides
  TopN, RefreshGap, StrictList,           \* the universe
  Bases, Safeties,     \* sizes, and percentages that scale them
  MinMult, MaxMult,    \* fathom.acevault_min_mult and acevault_max_mult
  RawMults,            \* the multipliers the model may name
  MaxOpen, MaxBatch    \* bounds of the model

BtcRegimes == {"trending_up", "trending_down", "range", "high_volatility", "post_impulse"}

\* What the lane detector may say of the candles.
PrimaryRegimes == {"trending_up", "trending_down", "mean_reverting"}

ASSUME MarketConstants ==
  /\ IsFiniteSet(Coins) /\ CoinRank \in [Coins -> Nat]
  /\ \A c, d \in Coins : CoinRank[c] = CoinRank[d] => c = d
  /\ Acevault \in Engines /\ Recovered \notin Engines
  /\ Readings \subseteq [primary : PrimaryRegimes, vol : Nat, move : Nat, extended : BOOLEAN,
                         farFromVwap : BOOLEAN, expanding : BOOLEAN]
  /\ \A n \in {VolExpanding, VolYellow, VolHigh, VolShock, VolRed,
               MovePost, MoveRevert, MoveShock} : n \in Nat
  /\ RegimeMult \in [BtcRegimes -> Nat] /\ ConflictMult \in [Engines -> Nat]
  /\ RedMult \in Nat /\ HighVolMult \in Nat
  /\ \A c \in DOMAIN CoinWeight : CoinWeight[c] \in Nat
  /\ \A e \in DOMAIN EngineWeight : EngineWeight[e] \in Nat
  /\ MediumWeight \in Nat /\ Bases \subseteq Nat /\ Safeties \subseteq Nat
  /\ TopN \in Nat \ {0} /\ RefreshGap \in Nat /\ StrictList \in BOOLEAN
  /\ \A r \in DOMAIN RegimeGross : RegimeGross[r] \in 0..100
  /\ EarlyGross \in 0..100   \* the overrides only tighten
  /\ MinMult \in Nat /\ MaxMult \in Nat /\ RawMults \subseteq Nat
  /\ BetaCap \in [Sides -> Nat] /\ MaxOpen \in Nat /\ MaxBatch \in Nat

Ids == 1..(MaxOpen + MaxBatch)

VARIABLES
  stage,      \* how far the tick has come
  ctx,        \* BTCMarketContextHolder.snapshot
  data,       \* history: what the tick's fetch of candles gave
  allowed,    \* _allowed_upper
  refreshed,  \* _had_successful_refresh
  attempt,    \* age of _last_attempt_mono, up to RefreshGap
  safety,     \* _safety_position_multiplier
  batch,      \* AceVault's validated signals, not yet registered
  book,       \* PortfolioState._positions
  unvetted    \* history: ids that entered without the beta cap being held to

universe == <<allowed, refreshed, attempt>>
marketVars == <<stage, ctx, data, universe, safety, batch, book, unvetted>>

NoContext == [regime |-> "none"]

-----------------------------------------------------------------------------
(* BTCMarketContextEngine.build_context *)

Shocked(r) == r.move >= MoveShock \/ r.vol >= VolShock

\* _map_regime.  Both thresholds on the move, of the shock and of the impulse
\* score, are in MovePost; extended is the score, farFromVwap the lane's flag.
RegimeOf(r) ==
  CASE r.vol >= VolHigh -> "high_volatility"
    [] r.vol < VolHigh /\ r.move >= MovePost /\ r.extended -> "post_impulse"
    [] r.vol < VolHigh /\ ~(r.move >= MovePost /\ r.extended) ->
         IF r.primary # "mean_reverting" THEN r.primary
         ELSE IF r.farFromVwap /\ r.move >= MoveRevert THEN "post_impulse" ELSE "range"

\* _risk_mode: red is asked for only where yellow is, and an expansion counts
\* only from VolExpanding up.
RiskMode(r) ==
  CASE Shocked(r) \/ (r.vol >= VolYellow /\ r.vol >= VolRed) -> "red"
    [] ~Shocked(r) /\ r.vol >= VolYellow /\ r.vol < VolRed -> "yellow"
    [] ~Shocked(r) /\ r.vol < VolYellow ->
         IF r.expanding /\ r.vol >= VolExpanding THEN "yellow" ELSE "green"

ContextOf(r) ==
  [regime |-> RegimeOf(r), risk |-> RiskMode(r), shock |-> Shocked(r), extended |-> r.extended]

\* Too few candles, or the lane detector raised.
Fallback == [regime |-> "range", risk |-> "red", shock |-> TRUE, extended |-> TRUE]

\* compute_btc_alignment.
Conflicts(side) ==
  /\ ctx.risk # "red"
  /\ \/ ctx.regime = "trending_up" /\ side = "short"
     \/ ctx.regime = "trending_down" /\ side = "long"

-----------------------------------------------------------------------------
(* The exposure to BTC *)

\* resolve_btc_sensitivity_tier and its weight.  A recovered position's engine
\* has no strategy row: it weighs as medium.
Weight(coin, engine) ==
  IF coin \in DOMAIN CoinWeight THEN CoinWeight[coin]
  ELSE IF engine \in DOMAIN EngineWeight THEN EngineWeight[engine] ELSE MediumWeight

Beta(positions, side) ==
  MapThenSumSet(LAMBDA p : p.size * Weight(p.coin, p.engine),
                {p \in positions : p.side = side})

\* Mutant: the signal's own weight is left out.
CapAsksTheBookOnly(s, size) == Beta(book, s.side) > BetaCap[s.side]

ExceedsBetaCap(s, size) ==
  Beta(book, s.side) + size * Weight(s.coin, s.engine) > BetaCap[s.side]

-----------------------------------------------------------------------------
(* UnifiedRiskLayer.validate *)

\* The list is the gate without the opportunity layer, or under
\* emergency_universe.mode strict_allowlist.
UniverseGateActive == StrictList

\* can_open, where it is asked.
MayOpen(coin) == UniverseGateActive => refreshed /\ coin \in allowed

\* The shock veto; a coin weak enough may still be shorted in a shock.
ShockVeto(s) == ctx.shock /\ s.engine \notin SkipShock /\ ~s.weak

ConflictVeto(s) == Conflicts(s.side) /\ s.engine \notin SkipConflict

ContinuationVeto(s) == ctx.regime = "post_impulse" /\ s.continuation /\ ctx.extended

\* Without a context only engines exempt from the shock veto pass, unscaled and
\* unmeasured.
PassesBlind(s) == ctx = NoContext /\ s.engine \in SkipShock

PassesVetoes(s) ==
  /\ ctx # NoContext
  /\ ~ShockVeto(s) /\ ~ConflictVeto(s) /\ ~ContinuationVeto(s)

Percent(n, p) == (n * p) \div 100

\* The overlay's size multipliers, one after the other.
Overlaid(s, size) ==
  LET byRegime == Percent(size, RegimeMult[ctx.regime])
      byRisk == IF ctx.risk = "red" THEN Percent(byRegime, RedMult) ELSE byRegime
      byVol == IF ctx.regime = "high_volatility" THEN Percent(byRisk, HighVolMult) ELSE byRisk
  IN IF Conflicts(s.side) THEN Percent(byVol, ConflictMult[s.engine]) ELSE byVol

\* What _btc_market_overlay makes of a signal's size, and whether it lets the
\* signal pass.
SizeOf(s) ==
  LET safe == SafetySized(s.base, safety) IN IF ctx = NoContext THEN safe ELSE Overlaid(s, safe)

OverlayPasses(s) ==
  \/ PassesBlind(s)
  \/ PassesVetoes(s) /\ ~ExceedsBetaCap(s, SizeOf(s))

\* The shared regime detector's regime and transition phase when they are asked.
Moods == [regime : DOMAIN RegimeGross, early : BOOLEAN]

\* resolve_effective_max_gross_multiplier: tightened by regime, tightened
\* again early in a transition, clamped from below.
EffectiveGross(mood) ==
  LET tightened == Percent(Percent(GrossCap, RegimeGross[mood.regime]),
                           IF mood.early THEN EarlyGross ELSE 100)
  IN IF tightened < GrossFloor THEN GrossFloor ELSE tightened

\* validate as a whole, the limits that do not come from the market last.
Validates(s) ==
  /\ MayOpen(s.coin)
  /\ OverlayPasses(s)
  /\ \E mood \in Moods :
       LET free == EffectiveGross(mood) - GrossExposure(book)
       IN SizeOf(s) < free /\ free >= MinAvailable
  /\ Approves(book, {}, [engine |-> s.engine, side |-> s.side, size |-> SizeOf(s)])

-----------------------------------------------------------------------------
(* The head of the tick *)

\* What becomes of the fetch: candles, too few of them (or the lane detector
\* raises), or an exception.
Fetches ==
  [data : {"read"}, reading : Readings] \cup [data : {"short", "failed"}, reading : {"none"}]

\* Mutant: a fetch that raised leaves the context of an earlier tick.
FailureKeepsContext(f) ==
  ctx' = CASE f.data = "read" -> ContextOf(f.reading)
           [] f.data = "short" -> Fallback [] f.data = "failed" -> ctx

StoreContext(f) ==
  ctx' = CASE f.data = "read" -> ContextOf(f.reading)
           [] f.data = "short" -> Fallback [] f.data = "failed" -> NoContext

\* What a refresh may come to: the TopN coins, ranked by volume (or, without
\* figures, by index), or an exception.
NoAnswer == {}
Answers == {c \in SUBSET Coins : Cardinality(c) = TopN} \cup {NoAnswer}

Due == attempt >= RefreshGap

\* Mutant: the stamp is renewed whether or not a refresh was due.
StampsEveryTick(answer) ==
  /\ attempt' = 0
  /\ IF Due /\ answer # NoAnswer THEN allowed' = answer /\ refreshed' = TRUE
                         ELSE UNCHANGED <<allowed, refreshed>>

\* refresh_if_needed: a failed attempt keeps the previous list, and is not
\* repeated before the gap is over either.
RefreshIfNeeded(answer) ==
  IF Due
  THEN /\ attempt' = 0
       /\ IF answer # NoAnswer THEN allowed' = answer /\ refreshed' = TRUE
                       ELSE UNCHANGED <<allowed, refreshed>>
  ELSE UNCHANGED universe

TickBegin ==
  /\ stage = "wait"
  /\ \E f \in Fetches : StoreContext(f) /\ data' = f.data
  /\ \E answer \in Answers : RefreshIfNeeded(answer)
  /\ safety' \in Safeties
  /\ stage' = "scan"
  /\ UNCHANGED <<batch, book, unvetted>>

-----------------------------------------------------------------------------
(* The strategies *)

\* Only AceVault's signals carry a weakness score, and it only shorts; only the
\* signals of the engines in Continuing say they continue a trend.
Signals ==
  {s \in [engine : Engines, coin : Coins, side : Sides, base : Bases,
          weak : BOOLEAN, continuation : BOOLEAN] :
     /\ s.weak => s.engine = Acevault
     /\ s.engine = Acevault => s.side = "short"
     /\ s.continuation => s.engine \in Continuing}

\* Positions that entered without the cap being held to: nothing is known, or
\* (AceVault) another of the batch entered since, or Fathom enlarged it.
Registered(s, size, vetted) ==
  LET id == CHOOSE i \in Ids : \A p \in book : p.id # i
  IN /\ book' = book \cup {[id |-> id, engine |-> s.engine, coin |-> s.coin,
                             side |-> s.side, size |-> size]}
     /\ unvetted' = IF vetted THEN unvetted ELSE unvetted \cup {id}

\* AceVault's candidate loop, which awaits nothing: each signal is validated
\* against the same book.
AceAdmit ==
  /\ stage = "scan" /\ Len(batch) < MaxBatch
  /\ \E s \in Signals :
       /\ s.engine = Acevault /\ \A i \in DOMAIN batch : batch[i].signal.coin # s.coin
       /\ Validates(s)
       /\ batch' = Append(batch, [signal |-> s, size |-> SizeOf(s), alone |-> batch = <<>>])
  /\ UNCHANGED <<stage, ctx, data, universe, safety, book, unvetted>>

AceScanned ==
  /\ stage = "scan"
  /\ stage' = "ace"
  /\ UNCHANGED <<ctx, data, universe, safety, batch, book, unvetted>>

\* _clamp_acevault_mult: the lower bound wins should the two cross.
Clamped(raw) == Max({MinMult, Min({raw, MaxMult})})

\* advise_acevault: the multiplier of the answer, or, where the call fails or
\* the answer names none, the size as it is.
Advised == {100} \cup {Clamped(raw) : raw \in RawMults}

\* A signal of the batch is sent and registered in Fathom's size, or the
\* submission raised.
AceRegister ==
  /\ stage = "ace" /\ batch # <<>> /\ Cardinality(book) < MaxOpen
  /\ LET b == Head(batch)
     IN \E m \in Advised :
          Registered(b.signal, Percent(b.size, m),
                     b.alone /\ m <= 100 /\ ctx # NoContext)
  /\ batch' = Tail(batch)
  /\ UNCHANGED <<stage, ctx, data, universe, safety>>

AceDrop ==
  /\ stage = "ace" /\ batch # <<>>
  /\ batch' = Tail(batch)
  /\ UNCHANGED <<stage, ctx, data, universe, safety, book, unvetted>>

AceEnd ==
  /\ stage = "ace" /\ batch = <<>>
  /\ stage' = "trackA"
  /\ UNCHANGED <<ctx, data, universe, safety, batch, book, unvetted>>

\* The executor validates, submits and registers one order after the other.
Execute ==
  /\ stage = "trackA" /\ Cardinality(book) < MaxOpen
  /\ \E s \in Signals :
       s.engine # Acevault /\ Validates(s) /\ Registered(s, SizeOf(s), ctx # NoContext)
  /\ UNCHANGED <<stage, ctx, data, universe, safety, batch>>

TickEnd ==
  /\ stage = "trackA"
  /\ stage' = "wait"
  /\ attempt' = Min({attempt + 1, RefreshGap})
  /\ UNCHANGED <<ctx, data, allowed, refreshed, safety, batch, book, unvetted>>

\* A position goes: by its exits, or because the venue closed it.
Close ==
  /\ stage # "scan"
  /\ \E p \in book : book' = book \ {p} /\ unvetted' = unvetted \ {p.id}
  /\ UNCHANGED <<stage, ctx, data, universe, safety, batch>>

\* sync_from_hl rebuilds the book from what the venue nets per coin; the ids
\* and the engines are new, and so may be the weights.
Netted ==
  LET held == {c \in Coins : NetOn(book, c) # 0}
      rank(c) == Cardinality({x \in held : CoinRank[x] <= CoinRank[c]})
  IN {[id |-> rank(c), engine |-> Recovered, coin |-> c,
       side |-> IF NetOn(book, c) > 0 THEN "long" ELSE "short",
       size |-> IF NetOn(book, c) > 0 THEN NetOn(book, c) ELSE -NetOn(book, c)] : c \in held}

\* The process dies and starts again; build_context asks for the list at once.
Restart ==
  /\ stage # "scan"
  /\ \E kept \in {Netted, {}} : book' = kept /\ unvetted' = {p.id : p \in kept}
  /\ \E answer \in Answers :
       refreshed' = (answer # NoAnswer) /\ allowed' = answer
  /\ attempt' = 0
  /\ ctx' = NoContext /\ data' = "failed" /\ safety' = 100
  /\ stage' = "wait" /\ batch' = <<>>

MarketInit ==
  /\ stage = "wait" /\ ctx = NoContext /\ data = "failed"
  /\ allowed = {} /\ refreshed = FALSE /\ attempt = RefreshGap
  /\ safety = 100 /\ batch = <<>> /\ book = {} /\ unvetted = {}

MarketNext ==
  \/ TickBegin \/ AceAdmit \/ AceScanned \/ AceRegister \/ AceDrop \/ AceEnd
  \/ Execute \/ TickEnd \/ Close \/ Restart

MarketSpec == MarketInit /\ [][MarketNext]_marketVars

-----------------------------------------------------------------------------
\* portfolio_beta.max_long and max_short: what a side weighs beyond its cap has
\* entered by one of the ways that do not ask (a missing context, AceVault's
\* batch and Fathom's enlargement, a recovery that weighs anew), whatever was
\* resized, closed or reweighed in between.
BetaHeld ==
  \A side \in Sides :
    Beta(book, side) <= BetaCap[side] + Beta({p \in book : p.id \in unvetted}, side)

\* In a tick that could not read the market, because candles were missing or
\* because anything raised, only the engines exempt from the shock veto open,
\* and, on missing candles, AceVault a coin that is weak enough; the context of
\* an earlier tick never decides.
OpensInTheDark(p) ==
  \/ p.engine \in SkipShock
  \/ data = "short" /\ p.engine = Acevault /\ Head(batch).signal.weak

DarkEntriesAreExempt ==
  [][\A p \in book' \ book :
       data # "read" /\ p.engine # Recovered => OpensInTheDark(p)]_marketVars

\* A list that could not be fetched blocks every entry; while the process lives
\* and the venue answers now and then, that comes to an end.
Unblocked == <>[][~Restart]_marketVars => []<>refreshed

\* Ticks come to an end and follow one another, and the venue does not fail
\* every attempt.
MarketFairSpec ==
  /\ MarketSpec
  /\ WF_marketVars(TickBegin) /\ WF_marketVars(AceScanned) /\ WF_marketVars(AceEnd) /\ WF_marketVars(TickEnd)
  /\ WF_marketVars(AceRegister \/ AceDrop)
  /\ SF_marketVars(TickBegin /\ refreshed')
=============================================================================
