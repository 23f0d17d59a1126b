---------------------------- MODULE UnifiedRisk -----------------------------
(***************************************************************************)
(* UnifiedRiskLayer.validate (src/risk/unified_risk.py): the gate every    *)
(* entry passes before it is sent for execution.  The universe allow-list  *)
(* and the BTC overlay, which also read the market, are added in           *)
(* MarketGate; the drawdown gate never fires because no code records an    *)
(* equity snapshot.                                                        *)
(***************************************************************************)
EXTENDS PortfolioState

CONSTANTS
  GrossCap,      \* total_capital_usd * effective max_gross_multiplier
  MinTrade,      \* acp.min_trade_size_usd
  MinAvailable,  \* risk.min_available_capital_usd
  MaxLongs,      \* risk.max_correlated_longs
  MaxShorts      \* risk.max_correlated_shorts

ASSUME RiskLimits ==
  /\ GrossCap \in Nat /\ MinTrade \in Nat /\ MinAvailable \in Nat
  /\ MaxLongs \in Nat /\ MaxShorts \in Nat

\* validate multiplies signal.position_size_usd in place by the safety
\* multiplier (a percentage here) before any exposure check reads it.
SafetySized(size, safety) == (size * safety) \div 100

\* get_available_capital(), engine-independent.
AvailableCapital(book) ==
  LET free == GrossCap - GrossExposure(book) IN IF free < 0 THEN 0 ELSE free

SideLimit(side) == IF side = "short" THEN MaxShorts ELSE MaxLongs

(***************************************************************************)
(* validate(signal, engine_id) approves a position p, already scaled by    *)
(* SafetySized, against the book as it is at this moment.                  *)
(***************************************************************************)
Approves(book, tripped, p) ==
  /\ p.engine \notin tripped
  /\ p.size >= MinTrade
  /\ GrossExposure(book) + p.size < GrossCap
  /\ AvailableCapital(book) >= MinAvailable
  /\ ~CorrelatedOverloaded(book, p.side, SideLimit(p.side))
=============================================================================
