--------------------------- MODULE RegimeDetector ---------------------------
(***************************************************************************)
(* RegimeDetector (src/regime/detector.py): one object shared by AceVault, *)
(* Growi, MC recovery and the retrospective, each of which calls detect.   *)
(* A classification replaces the held regime only once the last change is  *)
(* min_transition_interval_minutes old; the confidence that detect returns *)
(* is that of the new classification even when the old regime is held.     *)
(*                                                                         *)
(* A market is what the classifier's comparisons make of the BTC figures:  *)
(*   dump      btc_1h_return is below the risk-off threshold               *)
(*   vol       "low" below the trend threshold, "high" above the risk-off  *)
(*             threshold, "mid" between                                    *)
(*   trend     the sign of btc_4h_return when it is past the trend         *)
(*             threshold, else "flat"                                      *)
(*   features  the strict ranging classifier is on and has its inputs      *)
(*   strict    it finds a structured range                                 *)
(*   lean      the sign on which slope and 4h return agree, else "flat"    *)
(***************************************************************************)
EXTENDS Integers

CONSTANTS
  Markets,                 \* the markets that may occur
  RegimeCooldown,          \* regime.min_transition_interval_minutes
  StrictConfidence,        \* ranging_classifier.strict_confidence, in percent
  DemotedConfidence,       \* ranging_classifier.demoted_confidence
  UnstructuredConfidence   \* ranging_classifier.unstructured_confidence

Directions == {"up", "down", "flat"}

Pictures == [dump : BOOLEAN, vol : {"low", "mid", "high"}, trend : Directions,
             features : BOOLEAN, strict : BOOLEAN, lean : Directions]

ASSUME DetectorConstants ==
  /\ Markets \subseteq Pictures
  /\ RegimeCooldown \in Nat
  /\ {StrictConfidence, DemotedConfidence, UnstructuredConfidence} \subseteq Nat

VARIABLES
  market,    \* what the next detect call reads
  current,   \* _current_regime
  since      \* the age of _last_transition_at

detectorVars == <<market, current, since>>

Up      == "trending_up"
Down    == "trending_down"
Ranging == "ranging"
RiskOff == "risk_off"
Regimes == {Up, Down, Ranging, RiskOff}

Trending(direction) == IF direction = "up" THEN Up ELSE Down

\* An age after n steps are told apart no further than limit.
Capped(n, limit) == IF n < limit THEN n ELSE limit

Reading(regime, confidence) == [regime |-> regime, confidence |-> confidence]

\* _apply_ranging_refinement of a legacy RANGING.
Refined(m) ==
  CASE ~m.features -> Reading(Ranging, 70)
    [] m.features /\ m.strict ->
         Reading(Ranging, IF StrictConfidence > 70 THEN StrictConfidence ELSE 70)
    [] m.features /\ ~m.strict /\ m.lean # "flat" /\ m.vol = "low" ->
         Reading(Trending(m.lean), DemotedConfidence)
    [] OTHER -> Reading(Ranging, UnstructuredConfidence)

\* _classify and its refinement.
Classify(m) ==
  CASE m.dump /\ m.vol = "high" -> Reading(RiskOff, 90)
    [] ~(m.dump /\ m.vol = "high") /\ m.vol = "low" /\ m.trend # "flat" ->
         Reading(Trending(m.trend), 80)
    [] OTHER -> Refined(m)

\* _should_apply_cooldown.
Holds == since < RegimeCooldown

\* The start-up sequence calls detect once, with made-up calm figures: whatever
\* the market does, the process starts in RANGING and holds it for a cooldown.
StartupPicture == [dump |-> FALSE, vol |-> "low", trend |-> "flat", features |-> FALSE,
                   strict |-> FALSE, lean |-> "flat"]

DetectorInit ==
  /\ market \in Markets
  /\ current = Classify(StartupPicture).regime
  /\ since = 0

\* detect: what it leaves behind; what it returns is current' with the
\* confidence of Classify(market).
Detect ==
  LET changes == Classify(market).regime # current /\ ~Holds
  IN /\ since' = IF changes THEN 0 ELSE since
     /\ current' = IF changes THEN Classify(market).regime ELSE current
     /\ UNCHANGED market

\* One step of the clock.
DetectorTick ==
  /\ since' = Capped(since + 1, RegimeCooldown)
  /\ UNCHANGED <<market, current>>

MarketMoves ==
  /\ market' \in Markets \ {market}
  /\ UNCHANGED <<current, since>>
=============================================================================
