----------------------------- MODULE ExitEngine -----------------------------
(***************************************************************************)
(* One position under software exit management: LiveExitEngine             *)
(* (src/exits/manager.py) with its ExitStateStore (src/exits/state.py) and *)
(* the exit policies (src/exits/policies.py), followed by the close its    *)
(* decision leads to, in AceVault's cycle or in run_track_a_exits.         *)
(*                                                                         *)
(* Prices are integers.  A policy's R multiples are given in price steps:  *)
(* a multiple r of a position whose initial risk is Risk is r * Risk, so   *)
(* comparing R multiples is comparing progress.  0 switches a rule off     *)
(* where the code's default does.                                          *)
(***************************************************************************)
EXTENDS Integers

CONSTANTS
  Prices,    \* the prices the venue may show
  Policies,  \* what an engine of the position may have configured
  AgeLimit   \* past this age no rule tells two ages apart

PolicyRange == [
  risk         : Nat \ {0},  \* |initial stop - entry|
  target       : Nat \ {0},  \* |take profit - entry|
  breakEvenAt  : Nat \ {0},  \* break_even.trigger_r
  breakEvenBy  : Nat,        \* break_even.offset_r
  trailAt      : Nat,        \* trailing.activate_at_r
  trailBy      : Nat \ {0},  \* trailing.distance_r, or trailing_atr_multiple * ATR
  timeStop     : Nat \ {0},  \* time_stop.minutes
  minProgress  : Nat,        \* time_stop.min_progress_r (time_stop_full_exit_max_r on AceVault's route)
  failBars     : Nat,        \* time_to_fail_bars_before_tighter_invalidation
  failProgress : Nat,        \* fail_fast.max_progress_r
  targetCap    : Nat,        \* hard_target_r_cap
  maxHold      : Nat,        \* max_hold_bars_in_range
  band         : Nat,        \* progress at which the range band is reached
  bandFirst    : BOOLEAN,    \* range_target.precedence = "before_fixed_tp"
  aceRouting   : BOOLEAN,    \* acevault_exit_routing: the time stop comes last
  moveStop     : BOOLEAN,    \* move_stop_to_breakeven_after_partial
  dropsOnRaise : BOOLEAN]    \* AceVault drops a position whose submit_close raised; Track A keeps it

ASSUME ExitConstants ==
  /\ Prices \subseteq Nat \ {0}
  /\ Policies \subseteq PolicyRange
  /\ AgeLimit \in Nat
  /\ \A p \in Policies :
       /\ p.breakEvenBy < p.breakEvenAt
       /\ {p.timeStop, p.failBars, p.maxHold} \subseteq 0..AgeLimit

VARIABLES
  policy,  \* what resolve_exit_policy gives for the position now
  pos,     \* the open position [side, entry], or NoPosition
  age,     \* time since opened_at
  price,   \* what all_mids shows
  st,      \* the ExitStateStore's entry [stop, high, low, peak], or NoState
  outcome  \* what the last step's evaluation answered: NoExit, a reason, or Idle for none

\* History of the open position, which the code does not keep.
VARIABLES
  best,     \* the best progress any evaluation saw
  promised  \* the best break-even line any evaluation promised, by the policy it
            \* found; NoPromise when none did

lifeHistory == <<best, promised>>
vars == <<policy, pos, age, price, st, outcome, lifeHistory>>

Idle == "idle"
NoExit == "none"
NoPromise == -1
NoPosition == [side |-> "none", entry |-> 0]
NoState    == [stop |-> 0, high |-> 0, low |-> 0, peak |-> -1]

\* The settings by their names.
Risk         == policy.risk
Target       == policy.target
BreakEvenAt  == policy.breakEvenAt
BreakEvenBy  == policy.breakEvenBy
TrailAt      == policy.trailAt
TrailBy      == policy.trailBy
TimeStop     == policy.timeStop
MinProgress  == policy.minProgress
FailBars     == policy.failBars
FailProgress == policy.failProgress
TargetCap    == policy.targetCap
MaxHold      == policy.maxHold
Band         == policy.band
DropsOnRaise == policy.dropsOnRaise

Larger(x, y)  == IF x > y THEN x ELSE y
Smaller(x, y) == IF x < y THEN x ELSE y

-----------------------------------------------------------------------------
\* unrealized_r_multiple, in price steps.
Progress(p, px) == IF p.side = "short" THEN p.entry - px ELSE px - p.entry

\* A price that is progress steps away from the entry in the position's favour.
PriceAt(p, progress) ==
  IF p.side = "short" THEN p.entry - progress ELSE p.entry + progress

\* The stop that is further in the position's favour.
Tighter(p, s, t) == IF p.side = "short" THEN Smaller(s, t) ELSE Larger(s, t)

\* Mutant: the stop is placed from the price of the day.
InitialFromMark(p) ==
  [stop |-> PriceAt([p EXCEPT !.entry = price], -Risk), high |-> p.entry, low |-> p.entry,
   peak |-> 0]

\* ensure_initial: the state an evaluation starts from.
Initial(p) == [stop |-> PriceAt(p, -Risk), high |-> p.entry, low |-> p.entry, peak |-> 0]

Ensured == IF st = NoState THEN Initial(pos) ELSE st

\* update_extremes_and_peak.
Updated(p, s, px) ==
  [stop |-> s.stop, high |-> Larger(s.high, px), low |-> Smaller(s.low, px),
   peak |-> Larger(s.peak, Progress(p, px))]

\* Mutant: off by one at the trigger.
PromotedPastTrigger(p, s, px) ==
  IF Progress(p, px) > BreakEvenAt
  THEN [s EXCEPT !.stop = Tighter(p, @, PriceAt(p, BreakEvenBy))] ELSE s

\* The break-even rule: only ever tightens the working stop.
Promoted(p, s, px) ==
  IF Progress(p, px) >= BreakEvenAt
  THEN [s EXCEPT !.stop = Tighter(p, @, PriceAt(p, BreakEvenBy))] ELSE s

\* Mutants: a short's retracement has the sign of a long's; the stop must be
\* crossed.
GivenBackLikeLong(p, s, px) == IF p.side = "short" THEN s.low - px ELSE s.high - px
StopCrossed(p, s, px) == IF p.side = "short" THEN px > s.stop ELSE px < s.stop

GivenBack(p, s, px) == IF p.side = "short" THEN px - s.low ELSE s.high - px

StopHit(p, s, px) == IF p.side = "short" THEN px >= s.stop ELSE px <= s.stop

TargetHit(p, px) == Progress(p, px) >= Target

(***************************************************************************)
(* The exit rules.  s is the state after this observation and, where it    *)
(* matters (the stop), after the break-even rule: the rules before that    *)
(* one do not read the stop.                                               *)
(***************************************************************************)
Applies(reason, p, s, px, t, massExit) ==
  LET r == Progress(p, px) IN
  CASE reason = "regime_shift"       -> massExit
    [] reason = "stale_invalidation" -> FailBars > 0 /\ t >= FailBars /\ r < FailProgress
    [] reason = "hard_r_cap"         -> TargetCap > 0 /\ r >= TargetCap
    [] reason = "range_band"         -> Band > 0 /\ r >= Band
    [] reason = "take_profit"        -> TargetHit(p, px)
    [] reason = "range_stall"        -> MaxHold > 0 /\ t >= MaxHold
    [] reason = "time_stop"          -> t >= TimeStop /\ r < MinProgress
    [] reason = "trailing_stop"      -> r >= TrailAt /\ GivenBack(p, s, px) >= TrailBy
    [] reason = "stop_loss"          -> StopHit(p, s, px)

Reasons == {"regime_shift", "stale_invalidation", "hard_r_cap", "range_band", "take_profit",
            "range_stall", "time_stop", "trailing_stop", "stop_loss"}

\* Mutant: the ranging policy's invalidation is looked at after the stop.
StaleAfterStop(reason) ==
  CASE reason = "regime_shift"       -> 1
    [] reason = "stop_loss"          -> 2
    [] reason = "stale_invalidation" -> 3
    [] OTHER                         -> 4

\* evaluate_exit's order: _shared_prefix_exits, then one of the two routes.
Rank(reason) ==
  CASE reason = "regime_shift"       -> 1
    [] reason = "stale_invalidation" -> 2
    [] reason = "hard_r_cap"         -> 3
    [] reason = "range_band"         -> IF policy.bandFirst THEN 4 ELSE 11
    [] reason = "take_profit"        -> 5
    [] reason = "range_stall"        -> 6
    [] reason = "time_stop"          -> IF policy.aceRouting THEN 10 ELSE 7
    [] reason = "trailing_stop"      -> 8
    [] reason = "stop_loss"          -> 9

Applying(p, s, px, t, massExit) ==
  {reason \in Reasons : Applies(reason, p, s, px, t, massExit)}

\* The rule that returns first.
Reported(applying) ==
  CHOOSE reason \in applying : \A other \in applying : Rank(reason) <= Rank(other)

\* Mutant: the move to the entry forgets the tighter stop.
KeptAtEntry(p, s, t) ==
  IF policy.aceRouting /\ policy.moveStop /\ t >= TimeStop THEN [s EXCEPT !.stop = p.entry] ELSE s

\* The state a survived evaluation leaves: AceVault's route may move the stop
\* to the entry once the time stop let the position live.
Kept(p, s, t) ==
  IF policy.aceRouting /\ policy.moveStop /\ t >= TimeStop
  THEN [s EXCEPT !.stop = Tighter(p, @, p.entry)] ELSE s

-----------------------------------------------------------------------------
Init ==
  /\ policy \in Policies
  /\ pos = NoPosition /\ age = 0
  /\ price \in Prices
  /\ st = NoState /\ outcome = Idle
  /\ best = 0 /\ promised = NoPromise

\* An executor registers a position, with a new id and so no exit state, of an
\* engine and an entry regime that have a policy of their own.
Open(side) ==
  /\ pos = NoPosition
  /\ policy' \in Policies
  /\ pos' = [side |-> side, entry |-> price]
  /\ age' = 0 /\ best' = 0 /\ promised' = NoPromise /\ outcome' = Idle
  /\ UNCHANGED <<price, st>>

Market ==
  /\ price' \in Prices \ {price}
  /\ outcome' = Idle
  /\ UNCHANGED <<policy, pos, age, st, lifeHistory>>

Clock ==
  /\ pos # NoPosition /\ age < AgeLimit
  /\ age' = age + 1
  /\ outcome' = Idle
  /\ UNCHANGED <<policy, pos, price, st, lifeHistory>>

\* The configuration changed under an open position: resolve_exit_policy is asked
\* at every evaluation.  The stop and the target are the position's own.
Reload ==
  /\ pos # NoPosition
  /\ \E p \in Policies \ {policy} :
       /\ p.risk = Risk /\ p.target = Target /\ p.dropsOnRaise = DropsOnRaise
       /\ policy' = p
  /\ outcome' = Idle
  /\ UNCHANGED <<pos, age, price, st, lifeHistory>>

\* The state this evaluation decides on.
Observed == Promoted(pos, Updated(pos, Ensured, price), price)

Seen ==
  /\ best' = Larger(best, Progress(pos, price))
  /\ promised' = IF Progress(pos, price) >= BreakEvenAt
                 THEN Larger(promised, BreakEvenBy) ELSE promised

\* evaluate_portfolio_positions finds no reason to close.
Survive(massExit) ==
  /\ pos # NoPosition
  /\ Applying(pos, Observed, price, age, massExit) = {}
  /\ st' = Kept(pos, Observed, age)
  /\ Seen /\ outcome' = NoExit
  /\ UNCHANGED <<policy, pos, age, price>>

\* It finds one: the exit state is removed before the close is even tried.
Exit(massExit, raised) ==
  /\ pos # NoPosition
  /\ LET applying == Applying(pos, Observed, price, age, massExit)
     IN applying # {} /\ outcome' = Reported(applying)
  /\ st' = NoState
  /\ \/ /\ raised /\ ~DropsOnRaise
        /\ Seen
        /\ UNCHANGED <<pos, age>>
     \/ /\ ~raised \/ DropsOnRaise
        /\ pos' = NoPosition /\ age' = 0
        /\ best' = 0 /\ promised' = NoPromise
  /\ UNCHANGED <<policy, price>>

\* Only AceVault's exits are ever forced by the regime: run_track_a_exits passes
\* regime_exit_all=False.
MassExits == IF DropsOnRaise THEN BOOLEAN ELSE {FALSE}

Next ==
  \/ \E side \in {"long", "short"} : Open(side)
  \/ Market
  \/ Clock
  \/ Reload
  \/ \E massExit \in MassExits : Survive(massExit)
  \/ \E massExit \in MassExits, raised \in BOOLEAN : Exit(massExit, raised)

Spec == Init /\ [][Next]_vars

\* The tick evaluates every open position again and again, and the venue's
\* client does not raise for ever.
FairSpec == Spec /\ WF_vars(\E massExit \in MassExits : Exit(massExit, FALSE))

-----------------------------------------------------------------------------
\* The values of the variables.
TypeOK ==
  /\ policy \in Policies
  /\ price \in Prices
  /\ pos \in {NoPosition} \cup [side : {"long", "short"}, entry : Prices]
  /\ age \in 0..AgeLimit
  /\ st \in {NoState} \cup [stop : Int, high : Prices, low : Prices, peak : Nat]
  /\ best \in Nat /\ promised \in Nat \cup {NoPromise}
  /\ outcome \in {Idle, NoExit} \cup Reasons

\* A position that an evaluation leaves open is not past its initial stop and,
\* once old enough, has made the progress the time stop asks for, whichever
\* route is taken and whatever closes failed before.
SurvivorsEarnTheirPlace ==
  outcome = NoExit =>
           /\ Progress(pos, price) > -Risk
           /\ age >= TimeStop => Progress(pos, price) >= MinProgress

\* Once an evaluation found the position at break_even.trigger_r of its day, no
\* later evaluation leaves it open at that day's break-even line or below,
\* whatever the policy became since.
ProfitLockedIn ==
  outcome = NoExit /\ promised # NoPromise => Progress(pos, price) > promised

\* A position left open at trailing.activate_at_r or better has not given back
\* the trailing distance from the best any evaluation saw.
GiveBackBounded ==
  outcome = NoExit /\ Progress(pos, price) >= TrailAt => best - Progress(pos, price) < TrailBy

\* AceVault drops a position even if its close raised, so nothing is evaluated
\* again after its exit state is gone: break-even and trailing promises hold
\* over the whole life of its positions.  Track A's evaluations start over.
AceProfitLockedIn == DropsOnRaise => ProfitLockedIn
AceGiveBackBounded == DropsOnRaise => GiveBackBounded

\* The working stop of a position never moves away from its favour, whichever
\* rules moved it.
StopRatchets ==
  [][st # NoState /\ st' # NoState => Tighter(pos, st.stop, st'.stop) = st'.stop]_vars

\* The reasons that start AceVault's loss cooldown (loss_cooldown_exit_reasons).
CooldownReasons == {"stop_loss", "time_stop", "trailing_stop"}

\* One of the two rules that only AceVault's ranging policy switches on is due.
RangeRuleDue ==
  \/ FailBars > 0 /\ age >= FailBars /\ Progress(pos, price) < FailProgress
  \/ MaxHold > 0 /\ age >= MaxHold

\* Which of a position's losses start the cooldown of its coin: all that the
\* regime did not force, except exactly those for which a ranging rule is due.
\* Those are reported as stale_invalidation or range_stall even when the price is
\* past the stop, which the cooldown does not know.
LossesCoolDown ==
  [][outcome' \in Reasons \ {"regime_shift"} /\ Progress(pos, price) < 0
     => (outcome' \in CooldownReasons <=> ~RangeRuleDue)]_vars

\* A close that raises is tried again: a position does not stay past its
\* initial stop for as long as the price does.
StopLossRetried ==
  LET Past == pos # NoPosition /\ Progress(pos, price) <= -Risk
  IN ~<>[]Past
=============================================================================
