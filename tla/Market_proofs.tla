--------------------------- MODULE Market_proofs ---------------------------
(***************************************************************************)
(* Theorems about what the market decides.                                 *)
(*                                                                         *)
(* ExitEngine.  Of a position under exit management, for every policy and  *)
(* every set of prices: the working stop only ratchets, what an evaluation *)
(* leaves open has earned its place, AceVault's break-even and trailing    *)
(* promises hold, and losses are named.                                    *)
(*                                                                         *)
(* MassExitGate.  Of the gate and the regime detector it listens to, for   *)
(* every market, cooldown and threshold: how its exits are spaced and when *)
(* they come.                                                              *)
(*                                                                         *)
(* MarketGate.  Of the orders a tick's BTC context lets through, for every *)
(* set of coins, engines, weights and limits: the cap on BTC-weighted      *)
(* exposure, and what opens in a tick that could not read the market.      *)
(***************************************************************************)
EXTENDS ExitEngine, MassExitGate, MarketGate, Sums, SequenceTheorems, TLAPS


(* The exit engine.                                                        *)

Positions  == [side : {"long", "short"}, entry : Prices]
ExitStates == [stop : Int, high : Prices, low : Prices, peak : Nat]

\* s's stop is at least as far in p's favour as the line at this progress.
StopAtLeast(p, s, progress) == Tighter(p, PriceAt(p, progress), s.stop) = s.stop

\* No position, no exit state; a state's stop is never worse than the initial one.
StopInv ==
  /\ pos = NoPosition => st = NoState
  /\ st # NoState => StopAtLeast(pos, st, -Risk)

\* A survivor's recorded facts, as the evaluation left them.
SurvivorInv ==
  outcome = NoExit => pos # NoPosition /\ st # NoState

Inv == TypeOK /\ StopInv /\ SurvivorInv /\ SurvivorsEarnTheirPlace

-----------------------------------------------------------------------------
\* The part of ExitConstants that is about numbers.
LEMMA Numbers ==
  ASSUME policy \in Policies
  PROVE
  /\ Prices \subseteq Int /\ Prices \subseteq Nat
  /\ Risk \in Int /\ Risk > 0
  /\ BreakEvenAt \in Int /\ BreakEvenAt > 0
  /\ BreakEvenBy \in Int /\ BreakEvenBy >= 0 /\ BreakEvenBy < BreakEvenAt
  /\ TrailAt \in Int /\ TrailBy \in Int /\ TimeStop \in Nat /\ MinProgress \in Int
  /\ FailBars \in Nat /\ MaxHold \in Nat /\ Target \in Nat /\ TargetCap \in Nat /\ Band \in Nat
  /\ AgeLimit \in Nat
<1>1. policy \in PolicyRange /\ policy.breakEvenBy < policy.breakEvenAt /\ AgeLimit \in Nat
  BY ExitConstants
<1>2. /\ Risk \in Nat \ {0} /\ Target \in Nat \ {0}
      /\ BreakEvenAt \in Nat \ {0} /\ BreakEvenBy \in Nat /\ BreakEvenBy < BreakEvenAt
      /\ TrailAt \in Nat /\ TrailBy \in Nat \ {0} /\ TimeStop \in Nat \ {0}
      /\ MinProgress \in Nat /\ FailBars \in Nat /\ MaxHold \in Nat
      /\ TargetCap \in Nat /\ Band \in Nat
  BY <1>1 DEF PolicyRange, Risk, Target, BreakEvenAt, BreakEvenBy, TrailAt, TrailBy, TimeStop,
              MinProgress, FailBars, MaxHold, TargetCap, Band
<1>3. Prices \subseteq Nat
  BY ExitConstants
<1> QED BY <1>1, <1>2, <1>3

\* With the policy, the settings a position is held to stay as they are.
LEMMA SameSettings ==
  ASSUME policy' = policy
  PROVE  /\ Risk' = Risk /\ TrailAt' = TrailAt /\ TrailBy' = TrailBy /\ TimeStop' = TimeStop
         /\ MinProgress' = MinProgress /\ DropsOnRaise' = DropsOnRaise
BY DEF Risk, TrailAt, TrailBy, TimeStop, MinProgress, DropsOnRaise

\* What a reload leaves alone: the position's own stop, and whose position it is.
LEMMA ReloadKeeps ==
  ASSUME Reload
  PROVE  policy' \in Policies /\ Risk' = Risk /\ DropsOnRaise' = DropsOnRaise
BY DEF Reload, Risk, DropsOnRaise

\* The two placeholders are no position and no exit state.
LEMMA Placeholders ==
  NoPosition \notin Positions /\ NoState \notin ExitStates
BY DEF NoPosition, NoState, Positions, ExitStates

\* Progress counts price steps.
LEMMA ProgressIsInt ==
  ASSUME policy \in Policies, NEW p \in Positions, NEW px \in Prices
  PROVE  Progress(p, px) \in Int
<1>1. p.entry \in Int /\ px \in Int
  BY Numbers DEF Positions
<1> QED BY <1>1 DEF Progress

\* A rule that did not apply tells what it would have needed: evaluate_exit
\* that returns no exit means the stop, the timeout and the trailing distance
\* were all respected.
LEMMA NothingApplies ==
  ASSUME NEW p, NEW s, NEW px, NEW t, NEW m, Applying(p, s, px, t, m) = {}
  PROVE  /\ ~StopHit(p, s, px)
         /\ ~(t >= TimeStop /\ Progress(p, px) < MinProgress)
         /\ ~(Progress(p, px) >= TrailAt /\ GivenBack(p, s, px) >= TrailBy)
<1>1. \A reason \in Reasons : ~Applies(reason, p, s, px, t, m)
  BY DEF Applying
<1>2. ~Applies("stop_loss", p, s, px, t, m)
  BY <1>1 DEF Reasons
<1>3. ~Applies("time_stop", p, s, px, t, m)
  BY <1>1 DEF Reasons
<1>4. ~Applies("trailing_stop", p, s, px, t, m)
  BY <1>1 DEF Reasons
<1>5. ~StopHit(p, s, px)
  BY <1>2 DEF Applies
<1>6. ~(t >= TimeStop /\ Progress(p, px) < MinProgress)
  BY <1>3 DEF Applies
<1>7. ~(Progress(p, px) >= TrailAt /\ GivenBack(p, s, px) >= TrailBy)
  BY <1>4 DEF Applies
<1> QED BY <1>5, <1>6, <1>7

\* The reason reported is the first, in evaluate_exit's order, of the rules that
\* apply.
LEMMA ReportedApplies ==
  ASSUME NEW p, NEW s, NEW px, NEW t, NEW m, Applying(p, s, px, t, m) # {}
  PROVE  LET A == Applying(p, s, px, t, m)
         IN Reported(A) \in A /\ \A other \in A : Rank(Reported(A)) <= Rank(other)
<1> DEFINE A == Applying(p, s, px, t, m)
<1>1. A \subseteq Reasons /\ A # {}
  BY DEF Applying
<1>2. \E reason \in A : \A other \in A : Rank(reason) <= Rank(other)
  <2>1. \A reason \in Reasons : Rank(reason) \in 1..11
    BY DEF Reasons, Rank
  <2> DEFINE P(n) == \E reason \in A : Rank(reason) = n
  <2>2. \E n \in 1..11 : P(n) /\ \A k \in 1..11 : k < n => ~P(k)
    <3> HIDE DEF P
    <3>1. PICK n \in 1..11 : P(n)
      BY <1>1, <2>1 DEF P
    <3>2. n \in {1, 2, 3, 4, 5, 6, 7, 8, 9, 10, 11}
      BY <3>1
    <3>3. \/ P(1) \/ P(2) \/ P(3) \/ P(4) \/ P(5) \/ P(6)
          \/ P(7) \/ P(8) \/ P(9) \/ P(10) \/ P(11)
      BY <3>1, <3>2
    <3> QED BY <3>3
  <2> QED BY <1>1, <2>1, <2>2
<1> HIDE DEF A
<1> QED BY <1>1, <1>2 DEF A, Reported

\* It is one of the rules.
LEMMA ReportedReason ==
  ASSUME NEW p, NEW s, NEW px, NEW t, NEW m, Applying(p, s, px, t, m) # {}
  PROVE  Reported(Applying(p, s, px, t, m)) \in Reasons
BY ReportedApplies DEF Applying

\* What one observation does to an exit state: it stays one, its stop is still
\* past every line it was past, and honours break-even.
LEMMA ObservationTightens ==
  ASSUME policy \in Policies, NEW p \in Positions, NEW s \in ExitStates, NEW px \in Prices
  PROVE  LET o == Promoted(p, Updated(p, s, px), px)
         IN /\ o \in ExitStates
            /\ Tighter(p, s.stop, o.stop) = o.stop
            /\ \A line \in Int : StopAtLeast(p, s, line) => StopAtLeast(p, o, line)
            /\ Progress(p, px) >= BreakEvenAt => StopAtLeast(p, o, BreakEvenBy)
<1> DEFINE u == Updated(p, s, px)
           o == Promoted(p, u, px)
<1>1. p.entry \in Int /\ px \in Int /\ Progress(p, px) \in Int /\ s.stop \in Int
  BY Numbers, ProgressIsInt DEF Positions, ExitStates
<1>2. u \in ExitStates /\ u.stop = s.stop
  BY <1>1, Numbers DEF Updated, ExitStates, Larger, Smaller
<1>3. PriceAt(p, BreakEvenBy) \in Int /\ \A line \in Int : PriceAt(p, line) \in Int
  BY <1>1, Numbers DEF PriceAt
<1>4. CASE Progress(p, px) >= BreakEvenAt
  <2>1. o = [u EXCEPT !.stop = Tighter(p, u.stop, PriceAt(p, BreakEvenBy))]
    BY <1>4 DEF Promoted
  <2>2. o \in ExitStates /\ o.stop = Tighter(p, s.stop, PriceAt(p, BreakEvenBy))
    BY <1>1, <1>2, <1>3, <2>1 DEF ExitStates, Tighter, Larger, Smaller
  <2>3. Tighter(p, s.stop, o.stop) = o.stop
    BY <1>1, <1>3, <2>2 DEF Tighter, Larger, Smaller
  <2>4. StopAtLeast(p, o, BreakEvenBy)
    BY <1>1, <1>3, <2>2 DEF StopAtLeast, Tighter, Larger, Smaller
  <2>5. ASSUME NEW line \in Int, StopAtLeast(p, s, line) PROVE StopAtLeast(p, o, line)
    BY <1>1, <1>3, <2>2, <2>5 DEF StopAtLeast, Tighter, Larger, Smaller
  <2> QED BY <2>2, <2>3, <2>4, <2>5
<1>5. CASE ~(Progress(p, px) >= BreakEvenAt)
  <2>1. o = u
    BY <1>5 DEF Promoted
  <2>2. Tighter(p, s.stop, u.stop) = u.stop
    BY <1>1, <1>2 DEF Tighter, Larger, Smaller
  <2> QED BY <1>2, <1>5, <2>1, <2>2 DEF StopAtLeast
<1> QED BY <1>4, <1>5

\* The first observation of a position starts from a state of that kind too.
LEMMA InitialState ==
  ASSUME policy \in Policies, NEW p \in Positions
  PROVE  /\ Initial(p) \in [stop : Int, high : Prices, low : Prices, peak : Nat]
         /\ StopAtLeast(p, Initial(p), -Risk)
<1>1. p.entry \in Prices /\ p.entry \in Int
  BY Numbers DEF Positions
<1>2. PriceAt(p, -Risk) \in Int
  BY <1>1, Numbers DEF PriceAt
<1> QED BY <1>1, <1>2, Numbers DEF Initial, StopAtLeast, Tighter, Larger, Smaller

\* AceVault's move to the entry keeps all of it: the stop only tightens.
LEMMA KeptTightens ==
  ASSUME policy \in Policies, NEW p \in Positions, NEW s \in ExitStates, NEW t
  PROVE  LET k == Kept(p, s, t)
         IN /\ k \in ExitStates
            /\ Tighter(p, s.stop, k.stop) = k.stop
            /\ \A line \in Int : StopAtLeast(p, s, line) => StopAtLeast(p, k, line)
<1> DEFINE k == Kept(p, s, t)
<1>1. p.entry \in Int /\ s.stop \in Int
  BY Numbers DEF Positions, ExitStates
<1>2. \A line \in Int : PriceAt(p, line) \in Int
  BY <1>1 DEF PriceAt
<1>3. Tighter(p, s.stop, s.stop) = s.stop
  BY <1>1 DEF Tighter, Larger, Smaller
<1>4. Tighter(p, s.stop, p.entry) \in Int
  BY <1>1 DEF Tighter, Larger, Smaller
<1>5. CASE k = s
  BY <1>3, <1>5
<1>6. CASE k = [s EXCEPT !.stop = Tighter(p, s.stop, p.entry)]
  <2>1. k \in ExitStates /\ k.stop = Tighter(p, s.stop, p.entry)
    BY <1>4, <1>6 DEF ExitStates
  <2>2. Tighter(p, s.stop, k.stop) = k.stop
    BY <1>1, <2>1 DEF Tighter, Larger, Smaller
  <2>3. ASSUME NEW line \in Int, StopAtLeast(p, s, line) PROVE StopAtLeast(p, k, line)
    BY <1>1, <1>2, <2>1, <2>3 DEF StopAtLeast, Tighter, Larger, Smaller
  <2> QED BY <2>1, <2>2, <2>3
<1>7. k = s \/ k = [s EXCEPT !.stop = Tighter(p, s.stop, p.entry)]
  BY DEF Kept
<1> HIDE DEF k
<1> QED BY <1>5, <1>6, <1>7 DEF k

\* A stop that did not trigger and is no worse than a line means the position
\* is on the right side of that line.
LEMMA AboveTheLine ==
  ASSUME policy \in Policies, NEW p \in Positions, NEW s \in ExitStates, NEW px \in Prices, NEW line \in Int,
         StopAtLeast(p, s, line), ~StopHit(p, s, px)
  PROVE  Progress(p, px) > line
<1>1. p.entry \in Int /\ s.stop \in Int /\ px \in Int
  BY Numbers DEF Positions, ExitStates
<1> QED BY <1>1 DEF StopAtLeast, StopHit, Progress, PriceAt, Tighter, Larger, Smaller

-----------------------------------------------------------------------------
\* The state an evaluation of the open position decides on.
LEMMA Evaluation ==
  ASSUME TypeOK, StopInv, pos # NoPosition
  PROVE  /\ policy \in Policies /\ pos \in Positions /\ price \in Prices
         /\ Observed \in ExitStates
         /\ StopAtLeast(pos, Observed, -Risk)
         /\ Progress(pos, price) >= BreakEvenAt => StopAtLeast(pos, Observed, BreakEvenBy)
         /\ st # NoState =>
              /\ Tighter(pos, st.stop, Observed.stop) = Observed.stop
              /\ \A line \in Int : StopAtLeast(pos, st, line) => StopAtLeast(pos, Observed, line)
<1>1. pos \in Positions /\ policy \in Policies /\ price \in Prices /\ -Risk \in Int
  BY Numbers DEF TypeOK, Positions
<1>2. Ensured \in ExitStates /\ StopAtLeast(pos, Ensured, -Risk)
  BY <1>1, InitialState DEF Ensured, TypeOK, StopInv, ExitStates
<1>3. /\ Observed \in ExitStates
      /\ Tighter(pos, Ensured.stop, Observed.stop) = Observed.stop
      /\ \A line \in Int : StopAtLeast(pos, Ensured, line) => StopAtLeast(pos, Observed, line)
      /\ Progress(pos, price) >= BreakEvenAt => StopAtLeast(pos, Observed, BreakEvenBy)
  BY <1>1, <1>2, ObservationTightens DEF Observed
<1> QED BY <1>1, <1>2, <1>3 DEF Ensured

\* The initial states.
LEMMA InitInv == Init => Inv
<1> SUFFICES ASSUME Init PROVE Inv
  OBVIOUS
<1>1. TypeOK
  BY ExitConstants DEF Init, TypeOK
<1> QED BY <1>1 DEF Init, Inv, StopInv, SurvivorInv, SurvivorsEarnTheirPlace, Idle, NoExit

\* What an evaluation records of the position is a number.
LEMMA SeenType ==
  ASSUME TypeOK, pos # NoPosition, Seen
  PROVE  best' \in Nat /\ promised' \in Nat \cup {NoPromise}
<1>1. policy \in Policies /\ pos \in Positions /\ price \in Prices
  BY DEF TypeOK, Positions
<1>2. Progress(pos, price) \in Int /\ BreakEvenBy \in Nat
  BY <1>1, ProgressIsInt, Numbers
<1> QED BY <1>2 DEF Seen, TypeOK, Larger, NoPromise

\* Every step keeps the types, the stop's history and the survivors' standing.
LEMMA NextInv == Inv /\ [Next]_vars => Inv'
<1> SUFFICES ASSUME Inv, [Next]_vars PROVE Inv'
  OBVIOUS
<1> USE DEF Inv
<1>1. ASSUME NEW side \in {"long", "short"}, Open(side) PROVE Inv'
  <2>1. pos' \in Positions /\ policy' \in Policies
    BY <1>1 DEF Open, Positions, TypeOK
  <2>2. st' = NoState
    BY <1>1 DEF Open, StopInv
  <2>3. TypeOK'
    BY <1>1, <2>1, <2>2, ExitConstants DEF Open, TypeOK, Positions
  <2> QED BY <1>1, <2>1, <2>2, <2>3, Placeholders
          DEF Open, StopInv, SurvivorInv, SurvivorsEarnTheirPlace, Idle, NoExit
<1>2. policy \in Policies /\ AgeLimit \in Nat
  BY ExitConstants DEF TypeOK
<1>3. CASE Market
  <2>1. policy' = policy
    BY <1>3 DEF Market
  <2>2. StopInv'
    BY <1>3, <2>1, SameSettings DEF Market, StopInv, StopAtLeast, Tighter, PriceAt
  <2> QED BY <1>2, <1>3, <2>2 DEF Market, lifeHistory, TypeOK, SurvivorInv, SurvivorsEarnTheirPlace, Idle, NoExit
<1>4. CASE Clock
  <2>1. age' \in 0..AgeLimit
    BY <1>2, <1>4 DEF Clock, TypeOK
  <2>2. policy' = policy
    BY <1>4 DEF Clock
  <2>3. StopInv'
    BY <1>4, <2>2, SameSettings DEF Clock, StopInv, StopAtLeast, Tighter, PriceAt
  <2> QED BY <1>2, <1>4, <2>1, <2>3
          DEF Clock, lifeHistory, TypeOK, SurvivorInv, SurvivorsEarnTheirPlace, Idle, NoExit
<1>5. CASE Reload
  <2>1. policy' \in Policies /\ Risk' = Risk
    BY <1>5, ReloadKeeps
  <2>2. StopInv'
    BY <1>5, <2>1 DEF Reload, StopInv, StopAtLeast, Tighter, PriceAt
  <2> QED BY <1>5, <2>1, <2>2
          DEF Reload, lifeHistory, TypeOK, SurvivorInv, SurvivorsEarnTheirPlace, Idle, NoExit
<1>6. ASSUME NEW massExit \in MassExits, Survive(massExit) PROVE Inv'
  <2>0. policy' = policy
    BY <1>6 DEF Survive
  <2>1. pos # NoPosition
    BY <1>6 DEF Survive
  <2>2. /\ pos \in Positions /\ price \in Prices
        /\ Observed \in ExitStates /\ StopAtLeast(pos, Observed, -Risk)
    BY <2>1, Evaluation
  <2>3. st' \in ExitStates /\ StopAtLeast(pos, st', -Risk)
    <3>1. -Risk \in Int
      BY <1>2, Numbers
    <3> QED BY <1>2, <1>6, <2>2, <3>1, KeptTightens DEF Survive
  <2>4. StopInv'
    BY <1>6, <2>0, <2>1, <2>3, SameSettings DEF Survive, StopInv, StopAtLeast, Tighter, PriceAt
  <2>5. /\ ~StopHit(pos, Observed, price)
        /\ ~(age >= TimeStop /\ Progress(pos, price) < MinProgress)
    BY <1>6, NothingApplies DEF Survive
  <2>6. Progress(pos, price) \in Int
    BY <1>2, <2>2, ProgressIsInt
  <2>7. Progress(pos, price) > -Risk
    BY <1>2, <2>2, <2>5, Numbers, AboveTheLine
  <2>8. best' \in Nat /\ promised' \in Nat \cup {NoPromise}
    BY <1>6, <2>1, SeenType DEF Survive
  <2>9. TypeOK'
    BY <1>2, <1>6, <2>3, <2>8 DEF Survive, TypeOK, ExitStates
  <2>10. SurvivorsEarnTheirPlace'
    <3>1. TimeStop' = TimeStop /\ MinProgress' = MinProgress /\ Risk' = Risk
      BY <2>0, SameSettings
    <3>2. MinProgress \in Int
      BY <1>2, Numbers
    <3> QED BY <1>6, <2>5, <2>6, <2>7, <3>1, <3>2 DEF Survive, SurvivorsEarnTheirPlace, Progress
  <2> QED BY <1>6, <2>1, <2>3, <2>4, <2>9, <2>10, Placeholders DEF Survive, SurvivorInv
<1>7. ASSUME NEW massExit \in MassExits, NEW raised \in BOOLEAN, Exit(massExit, raised)
      PROVE Inv'
  <2>1. outcome' \in Reasons
    BY <1>7, ReportedReason DEF Exit
  <2>2. outcome' # NoExit
    BY <2>1 DEF Reasons, NoExit
  <2>3. best' \in Nat /\ promised' \in Nat \cup {NoPromise}
    BY <1>7, SeenType DEF Exit
  <2>4. TypeOK'
    BY <1>2, <1>7, <2>1, <2>3 DEF Exit, TypeOK
  <2> QED BY <1>7, <2>2, <2>4 DEF Exit, StopInv, SurvivorInv, SurvivorsEarnTheirPlace
<1>8. CASE UNCHANGED vars
  <2>1. policy' = policy
    BY <1>8 DEF vars
  <2> QED BY <1>8, <2>1, SameSettings
          DEF vars, lifeHistory, TypeOK, StopInv, SurvivorInv, SurvivorsEarnTheirPlace,
              StopAtLeast, Tighter, PriceAt, Progress
<1> QED BY <1>1, <1>3, <1>4, <1>5, <1>6, <1>7, <1>8 DEF Next

\* The inductive invariant holds throughout.
THEOREM ExitInvariant == Spec => []Inv
<1>1. Init => Inv
  BY InitInv
<1>2. Inv /\ [Next]_vars => Inv'
  BY NextInv
<1> QED BY <1>1, <1>2, PTL DEF Spec

\* Type correctness of the exit engine.
THEOREM TypeCorrect == Spec => []TypeOK
<1>1. Inv => TypeOK
  BY DEF Inv
<1> QED BY <1>1, ExitInvariant, PTL

\* evaluate_exit leaves no position open past its initial stop, or idle past
\* the time stop: for every policy, route and order of failed closes.
THEOREM SurvivorsAreSound == Spec => []SurvivorsEarnTheirPlace
<1>1. Inv => SurvivorsEarnTheirPlace
  BY DEF Inv
<1> QED BY <1>1, ExitInvariant, PTL

\* working_stop_price only ever moves in the position's favour while the exit
\* state exists, whichever of the two rules moves it.
THEOREM StopsRatchet == Spec => StopRatchets
<1>1. Inv /\ [Next]_vars
        => [st # NoState /\ st' # NoState => Tighter(pos, st.stop, st'.stop) = st'.stop]_vars
  <2> SUFFICES ASSUME Inv, Next, st # NoState, st' # NoState
               PROVE  Tighter(pos, st.stop, st'.stop) = st'.stop
    OBVIOUS
  <2>1. pos # NoPosition /\ pos \in Positions /\ st \in ExitStates /\ policy \in Policies
    BY DEF Inv, StopInv, TypeOK, ExitStates, Positions
  <2>2. Tighter(pos, st.stop, st.stop) = st.stop
    BY <2>1 DEF Tighter, Larger, Smaller, ExitStates
  <2>3. CASE st' = st
    BY <2>2, <2>3
  <2>4. ASSUME NEW massExit \in MassExits, Survive(massExit)
        PROVE  Tighter(pos, st.stop, st'.stop) = st'.stop
    <3>1. Observed \in ExitStates /\ Tighter(pos, st.stop, Observed.stop) = Observed.stop
      BY <2>1, Evaluation DEF Inv
    <3>2. st' \in ExitStates /\ Tighter(pos, Observed.stop, st'.stop) = st'.stop
      BY <2>1, <2>4, <3>1, KeptTightens DEF Survive
    <3> QED BY <2>1, <3>1, <3>2 DEF Tighter, Larger, Smaller, ExitStates
  <2> QED BY <2>3, <2>4 DEF Next, Open, Market, Clock, Reload, Exit
<1> QED BY <1>1, ExitInvariant, PTL DEF Spec, StopRatchets

-----------------------------------------------------------------------------
(***************************************************************************)
(* AceVault drops a position whose close raised (DropsOnRaise), so the     *)
(* exit state lives exactly as long as the position and what it remembers  *)
(* is the whole of what was seen.                                          *)
(***************************************************************************)

\* The best progress the recorded extremes account for.
Reach(p, s) == IF p.side = "short" THEN p.entry - s.low ELSE s.high - p.entry

\* The state's peak is the best any evaluation saw, and its extremes reach it.
Remembers(p, s, far) == s.peak = far /\ far <= Reach(p, s)

\* Nothing was seen before there is a state; the state forgets nothing, and its
\* stop is past what was promised.
MemoryInv ==
  /\ st = NoState => best = 0 /\ promised = NoPromise
  /\ st # NoState =>
       /\ Remembers(pos, st, best)
       /\ promised # NoPromise => StopAtLeast(pos, st, promised)

\* The memory and the two promises that rest on it.
PromiseInv == MemoryInv /\ ProfitLockedIn /\ GiveBackBounded

\* The extremes and the peak an evaluation decides on, and keeps.
LEMMA Remembered ==
  ASSUME TypeOK, StopInv, MemoryInv, pos # NoPosition
  PROVE  /\ Remembers(pos, Observed, Larger(best, Progress(pos, price)))
         /\ \A t : Remembers(pos, Kept(pos, Observed, t), Larger(best, Progress(pos, price)))
<1> DEFINE far == Larger(best, Progress(pos, price))
           u == Updated(pos, Ensured, price)
<1>1. pos \in Positions /\ price \in Prices /\ best \in Int /\ policy \in Policies
  BY DEF TypeOK, Positions
<1>2. Progress(pos, price) \in Int /\ pos.entry \in Int /\ price \in Int
  BY <1>1, ProgressIsInt, Numbers DEF Positions
<1>3. Ensured \in ExitStates
  BY <1>1, InitialState DEF Ensured, TypeOK, ExitStates
<1>4. Remembers(pos, Ensured, best)
  <2>1. Remembers(pos, Initial(pos), 0)
    BY <1>2 DEF Remembers, Reach, Initial
  <2> QED BY <2>1 DEF MemoryInv, Ensured
<1>5. Ensured.high \in Int /\ Ensured.low \in Int /\ Ensured.peak \in Int
  <2>1. Ensured.high \in Prices /\ Ensured.low \in Prices /\ Ensured.peak \in Nat
    BY <1>3 DEF ExitStates
  <2>2. Prices \subseteq Int
    BY <1>1, Numbers
  <2>3. Ensured.high \in Int /\ Ensured.low \in Int
    BY <2>1, <2>2
  <2>4. Ensured.peak \in Int
    BY <2>1
  <2> QED BY <2>3, <2>4
<1>6. Remembers(pos, u, far)
  <2>1. /\ u.high = Larger(Ensured.high, price) /\ u.low = Smaller(Ensured.low, price)
        /\ u.peak = Larger(Ensured.peak, Progress(pos, price))
    BY DEF Updated
  <2>2. u.peak = far
    BY <1>4, <2>1 DEF Remembers
  <2>3. far <= Reach(pos, u)
    BY <1>1, <1>2, <1>4, <1>5, <2>1 DEF Remembers, Reach, Progress, Larger, Smaller
  <2> QED BY <2>2, <2>3 DEF Remembers
<1>7. u \in ExitStates
  BY <1>1, <1>2, <1>3, Numbers DEF Updated, ExitStates, Larger, Smaller
<1>8. /\ Observed.high = u.high /\ Observed.low = u.low /\ Observed.peak = u.peak
      /\ Observed \in ExitStates
  <2>1. Observed.high = u.high /\ Observed.low = u.low /\ Observed.peak = u.peak
    BY <1>7 DEF Observed, Promoted, ExitStates
  <2> QED BY <2>1, Evaluation
<1>9. Remembers(pos, Observed, far)
  BY <1>6, <1>8 DEF Remembers, Reach
<1>10. ASSUME NEW t PROVE Remembers(pos, Kept(pos, Observed, t), far)
  <2>1. /\ Kept(pos, Observed, t).high = Observed.high
        /\ Kept(pos, Observed, t).low = Observed.low
        /\ Kept(pos, Observed, t).peak = Observed.peak
    BY <1>8 DEF Kept, ExitStates
  <2> QED BY <1>9, <2>1 DEF Remembers, Reach
<1> QED BY <1>9, <1>10

\* The stop an evaluation decides on, and keeps, is past what was promised, this
\* evaluation's promise included.
LEMMA PromiseHeld ==
  ASSUME TypeOK, StopInv, MemoryInv, pos # NoPosition, Seen, promised' # NoPromise
  PROVE  /\ promised' \in Int /\ StopAtLeast(pos, Observed, promised')
         /\ \A t : StopAtLeast(pos, Kept(pos, Observed, t), promised')
<1>1. /\ policy \in Policies /\ pos \in Positions /\ Observed \in ExitStates
      /\ Progress(pos, price) >= BreakEvenAt => StopAtLeast(pos, Observed, BreakEvenBy)
      /\ st # NoState =>
           \A line \in Int : StopAtLeast(pos, st, line) => StopAtLeast(pos, Observed, line)
  BY Evaluation
<1>2. promised \in Nat \cup {NoPromise} /\ promised' \in Nat
  BY SeenType DEF TypeOK
<1>3. promised # NoPromise => StopAtLeast(pos, Observed, promised)
  BY <1>1, <1>2 DEF MemoryInv
<1>4. StopAtLeast(pos, Observed, promised')
  <2>1. CASE promised' = promised
    BY <1>3, <2>1
  <2>2. CASE promised' # promised
    <3>1. Progress(pos, price) >= BreakEvenAt /\ promised' = BreakEvenBy
      BY <2>2 DEF Seen, Larger
    <3> QED BY <1>1, <3>1
  <2> QED BY <2>1, <2>2
<1> QED BY <1>1, <1>2, <1>4, KeptTightens

\* What nothing applied to has not given back too much.
LEMMA SurvivorGivesLittleBack ==
  ASSUME TypeOK, StopInv, MemoryInv, pos # NoPosition, NEW m,
         Applying(pos, Observed, price, age, m) = {}, Progress(pos, price) >= TrailAt
  PROVE  Larger(best, Progress(pos, price)) - Progress(pos, price) < TrailBy
<1> DEFINE r == Progress(pos, price)
           far == Larger(best, r)
<1>1. policy \in Policies /\ pos \in Positions /\ Observed \in ExitStates
  BY Evaluation
<1>2. price \in Prices /\ best \in Int
  BY DEF TypeOK
<1>3. far <= Reach(pos, Observed)
  BY Remembered DEF Remembers
<1>4. GivenBack(pos, Observed, price) < TrailBy \/ ~(GivenBack(pos, Observed, price) >= TrailBy)
  BY NothingApplies
<1>5. pos.entry \in Int /\ price \in Int /\ Observed.high \in Int /\ Observed.low \in Int
  BY <1>1, <1>2, Numbers DEF Positions, ExitStates
<1>6. GivenBack(pos, Observed, price) = Reach(pos, Observed) - r
  BY <1>5 DEF GivenBack, Reach, Progress
<1>7. r \in Int /\ Reach(pos, Observed) \in Int
  BY <1>5 DEF Progress, Reach
<1>8. far \in Int
  BY <1>2, <1>7 DEF Larger
<1> QED BY <1>1, <1>3, <1>4, <1>6, <1>7, <1>8, Numbers

\* A new position has broken no promise, whichever engine's was there before.
LEMMA OpenPromise ==
  ASSUME Inv, NEW side, Open(side)
  PROVE  PromiseInv'
BY DEF Open, Inv, StopInv, PromiseInv, MemoryInv, ProfitLockedIn, GiveBackBounded, Idle, NoExit

\* While nothing is evaluated, the memory stays and no promise is at stake.
LEMMA BetweenEvaluations ==
  ASSUME PromiseInv, outcome' = Idle, UNCHANGED <<pos, st, lifeHistory>>
  PROVE  PromiseInv'
BY DEF PromiseInv, MemoryInv, Remembers, Reach, StopAtLeast, Tighter, PriceAt, lifeHistory,
       ProfitLockedIn, GiveBackBounded, Idle, NoExit

\* Every other step keeps the memory and the promises, a change of policy too.
LEMMA NextPromise ==
  ASSUME DropsOnRaise, Inv, PromiseInv, [Next]_vars, \A side \in {"long", "short"} : ~Open(side)
  PROVE  PromiseInv'
<1>1. CASE Market \/ Clock \/ Reload
  BY <1>1, BetweenEvaluations DEF Market, Clock, Reload
<1>2. ASSUME NEW massExit \in MassExits, Survive(massExit) PROVE PromiseInv'
  <2>1. /\ pos # NoPosition /\ pos' = pos /\ price' = price /\ policy' = policy
        /\ st' = Kept(pos, Observed, age) /\ Seen
        /\ best' = Larger(best, Progress(pos, price))
    BY <1>2 DEF Survive, Seen
  <2>2. TypeOK /\ StopInv /\ MemoryInv
    BY DEF Inv, PromiseInv
  <2>3. /\ policy \in Policies /\ pos \in Positions /\ price \in Prices /\ Observed \in ExitStates
    BY <2>1, <2>2, Evaluation
  <2>4. Remembers(pos, st', best')
    BY <2>1, <2>2, Remembered
  <2>5. promised' # NoPromise => /\ promised' \in Int /\ StopAtLeast(pos, Observed, promised')
                                 /\ StopAtLeast(pos, st', promised')
    BY <2>1, <2>2, PromiseHeld
  <2>6. st' # NoState
    BY <2>1, <2>3, KeptTightens, Placeholders
  <2>7. MemoryInv'
    BY <2>1, <2>4, <2>5, <2>6 DEF MemoryInv, Remembers, Reach, StopAtLeast, Tighter, PriceAt
  <2>8. ProfitLockedIn'
    <3>1. ~StopHit(pos, Observed, price)
      BY <1>2, NothingApplies DEF Survive
    <3>2. promised' # NoPromise => Progress(pos, price) > promised'
      BY <2>3, <2>5, <3>1, AboveTheLine
    <3> QED BY <2>1, <3>2 DEF ProfitLockedIn, Progress
  <2>9. GiveBackBounded'
    <3>1. Progress(pos, price) >= TrailAt => best' - Progress(pos, price) < TrailBy
      BY <1>2, <2>1, <2>2, SurvivorGivesLittleBack DEF Survive
    <3>2. TrailAt' = TrailAt /\ TrailBy' = TrailBy
      BY <2>1, SameSettings
    <3> QED BY <2>1, <3>1, <3>2 DEF GiveBackBounded, Progress
  <2> QED BY <2>7, <2>8, <2>9 DEF PromiseInv
<1>3. ASSUME NEW massExit \in MassExits, NEW raised \in BOOLEAN, Exit(massExit, raised)
      PROVE  PromiseInv'
  <2>1. st' = NoState /\ best' = 0 /\ promised' = NoPromise
    BY <1>3 DEF Exit
  <2>2. outcome' # NoExit
    BY <1>3, ReportedReason DEF Exit, Reasons, NoExit
  <2> QED BY <2>1, <2>2 DEF PromiseInv, MemoryInv, ProfitLockedIn, GiveBackBounded
<1>4. CASE UNCHANGED vars
  <2>1. UNCHANGED <<pos, st, price, outcome, lifeHistory>> /\ TrailAt' = TrailAt /\ TrailBy' = TrailBy
    BY <1>4, SameSettings DEF vars
  <2> QED BY <2>1
          DEF PromiseInv, MemoryInv, Remembers, Reach, StopAtLeast, Tighter, PriceAt, lifeHistory,
              ProfitLockedIn, GiveBackBounded, Progress
<1> QED BY <1>1, <1>2, <1>3, <1>4 DEF Next

\* What holds of the positions whose engine drops them when a close raises.
AceInv == DropsOnRaise => PromiseInv

\* It holds throughout, for every policy, route and price path.
LEMMA AceInvariant == Spec => []AceInv
<1>1. Init => AceInv
  <2>1. ASSUME Init PROVE PromiseInv
    BY <2>1 DEF Init, PromiseInv, MemoryInv, ProfitLockedIn, GiveBackBounded, Idle, NoExit
  <2> QED BY <2>1 DEF AceInv
<1>2. Inv /\ AceInv /\ [Next]_vars => AceInv'
  <2> SUFFICES ASSUME Inv, AceInv, [Next]_vars PROVE AceInv'
    OBVIOUS
  <2>1. ASSUME NEW side \in {"long", "short"}, Open(side) PROVE AceInv'
    BY <2>1, OpenPromise DEF AceInv
  <2>2. CASE \A side \in {"long", "short"} : ~Open(side)
    <3>1. DropsOnRaise' = DropsOnRaise
      <4>1. policy' = policy \/ Reload
        BY <2>2 DEF Next, vars, Market, Clock, Survive, Exit
      <4> QED BY <4>1, SameSettings, ReloadKeeps
    <3> QED BY <2>2, <3>1, NextPromise DEF AceInv
  <2> QED BY <2>1, <2>2
<1> QED BY <1>1, <1>2, ExitInvariant, PTL DEF Spec

\* AceVault's positions keep the break-even promise over their whole life: once
\* an evaluation found break_even.trigger_r reached, none leaves the position open
\* at that break-even line or below, for every route and price path and every
\* sequence of policies.
THEOREM AceKeepsItsProfit == Spec => []AceProfitLockedIn
<1>1. AceInv => AceProfitLockedIn
  BY DEF AceInv, PromiseInv, AceProfitLockedIn
<1> QED BY <1>1, AceInvariant, PTL

\* None of AceVault's evaluations leaves a trailing position open that gave back
\* the trailing distance from the best any of them saw.
THEOREM AceGivesLittleBack == Spec => []AceGiveBackBounded
<1>1. AceInv => AceGiveBackBounded
  BY DEF AceInv, PromiseInv, AceGiveBackBounded
<1> QED BY <1>1, AceInvariant, PTL

-----------------------------------------------------------------------------
\* A position at a loss is not at any of the targets: what applies then is forced,
\* one of the ranging rules, or one of the reasons the re-entry cooldown knows.
LEMMA LossApplies ==
  ASSUME policy \in Policies, NEW p \in Positions, NEW s, NEW px \in Prices,
         NEW t, NEW m, Progress(p, px) < 0
  PROVE  Applying(p, s, px, t, m)
           \subseteq CooldownReasons \cup {"regime_shift", "stale_invalidation", "range_stall"}
<1>1. ASSUME NEW reason \in Reasons, Applies(reason, p, s, px, t, m)
      PROVE  reason \in CooldownReasons \cup {"regime_shift", "stale_invalidation", "range_stall"}
  <2>1. Progress(p, px) \in Int /\ Target \in Nat /\ TargetCap \in Nat /\ Band \in Nat
    BY Numbers, ProgressIsInt
  <2>2. CASE reason = "hard_r_cap"
    BY <1>1, <2>1, <2>2 DEF Applies
  <2>3. CASE reason = "range_band"
    BY <1>1, <2>1, <2>3 DEF Applies
  <2>4. CASE reason = "take_profit"
    <3>1. TargetHit(p, px)
      BY <1>1, <2>4 DEF Applies
    <3> QED BY <2>1, <3>1 DEF TargetHit
  <2> QED BY <2>2, <2>3, <2>4 DEF Reasons, CooldownReasons
<1> QED BY <1>1 DEF Applying

\* The ranging rules apply exactly when they are due.
LEMMA RangeRulesApply ==
  ASSUME NEW s, NEW m
  PROVE  RangeRuleDue <=>
           \E reason \in {"stale_invalidation", "range_stall"} :
             reason \in Applying(pos, s, price, age, m)
<1> DEFINE A == Applying(pos, s, price, age, m)
<1>1. "stale_invalidation" \in A <=> FailBars > 0 /\ age >= FailBars /\ Progress(pos, price) < FailProgress
  BY DEF Applying, Applies, Reasons
<1>2. "range_stall" \in A <=> MaxHold > 0 /\ age >= MaxHold
  BY DEF Applying, Applies, Reasons
<1> HIDE DEF A
<1> QED BY <1>1, <1>2 DEF RangeRuleDue, A

\* evaluate_exit asks the ranging rules before any rule the cooldown knows.
LEMMA RangeRulesFirst ==
  ASSUME NEW stale \in {"stale_invalidation", "range_stall"}, NEW known \in CooldownReasons
  PROVE  ~(Rank(known) <= Rank(stale))
BY DEF Rank, CooldownReasons

\* A losing exit that the regime did not force starts the re-entry cooldown unless
\* a ranging rule is due, and then it never does: for every policy, route and
\* price path.
THEOREM LossesAreNamed == Spec => LossesCoolDown
<1>1. ASSUME Inv, [Next]_vars
      PROVE  [outcome' \in Reasons \ {"regime_shift"} /\ Progress(pos, price) < 0
               => (outcome' \in CooldownReasons <=> ~RangeRuleDue)]_vars
  <2> SUFFICES ASSUME Next, outcome' \in Reasons \ {"regime_shift"}, Progress(pos, price) < 0
               PROVE  outcome' \in CooldownReasons <=> ~RangeRuleDue
    BY <1>1
  <2>1. PICK massExit \in MassExits, raised \in BOOLEAN : Exit(massExit, raised)
    BY DEF Next, Open, Market, Clock, Reload, Survive, Idle, NoExit, Reasons
  <2>2. policy \in Policies /\ pos \in Positions /\ price \in Prices
    BY <1>1, <2>1, Evaluation DEF Exit, Inv
  <2> DEFINE A == Applying(pos, Observed, price, age, massExit)
             OwnRules == {"stale_invalidation", "range_stall"}
  <2>3. outcome' \in A /\ \A other \in A : Rank(outcome') <= Rank(other)
    BY <2>1, ReportedApplies DEF Exit
  <2>4. A \subseteq CooldownReasons \cup {"regime_shift"} \cup OwnRules
    BY <2>2, LossApplies
  <2>5. RangeRuleDue <=> \E reason \in OwnRules : reason \in A
    BY RangeRulesApply
  <2>6. OwnRules \cap CooldownReasons = {}
    BY DEF CooldownReasons
  <2> HIDE DEF A
  <2>7. outcome' \in CooldownReasons \/ outcome' \in OwnRules
    BY <2>3, <2>4
  <2>8. CASE RangeRuleDue
    <3>1. PICK stale \in OwnRules : stale \in A
      BY <2>5, <2>8
    <3>2. outcome' \notin CooldownReasons
      BY <2>3, <3>1, RangeRulesFirst
    <3> QED BY <2>8, <3>2
  <2>9. CASE ~RangeRuleDue
    <3>1. outcome' \notin OwnRules
      BY <2>3, <2>5, <2>9
    <3> QED BY <2>7, <2>9, <3>1
  <2> QED BY <2>8, <2>9
<1> QED BY <1>1, ExitInvariant, PTL DEF Spec, LossesCoolDown

-----------------------------------------------------------------------------
(* The mass-exit gate.                                                     *)

\* Whatever the market looks like, the classifier names one of the regimes.
LEMMA ClassifyRegime ==
  ASSUME NEW m \in Pictures
  PROVE  Classify(m).regime \in Regimes
<1>1. Refined(m).regime \in Regimes
  BY DEF Refined, Reading, Trending, Regimes, Pictures, Directions
<1> QED
  BY <1>1 DEF Classify, Reading, Trending, Regimes, Pictures, Directions

\* A capped age is an age within its cap.
LEMMA CappedRange ==
  ASSUME NEW n \in Nat, NEW limit \in Nat
  PROVE  Capped(n, limit) \in 0..limit /\ Capped(n, limit) <= n
BY DEF Capped

\* What a call of detect leaves behind is of the right type.
LEMMA DetectType ==
  ASSUME GateTypeOK, Detect
  PROVE  market' \in Markets /\ current' \in Regimes /\ since' \in 0..RegimeCooldown
BY ClassifyRegime, DetectorConstants DEF GateTypeOK, Detect

\* The process starts with values of the right types.
LEMMA GateInitTypeOK == GateInit => GateTypeOK
<1> SUFFICES ASSUME GateInit PROVE GateTypeOK
  OBVIOUS
<1>1. {closeAll, fired, waived} \subseteq BOOLEAN
  BY Zenon DEF GateInit
<1>2. Classify(StartupPicture).regime \in Regimes
  <2>1. StartupPicture \in Pictures
    BY DEF StartupPicture, Pictures, Directions
  <2> QED BY <2>1, ClassifyRegime
<1> QED
  BY <1>1, <1>2, DetectorConstants, GateConstants
  DEF GateInit, DetectorInit, GateTypeOK, None

\* Every step leaves the switches and the history's flags Boolean.
LEMMA NextSwitches ==
  ASSUME {closeAll, fired, waived} \subseteq BOOLEAN, [GateNext]_gateVars
  PROVE  {closeAll', fired', waived'} \subseteq BOOLEAN
BY Zenon
DEF GateNext, Tick, Elsewhere, ConfigReloads, Cycle, CycleInOtherRegime, CycleSwitchedOff,
    CycleSuppressed, CycleFires, gateVars, cycleHistory

\* Every step keeps the types: the ages stay within their caps.
LEMMA GateNextTypeOK ==
  ASSUME GateTypeOK, [GateNext]_gateVars
  PROVE  GateTypeOK'
<1>s. {closeAll', fired', waived'} \subseteq BOOLEAN
  BY NextSwitches, Zenon DEF GateTypeOK
<1> DEFINE Counts == /\ streak \in 0..MinSeconds \cup {None}
                     /\ consec \in 0..MinConsecutive
                     /\ lastExit \in 0..Cooldown \cup {None}
                     /\ exitAge \in 0..Cooldown \cup {None}
                     /\ seen \in 0..MinConsecutive
                     /\ runAge \in 0..MinSeconds \cup {None}
           Detects == market \in Markets /\ current \in Regimes /\ since \in 0..RegimeCooldown
<1>t. Counts /\ Detects
  BY DEF GateTypeOK
<1>d. Detect => Detects'
  BY DetectType
<1> USE DetectorConstants, GateConstants
<1>1. CASE Tick
  <2>1. since' \in 0..RegimeCooldown
    BY <1>1, <1>t, CappedRange DEF Tick, DetectorTick
  <2>2. /\ streak' \in 0..MinSeconds \cup {None}
        /\ lastExit' \in 0..Cooldown \cup {None} /\ exitAge' \in 0..Cooldown \cup {None}
        /\ runAge' \in 0..MinSeconds \cup {None}
    BY <1>1, <1>t, CappedRange DEF Tick, Older, None, Capped
  <2> QED BY <1>1, <1>s, <1>t, <2>1, <2>2 DEF Tick, DetectorTick, GateTypeOK
<1>2. CASE Elsewhere
  <2>1. Detects'
    BY <1>2, <1>d, <1>t DEF Elsewhere, MarketMoves
  <2> QED BY <1>2, <1>s, <1>t, <2>1 DEF Elsewhere, track, cycleHistory, GateTypeOK
<1>3. CASE ConfigReloads
  BY <1>3, <1>s, <1>t DEF ConfigReloads, detectorVars, track, cycleHistory, GateTypeOK
<1>4. CASE CycleInOtherRegime
  BY <1>4, <1>s, <1>t, <1>d DEF CycleInOtherRegime, RunEnds, track, None, GateTypeOK
<1>5. CASE CycleSwitchedOff
  BY <1>5, <1>s, <1>t, <1>d DEF CycleSwitchedOff, RunEnds, None, GateTypeOK
<1>6. CASE CycleSuppressed
  BY <1>6, <1>s, <1>t, <1>d
  DEF CycleSuppressed, StreakNow, ConsecNow, RunGrows, Capped, None, GateTypeOK
<1>7. CASE CycleFires
  BY <1>7, <1>s, <1>t, <1>d DEF CycleFires, RunEnds, None, GateTypeOK
<1>8. CASE UNCHANGED gateVars
  BY <1>8, <1>s, <1>t DEF gateVars, detectorVars, track, cycleHistory, GateTypeOK
<1> QED BY <1>1, <1>2, <1>3, <1>4, <1>5, <1>6, <1>7, <1>8 DEF GateNext, Cycle

\* Type correctness: the ages never pass their caps and the held regime is one
\* of the classifier's, for every market and setting.
THEOREM GateTypeCorrect == GateSpec => []GateTypeOK
BY GateInitTypeOK, GateNextTypeOK, PTL DEF GateSpec

\* What the gate remembers of the last mass exit: the truth, unless a cycle found
\* mass exits switched off since.
RemembersExit == ~waived => lastExit = exitAge

\* Only the cycle that finds mass exits switched off makes the gate forget.
LEMMA NextRemembersExit ==
  ASSUME RemembersExit, [GateNext]_gateVars
  PROVE  RemembersExit'
<1>1. CASE Tick
  BY <1>1 DEF Tick, RemembersExit
<1>2. CASE CycleSwitchedOff \/ CycleFires
  BY <1>2 DEF CycleSwitchedOff, CycleFires, RemembersExit
<1>3. CASE Elsewhere \/ ConfigReloads \/ CycleInOtherRegime \/ CycleSuppressed \/ UNCHANGED gateVars
  BY <1>3
  DEF Elsewhere, ConfigReloads, CycleInOtherRegime, CycleSuppressed, gateVars, track, cycleHistory,
      RemembersExit
<1> QED BY <1>1, <1>2, <1>3 DEF GateNext, Cycle

\* Two mass exits are closer than mass_exit_cooldown_seconds only if a cycle found
\* them switched off in between, for every setting and whatever the regime, the
\* operator and the other callers of detect do.
THEOREM CooldownSpacesExits == GateSpec => ExitsSpaced
<1>1. ASSUME GateTypeOK, RemembersExit, [GateNext]_gateVars
      PROVE  [fired' /\ exitAge # None => exitAge >= Cooldown \/ waived]_gateVars
  <2>1. CASE CycleFires
    BY <1>1, <2>1, GateConstants DEF CycleFires, Passes, CoolingDown, GateTypeOK, RemembersExit, None
  <2>2. CASE UNCHANGED gateVars
    BY <2>2
  <2>3. CASE Tick \/ Elsewhere \/ ConfigReloads \/ CycleInOtherRegime \/ CycleSwitchedOff \/ CycleSuppressed
    BY <2>3 DEF Tick, Elsewhere, ConfigReloads, CycleInOtherRegime, CycleSwitchedOff, CycleSuppressed
  <2> QED BY <1>1, <2>1, <2>2, <2>3 DEF GateNext, Cycle
<1>2. GateInit => RemembersExit
  BY DEF GateInit, RemembersExit
<1> QED BY <1>1, <1>2, NextRemembersExit, GateTypeCorrect, PTL DEF GateSpec, ExitsSpaced

\* A mass exit on the confidence of another classification is only ever ordered
\* within the detector's cooldown, for every market and setting: detect runs in
\* the same cycle, before the gate, and would have changed the regime.
THEOREM HeldExitsAreBounded == GateSpec => HeldExitsAreRecent
<1>1. ASSUME GateTypeOK, [GateNext]_gateVars
      PROVE  [fired' /\ Classify(market).regime # Up => since < RegimeCooldown]_gateVars
  <2>1. CASE CycleFires
    BY <1>1, <2>1, DetectorConstants DEF CycleFires, Detect, Holds
  <2>2. CASE UNCHANGED gateVars
    BY <2>2
  <2>3. CASE Tick \/ Elsewhere \/ ConfigReloads \/ CycleInOtherRegime \/ CycleSwitchedOff \/ CycleSuppressed
    BY <2>3 DEF Tick, Elsewhere, ConfigReloads, CycleInOtherRegime, CycleSwitchedOff, CycleSuppressed
  <2> QED BY <1>1, <2>1, <2>2, <2>3 DEF GateNext, Cycle
<1> QED BY <1>1, GateTypeCorrect, PTL DEF GateSpec, HeldExitsAreRecent

\* A streak is only cut where the run is cut too, and every observation that lengthens the
\* run lengthens the count.
LEMMA NextNeverUndercounts ==
  ASSUME GateTypeOK, NeverUndercounts, [GateNext]_gateVars
  PROVE  NeverUndercounts'
<1> USE GateConstants DEF NeverUndercounts, GateTypeOK
<1>1. CASE Tick
  BY <1>1 DEF Tick, Older, Capped, None
<1>2. CASE Elsewhere
  BY <1>2 DEF Elsewhere, track, cycleHistory
<1>3. CASE CycleInOtherRegime \/ CycleSwitchedOff \/ CycleFires
  <2>1. seen' = 0 /\ runAge' = None
    BY <1>3 DEF CycleInOtherRegime, CycleSwitchedOff, CycleFires, RunEnds
  <2>2. consec' = consec \/ consec' = 0
    BY <1>3 DEF CycleInOtherRegime, CycleSwitchedOff, CycleFires, track
  <2> QED BY <2>1, <2>2
<1>4. CASE CycleSuppressed
  BY <1>4 DEF CycleSuppressed, StreakNow, ConsecNow, RunGrows, Capped, None
<1>5. CASE ConfigReloads \/ UNCHANGED gateVars
  BY <1>5 DEF ConfigReloads, gateVars, track, cycleHistory
<1> QED BY <1>1, <1>2, <1>3, <1>4, <1>5 DEF GateNext, Cycle

\* The hysteresis never forgets an observation made since the last mass exit or
\* since mass exits were switched on, for every setting: it can fire early, never late.
THEOREM NeverLate == GateSpec => []NeverUndercounts
<1>1. GateInit => NeverUndercounts
  BY DEF GateInit, NeverUndercounts, None
<1> QED BY <1>1, NextNeverUndercounts, GateTypeCorrect, PTL DEF GateSpec

-----------------------------------------------------------------------------
(***************************************************************************)
(* The market gate: what enters against the exposure to BTC.               *)
(***************************************************************************)

\* The weight of a position, and the positions of a side.
Weighed(p) == p.size * Weight(p.coin, p.engine)
OnSide(P, side) == {p \in P : p.side = side}
WeighedOver(P) == [p \in P |-> Weighed(p)]

HeldPositions == [id : Nat, engine : Engines \cup {Recovered}, coin : Coins, side : Sides, size : Nat]

\* A book is finite and its ids are its own.
BookOK(B) ==
  /\ IsFiniteSet(B) /\ B \subseteq HeldPositions
  /\ \A p, q \in B : p.id = q.id => p = q

\* What entered with the cap being held to.
Vetted == {p \in book : p.id \notin unvetted}

MarketTypes ==
  /\ stage \in {"wait", "scan", "ace", "trackA"}
  /\ data \in {"read", "short", "failed"}
  /\ ctx # NoContext => ctx.regime \in BtcRegimes
  /\ safety \in Nat
  /\ batch \in Seq([signal : Signals, size : Nat, alone : BOOLEAN])
  /\ BookOK(book)

\* What a signal of the batch was approved on still stands when its turn comes:
\* the context is the tick's, and the book has only lost positions since.
Approved(b, context, B) ==
  /\ b.signal.engine = Acevault
  /\ context = NoContext => Acevault \in SkipShock
  /\ context # NoContext =>
       /\ context.shock => Acevault \in SkipShock \/ b.signal.weak
       /\ b.alone => Beta(B, b.signal.side) + b.size * Weight(b.signal.coin, Acevault)
                       <= BetaCap[b.signal.side]

BatchInv ==
  /\ stage \in {"wait", "trackA"} => batch = <<>>
  /\ \A i \in 1..Len(batch) : Approved(batch[i], ctx, book) /\ (batch[i].alone => i = 1)

\* The context is the one the tick's own fetch left.
DarkInv ==
  /\ data = "failed" => ctx = NoContext
  /\ data = "short" => ctx = Fallback

VettedInv == \A side \in Sides : Beta(Vetted, side) <= BetaCap[side]

MarketInv == MarketTypes /\ BatchInv /\ DarkInv /\ VettedInv

-----------------------------------------------------------------------------
\* Every coin and engine has a weight.
LEMMA WeightType == \A c, e : Weight(c, e) \in Nat
BY MarketConstants DEF Weight

\* Percentages of naturals are naturals, no greater up to 100.
LEMMA PercentType ==
  ASSUME NEW n \in Nat, NEW m \in Nat
  PROVE  Percent(n, m) \in Nat /\ (m <= 100 => Percent(n, m) <= n)
<1>1. n * m \in Nat
  OBVIOUS
<1>2. (n * m) \div 100 \in Nat
  <2> DEFINE k == n * m
  <2>1. k \in Nat
    BY <1>1
  <2> HIDE DEF k
  <2>2. k \div 100 \in Nat
    BY <2>1
  <2> QED BY <2>2 DEF k
<1>3. ASSUME m <= 100 PROVE (n * m) \div 100 <= n
  <2>1. n * m <= n * 100
    BY <1>3
  <2> DEFINE k == n * m
  <2>2. k \in Int /\ k <= n * 100
    BY <1>1, <2>1
  <2> HIDE DEF k
  <2>3. k \div 100 <= n
    BY <2>2, QuotientAtMost
  <2> QED BY <2>3 DEF k
<1> QED BY <1>2, <1>3 DEF Percent

\* A signal's size is a natural number, whatever scales it.
LEMMA SizeType ==
  ASSUME MarketTypes, NEW s \in Signals
  PROVE  SizeOf(s) \in Nat
<1>1. s.base \in Nat /\ s.engine \in Engines
  BY MarketConstants DEF Signals
<1>2. SafetySized(s.base, safety) \in Nat
  <2>1. SafetySized(s.base, safety) = Percent(s.base, safety)
    BY DEF SafetySized, Percent
  <2> QED BY <1>1, <2>1, PercentType DEF MarketTypes
<1>3. ASSUME NEW n \in Nat, ctx # NoContext PROVE Overlaid(s, n) \in Nat
  <2>1. ctx.regime \in BtcRegimes
    BY <1>3 DEF MarketTypes
  <2>2. RegimeMult[ctx.regime] \in Nat /\ RedMult \in Nat /\ HighVolMult \in Nat
        /\ ConflictMult[s.engine] \in Nat
    BY <1>1, <2>1, MarketConstants
  <2>3. Percent(n, RegimeMult[ctx.regime]) \in Nat
    BY <2>2, PercentType
  <2> DEFINE a == Percent(n, RegimeMult[ctx.regime])
             b == IF ctx.risk = "red" THEN Percent(a, RedMult) ELSE a
             c == IF ctx.regime = "high_volatility" THEN Percent(b, HighVolMult) ELSE b
  <2>4. b \in Nat
    BY <2>2, <2>3, PercentType
  <2> HIDE DEF b
  <2>5. c \in Nat
    BY <2>2, <2>4, PercentType
  <2> HIDE DEF c
  <2>6. Percent(c, ConflictMult[s.engine]) \in Nat
    BY <2>2, <2>5, PercentType
  <2>7. Overlaid(s, n) = IF Conflicts(s.side) THEN Percent(c, ConflictMult[s.engine]) ELSE c
    BY DEF Overlaid, a, b, c
  <2> QED BY <2>5, <2>6, <2>7
<1> QED BY <1>2, <1>3 DEF SizeOf

-----------------------------------------------------------------------------
\* The exposure of a side is a sum over its positions.
LEMMA BetaIsTotal ==
  ASSUME NEW P, NEW side
  PROVE  Beta(P, side) = Total(WeighedOver(OnSide(P, side)), OnSide(P, side))
<1> DEFINE S == OnSide(P, side)
           F == WeighedOver(S)
           G(it) == [s \in SUBSET S |-> IF s = {} THEN 0
                       ELSE LET x == CHOOSE x \in s : TRUE
                            IN x.size * Weight(x.coin, x.engine) + it[s \ {x}]]
<1>1. ASSUME NEW it PROVE G(it) = Recursion(F, S, it)
  <2>1. \A s \in SUBSET S : s # {} => (CHOOSE x \in s : TRUE) \in S
    OBVIOUS
  <2>2. \A x \in S : F[x] = x.size * Weight(x.coin, x.engine)
    BY DEF WeighedOver, Weighed
  <2> HIDE DEF S, F
  <2>3. \A s \in SUBSET S : G(it)[s] = Recursion(F, S, it)[s]
    BY <2>1, <2>2 DEF Recursion
  <2> QED BY <2>3 DEF Recursion
<1>2. Beta(P, side) = (CHOOSE it : it = G(it))[S]
  BY DEF Beta, MapThenSumSet, MapThenFoldSet, OnSide
<1> HIDE DEF G, F, S
<1>3. (CHOOSE it : it = G(it)) = (CHOOSE it : it = Recursion(F, S, it))
  BY <1>1
<1> QED BY <1>2, <1>3, TotalIsSolution DEF F, S, Solution

\* The same sum, with the weights of a larger set.
LEMMA BetaOver ==
  ASSUME NEW P, IsFiniteSet(P), P \subseteq HeldPositions, NEW T, NEW side, OnSide(T, side) \subseteq P
  PROVE  Beta(T, side) = Total(WeighedOver(P), OnSide(T, side))
<1> DEFINE S == OnSide(T, side)
<1>1. IsFiniteSet(S) /\ S \in SUBSET S
  BY FS_Subset
<1>2. \A x \in S : WeighedOver(S)[x] = WeighedOver(P)[x]
  BY DEF WeighedOver
<1> HIDE DEF S
<1>3. Total(WeighedOver(S), S) = Total(WeighedOver(P), S)
  BY <1>1, <1>2, SumOfEquals
<1> QED BY <1>3, BetaIsTotal DEF S

\* A position weighs a natural number.
LEMMA WeighedType ==
  ASSUME NEW P, P \subseteq HeldPositions
  PROVE  \A p \in P : WeighedOver(P)[p] \in Nat
<1> SUFFICES ASSUME NEW p \in P PROVE WeighedOver(P)[p] \in Nat
  OBVIOUS
<1>1. p.size \in Nat /\ Weight(p.coin, p.engine) \in Nat
  BY WeightType DEF HeldPositions
<1>2. p.size * Weight(p.coin, p.engine) \in Nat
  BY <1>1
<1> QED BY <1>2 DEF WeighedOver, Weighed

\* An exposure is a natural number, and that of a part is no greater.
LEMMA BetaOfPart ==
  ASSUME NEW P, IsFiniteSet(P), P \subseteq HeldPositions, NEW T, NEW side,
         OnSide(T, side) \subseteq OnSide(P, side)
  PROVE  Beta(T, side) \in Nat /\ Beta(P, side) \in Nat /\ Beta(T, side) <= Beta(P, side)
<1> DEFINE F == WeighedOver(P)
           A == OnSide(T, side)
           B == OnSide(P, side)
<1>1. B \in SUBSET P /\ A \in SUBSET B /\ A \in SUBSET P
  BY DEF OnSide
<1>2. \A p \in P : F[p] \in Nat
  BY WeighedType
<1>3. Beta(T, side) = Total(F, A) /\ Beta(P, side) = Total(F, B)
  BY <1>1, BetaOver
<1>4. IsFiniteSet(B)
  BY <1>1, FS_Subset
<1> HIDE DEF F, A, B
<1>5. Total(F, A) \in Nat /\ Total(F, B) \in Nat
  BY <1>1, <1>2, SumOfNats
<1>6. Total(F, A) <= Total(F, B)
  BY <1>1, <1>2, <1>4, SumOfPart
<1> QED BY <1>3, <1>5, <1>6

\* A book's exposure is that of two parts together.
LEMMA BetaOfTwo ==
  ASSUME NEW P, IsFiniteSet(P), P \subseteq HeldPositions, NEW T \in SUBSET P, NEW side
  PROVE  Beta(P, side) = Beta(T, side) + Beta(P \ T, side)
<1> DEFINE F == WeighedOver(P)
           A == OnSide(T, side)
           B == OnSide(P \ T, side)
<1>1. A \in SUBSET P /\ B \in SUBSET P /\ A \cap B = {} /\ A \cup B = OnSide(P, side)
  BY DEF OnSide
<1>2. \A p \in A \cup B : F[p] \in Int
  BY <1>1, WeighedType
<1>3. Beta(T, side) = Total(F, A) /\ Beta(P \ T, side) = Total(F, B)
      /\ Beta(P, side) = Total(F, A \cup B)
  BY <1>1, BetaOver
<1>4. IsFiniteSet(A) /\ IsFiniteSet(B)
  BY <1>1, FS_Subset
<1> HIDE DEF F, A, B
<1>5. Total(F, A \cup B) = Total(F, A) + Total(F, B)
  BY <1>1, <1>2, <1>4, SumOfUnion
<1> QED BY <1>3, <1>5

\* A new position adds its weight to its side.
LEMMA BetaWith ==
  ASSUME NEW P, IsFiniteSet(P), P \subseteq HeldPositions, NEW q \in HeldPositions, q \notin P
  PROVE  Beta(P \cup {q}, q.side) = Beta(P, q.side) + Weighed(q)
<1> DEFINE R == P \cup {q}
           F == WeighedOver(R)
           A == OnSide(P, q.side)
<1>1. IsFiniteSet(R) /\ R \subseteq HeldPositions
  BY FS_AddElement
<1>2. A \subseteq R /\ A \in SUBSET P /\ q \notin A /\ OnSide(R, q.side) = A \cup {q}
  BY DEF OnSide
<1>3. \A p \in R : F[p] \in Int
  BY <1>1, WeighedType
<1>4. Beta(P, q.side) = Total(F, A) /\ Beta(R, q.side) = Total(F, A \cup {q})
  BY <1>1, <1>2, BetaOver
<1>5. IsFiniteSet(A)
  BY <1>2, FS_Subset
<1>6. F[q] = Weighed(q)
  BY DEF WeighedOver
<1> HIDE DEF F, A, R
<1>7. Total(F, A \cup {q}) = Total(F, A) + F[q]
  <2>1. \A x \in A \cup {q} : F[x] \in Int
    BY <1>2, <1>3 DEF R
  <2> QED BY <1>2, <1>5, <2>1, SumWith
<1> QED BY <1>4, <1>6, <1>7 DEF R

\* Below MaxOpen there is an id that no position has.
LEMMA FreshId ==
  ASSUME BookOK(book), Cardinality(book) < MaxOpen
  PROVE  \E i \in Ids : \A p \in book : p.id # i
<1> SUFFICES ASSUME \A i \in Ids : \E p \in book : p.id = i PROVE FALSE
  OBVIOUS
<1> DEFINE T == {p.id : p \in book}
           f == [p \in book |-> p.id]
<1>1. f \in Surjection(book, T)
  BY DEF Surjection
<1>2. Ids \in SUBSET T
  OBVIOUS
<1>3. IsFiniteSet(book)
  BY DEF BookOK
<1> HIDE DEF f, T
<1>4. IsFiniteSet(T) /\ Cardinality(T) <= Cardinality(book)
  BY <1>1, <1>3, FS_Surjection
<1>5. Cardinality(Ids) <= Cardinality(T)
  BY <1>2, <1>4, FS_Subset
<1>6. MaxOpen \in Nat /\ MaxBatch \in Nat
  BY MarketConstants
<1>7. Cardinality(Ids) >= MaxOpen /\ Cardinality(Ids) \in Int
  <2> DEFINE n == MaxOpen + MaxBatch
  <2>1. n \in Nat /\ n >= MaxOpen
    BY <1>6
  <2>2. Ids = 1..n
    BY DEF Ids
  <2> HIDE DEF n
  <2>3. Cardinality(1..n) = IF 1 > n THEN 0 ELSE n - 1 + 1
    BY <2>1, FS_Interval
  <2> QED BY <1>6, <2>1, <2>2, <2>3
<1>8. Cardinality(T) \in Nat /\ Cardinality(book) \in Nat
  BY <1>3, <1>4, FS_CardinalityType
<1> QED BY <1>4, <1>5, <1>6, <1>7, <1>8

\* What a registration does to the book.
LEMMA Registration ==
  ASSUME BookOK(book), VettedInv, Cardinality(book) < MaxOpen,
         NEW s \in Signals, NEW size \in Nat, NEW vetted \in BOOLEAN,
         Registered(s, size, vetted),
         vetted => Beta(book, s.side) + size * Weight(s.coin, s.engine) <= BetaCap[s.side]
  PROVE  /\ BookOK(book') /\ VettedInv'
         /\ \A p \in book' \ book : p.engine = s.engine
<1> DEFINE id == CHOOSE i \in Ids : \A p \in book : p.id # i
           q == [id |-> id, engine |-> s.engine, coin |-> s.coin, side |-> s.side, size |-> size]
<1>1. book' = book \cup {q} /\ unvetted' = IF vetted THEN unvetted ELSE unvetted \cup {id}
  BY DEF Registered
<1>2. id \in Ids /\ \A p \in book : p.id # id
  BY FreshId
<1>3. id \in Nat
  BY <1>2, MarketConstants DEF Ids
<1> HIDE DEF id
<1>4. q \in HeldPositions /\ q.id = id /\ q.side = s.side /\ q.engine = s.engine /\ q \notin book
  BY <1>2, <1>3 DEF Signals, HeldPositions
<1>5. Weighed(q) = size * Weight(s.coin, s.engine)
  BY DEF Weighed
<1> HIDE DEF q
<1>6. BookOK(book')
  <2>1. IsFiniteSet(book')
    BY <1>1, FS_AddElement DEF BookOK
  <2>2. book' \subseteq HeldPositions
    BY <1>1, <1>4 DEF BookOK
  <2>3. \A p, r \in book' : p.id = r.id => p = r
    BY <1>1, <1>2, <1>4 DEF BookOK
  <2> QED BY <2>1, <2>2, <2>3 DEF BookOK
<1>7. ASSUME NEW side \in Sides PROVE Beta(Vetted', side) <= BetaCap[side]
  <2>1. IsFiniteSet(book) /\ book \subseteq HeldPositions
    BY DEF BookOK
  <2>2. Beta(Vetted, side) <= BetaCap[side] /\ BetaCap[side] \in Nat
    BY MarketConstants DEF VettedInv
  <2>3. IsFiniteSet(Vetted) /\ Vetted \subseteq HeldPositions
    <3>1. Vetted \in SUBSET book
      BY DEF Vetted
    <3> QED BY <2>1, <3>1, FS_Subset
  <2>4. CASE vetted /\ side = s.side
    <3>1. Beta(book', side) = Beta(book, side) + Weighed(q)
      BY <1>1, <1>4, <2>1, <2>4, BetaWith
    <3>2. OnSide(Vetted', side) \subseteq OnSide(book', side)
      BY DEF Vetted, OnSide
    <3>3. /\ Beta(Vetted', side) <= Beta(book', side)
          /\ Beta(Vetted', side) \in Nat /\ Beta(book', side) \in Nat
      BY <1>6, <3>2, BetaOfPart DEF BookOK
    <3>4. Beta(book, side) + Weighed(q) <= BetaCap[side]
      BY <1>5, <2>4
    <3>5. Beta(book', side) <= BetaCap[side]
      BY <3>1, <3>4
    <3> QED BY <2>2, <3>3, <3>5
  <2>5. CASE ~(vetted /\ side = s.side)
    <3>1. OnSide(Vetted', side) \subseteq OnSide(Vetted, side)
      BY <1>1, <1>2, <1>4, <2>5 DEF Vetted, OnSide
    <3>2. /\ Beta(Vetted', side) <= Beta(Vetted, side)
          /\ Beta(Vetted', side) \in Nat /\ Beta(Vetted, side) \in Nat
      BY <2>3, <3>1, BetaOfPart
    <3> QED BY <2>2, <3>2
  <2> QED BY <2>4, <2>5
<1>8. VettedInv'
  BY <1>7 DEF VettedInv
<1>9. \A p \in book' \ book : p.engine = s.engine
  BY <1>1, <1>4
<1> QED BY <1>6, <1>8, <1>9

\* A position that goes takes its mark with it, and only its own.
LEMMA Closing ==
  ASSUME BookOK(book), VettedInv, NEW q \in book,
         book' = book \ {q}, unvetted' = unvetted \ {q.id}
  PROVE  /\ BookOK(book') /\ VettedInv'
         /\ \A side \in Sides : /\ Beta(book', side) <= Beta(book, side)
                                /\ Beta(book', side) \in Nat /\ Beta(book, side) \in Nat
<1>1. IsFiniteSet(book) /\ book \subseteq HeldPositions
  BY DEF BookOK
<1>2. BookOK(book')
  <2>1. IsFiniteSet(book')
    BY <1>1, FS_RemoveElement
  <2> QED BY <2>1 DEF BookOK
<1>3. ASSUME NEW side \in Sides
      PROVE  Beta(book', side) <= Beta(book, side) /\ Beta(book', side) \in Nat /\ Beta(book, side) \in Nat
  <2>1. OnSide(book', side) \subseteq OnSide(book, side)
    BY DEF OnSide
  <2> QED BY <1>1, <2>1, BetaOfPart
<1>4. ASSUME NEW side \in Sides PROVE Beta(Vetted', side) <= BetaCap[side]
  <2>1. IsFiniteSet(Vetted) /\ Vetted \subseteq HeldPositions
    <3>1. Vetted \in SUBSET book
      BY DEF Vetted
    <3> QED BY <1>1, <3>1, FS_Subset
  <2>2. OnSide(Vetted', side) \subseteq OnSide(Vetted, side)
    BY DEF Vetted, OnSide, BookOK
  <2>3. /\ Beta(Vetted', side) <= Beta(Vetted, side)
        /\ Beta(Vetted', side) \in Nat /\ Beta(Vetted, side) \in Nat
    BY <2>1, <2>2, BetaOfPart
  <2>4. Beta(Vetted, side) <= BetaCap[side] /\ BetaCap[side] \in Nat
    BY MarketConstants DEF VettedInv
  <2> QED BY <2>3, <2>4
<1> QED BY <1>2, <1>3, <1>4 DEF VettedInv

\* Nothing weighs nothing.
LEMMA BetaOfNone == \A side : Beta({}, side) = 0
<1> SUFFICES ASSUME NEW side PROVE Beta({}, side) = 0
  OBVIOUS
<1>1. OnSide({}, side) = {}
  BY DEF OnSide
<1> QED BY <1>1, BetaIsTotal, SumOfNone

\* What the venue nets is an integer.
LEMMA NetType ==
  ASSUME BookOK(book), NEW c
  PROVE  NetOn(book, c) \in Int
<1> DEFINE S == {p \in book : p.coin = c}
           F == [p \in S |-> Signed(p)]
           G(it) == [s \in SUBSET S |-> IF s = {} THEN 0
                       ELSE LET x == CHOOSE x \in s : TRUE IN Signed(x) + it[s \ {x}]]
<1>1. ASSUME NEW it PROVE G(it) = Recursion(F, S, it)
  <2>1. \A s \in SUBSET S : s # {} => (CHOOSE x \in s : TRUE) \in S
    OBVIOUS
  <2> HIDE DEF S
  <2>2. \A s \in SUBSET S : G(it)[s] = Recursion(F, S, it)[s]
    BY <2>1 DEF Recursion
  <2> QED BY <2>2 DEF Recursion
<1>2. NetOn(book, c) = (CHOOSE it : it = G(it))[S]
  BY DEF NetOn, MapThenSumSet, MapThenFoldSet
<1>3. IsFiniteSet(S)
  <2>1. S \in SUBSET book
    OBVIOUS
  <2> QED BY <2>1, FS_Subset DEF BookOK
<1>4. \A p \in S : F[p] \in Int
  BY DEF BookOK, HeldPositions, Signed
<1> HIDE DEF G, F, S
<1>5. (CHOOSE it : it = G(it)) = (CHOOSE it : it = Recursion(F, S, it))
  BY <1>1
<1>6. NetOn(book, c) = Total(F, S)
  BY <1>2, <1>5, TotalIsSolution DEF Solution
<1> QED BY <1>3, <1>4, <1>6, SumType

\* The book that sync_from_hl builds is one, with an id for every coin held.
LEMMA NettedOK ==
  ASSUME BookOK(book)
  PROVE  BookOK(Netted) /\ \A p \in Netted : p.engine = Recovered
<1> DEFINE held == {c \in Coins : NetOn(book, c) # 0}
           below(c) == {x \in held : CoinRank[x] <= CoinRank[c]}
           rank(c) == Cardinality(below(c))
           P(c) == [id |-> rank(c), engine |-> Recovered, coin |-> c,
                    side |-> IF NetOn(book, c) > 0 THEN "long" ELSE "short",
                    size |-> IF NetOn(book, c) > 0 THEN NetOn(book, c) ELSE -NetOn(book, c)]
           f == [c \in held |-> P(c)]
<1>1. Netted = {P(c) : c \in held}
  BY DEF Netted
<1>2. IsFiniteSet(held)
  <2>1. held \in SUBSET Coins
    OBVIOUS
  <2> QED BY <2>1, FS_Subset, MarketConstants
<1>3. \A c \in held : IsFiniteSet(below(c)) /\ rank(c) \in Nat
  <2>1. \A c \in held : below(c) \in SUBSET held
    OBVIOUS
  <2> HIDE DEF held, below
  <2> QED BY <1>2, <2>1, FS_Subset, FS_CardinalityType
<1>4. f \in Surjection(held, Netted)
  BY <1>1 DEF Surjection
<1>5. IsFiniteSet(Netted)
  <2> HIDE DEF f, held
  <2> QED BY <1>2, <1>4, FS_Surjection
<1>6. ASSUME NEW c \in held PROVE P(c) \in HeldPositions
  <2>1. NetOn(book, c) \in Int
    BY NetType
  <2>2. rank(c) \in Nat
    BY <1>3
  <2> HIDE DEF rank
  <2> QED BY <2>1, <2>2 DEF HeldPositions, Sides
<1>7. ASSUME NEW c \in held, NEW d \in held, CoinRank[c] < CoinRank[d] PROVE rank(c) < rank(d)
  <2>1. CoinRank[c] \in Nat /\ CoinRank[d] \in Nat /\ \A x \in held : CoinRank[x] \in Nat
    BY MarketConstants
  <2>2. below(c) \in SUBSET below(d) /\ d \in below(d) /\ d \notin below(c)
    BY <1>7, <2>1
  <2>3. IsFiniteSet(below(d)) /\ rank(c) \in Nat /\ rank(d) \in Nat
    BY <1>3
  <2> HIDE DEF below
  <2>4. rank(c) <= rank(d) /\ (rank(d) = rank(c) => below(d) = below(c))
    BY <2>2, <2>3, FS_Subset
  <2> HIDE DEF rank
  <2> QED BY <2>2, <2>3, <2>4
<1>8. ASSUME NEW c \in held, NEW d \in held, rank(c) = rank(d) PROVE c = d
  <2>1. CoinRank[c] \in Nat /\ CoinRank[d] \in Nat /\ (CoinRank[c] = CoinRank[d] => c = d)
    BY MarketConstants
  <2>2. rank(c) \in Nat /\ rank(d) \in Nat
    BY <1>3
  <2> HIDE DEF rank, held
  <2>3. CoinRank[c] < CoinRank[d] \/ CoinRank[d] < CoinRank[c] \/ CoinRank[c] = CoinRank[d]
    BY <2>1
  <2> QED BY <1>7, <1>8, <2>1, <2>2, <2>3
<1>9. \A c \in held : P(c).id = rank(c) /\ P(c).engine = Recovered
  OBVIOUS
<1> HIDE DEF P, rank, held
<1>10. Netted \subseteq HeldPositions
  BY <1>1, <1>6
<1>11. \A p, q \in Netted : p.id = q.id => p = q
  <2> SUFFICES ASSUME NEW p \in Netted, NEW q \in Netted, p.id = q.id PROVE p = q
    OBVIOUS
  <2>1. PICK c \in held : p = P(c)
    BY <1>1
  <2>2. PICK d \in held : q = P(d)
    BY <1>1
  <2> QED BY <1>8, <1>9, <2>1, <2>2
<1>12. \A p \in Netted : p.engine = Recovered
  BY <1>1, <1>9
<1> QED BY <1>5, <1>10, <1>11, <1>12 DEF BookOK

-----------------------------------------------------------------------------
\* What validate let pass: it knows no context only where that is exempt, and
\* with one it has asked for the shock and the cap.
LEMMA Validated ==
  ASSUME MarketTypes, NEW s \in Signals, Validates(s)
  PROVE  /\ SizeOf(s) \in Nat
         /\ ctx = NoContext => s.engine \in SkipShock
         /\ ctx # NoContext => ~ShockVeto(s) /\ ~ExceedsBetaCap(s, SizeOf(s))
<1>1. OverlayPasses(s)
  BY DEF Validates
<1>2. SizeOf(s) \in Nat
  BY SizeType
<1> QED BY <1>1, <1>2 DEF OverlayPasses, PassesBlind, PassesVetoes

\* The cap, asked and not exceeded, bounds what the side weighs with the signal.
LEMMA CapAsked ==
  ASSUME BookOK(book), NEW s \in Signals, NEW size \in Nat, ~ExceedsBetaCap(s, size)
  PROVE  /\ Beta(book, s.side) + size * Weight(s.coin, s.engine) <= BetaCap[s.side]
         /\ size * Weight(s.coin, s.engine) \in Nat
         /\ Beta(book, s.side) \in Nat /\ BetaCap[s.side] \in Nat /\ s.side \in Sides
<1>1. s.side \in Sides /\ BetaCap[s.side] \in Nat
  BY MarketConstants DEF Signals
<1>2. Beta(book, s.side) \in Nat
  BY BetaOfPart DEF BookOK
<1>3. size * Weight(s.coin, s.engine) \in Nat
  <2>1. Weight(s.coin, s.engine) \in Nat
    BY WeightType
  <2> QED BY <2>1
<1> DEFINE n == size * Weight(s.coin, s.engine)
<1>4. ~(Beta(book, s.side) + n > BetaCap[s.side])
  BY DEF ExceedsBetaCap
<1> HIDE DEF n
<1>5. n \in Nat => Beta(book, s.side) + n <= BetaCap[s.side]
  BY <1>1, <1>2, <1>4
<1> QED BY <1>1, <1>2, <1>3, <1>5 DEF n

\* A size that Fathom does not enlarge is no heavier.
LEMMA ResizedFits ==
  ASSUME NEW size \in Nat, NEW mult \in Nat, mult <= 100, NEW w \in Nat, NEW b \in Nat, NEW cap \in Nat,
         b + size * w <= cap
  PROVE  b + Percent(size, mult) * w <= cap
<1> DEFINE small == Percent(size, mult)
<1>1. small \in Nat /\ small <= size
  BY PercentType
<1> HIDE DEF small
<1>2. small * w <= size * w
  BY <1>1
<1>3. small * w \in Nat /\ size * w \in Nat
  BY <1>1
<1> QED BY <1>2, <1>3 DEF small

\* What Fathom may name is a percentage.
LEMMA AdvisedType == Advised \subseteq Nat
<1>1. ASSUME NEW raw \in RawMults PROVE Clamped(raw) \in Nat
  <2>1. raw \in Nat /\ MaxMult \in Nat /\ MinMult \in Nat
    BY MarketConstants
  <2>2. Min({raw, MaxMult}) \in Nat
    BY <2>1, MinOfTwo
  <2> QED BY <2>1, <2>2, MaxOfTwo DEF Clamped
<1> QED BY <1>1 DEF Advised

\* The initial states.
LEMMA InitMarketInv == MarketInit => MarketInv
<1> SUFFICES ASSUME MarketInit PROVE MarketInv
  OBVIOUS
<1>1. BookOK(book) /\ Vetted = {} /\ batch = <<>>
  BY FS_EmptySet DEF MarketInit, BookOK, Vetted
<1>2. MarketTypes
  BY <1>1 DEF MarketInit, MarketTypes
<1>3. BatchInv
  BY <1>1 DEF BatchInv
<1>4. DarkInv
  BY DEF MarketInit, DarkInv
<1>5. VettedInv
  BY <1>1, BetaOfNone, MarketConstants DEF VettedInv
<1> QED BY <1>2, <1>3, <1>4, <1>5 DEF MarketInv

\* The context that a tick stores.
LEMMA TickBeginKeeps ==
  ASSUME MarketInv, TickBegin
  PROVE  MarketInv'
<1>1. stage = "wait" /\ stage' = "scan" /\ batch' = batch /\ book' = book /\ unvetted' = unvetted
      /\ safety' \in Safeties
  BY DEF TickBegin
<1>2. PICK f \in Fetches : StoreContext(f) /\ data' = f.data
  BY DEF TickBegin
<1>3. batch = <<>>
  BY <1>1 DEF MarketInv, BatchInv
<1>4. \/ f.data = "read" /\ f.reading \in Readings
      \/ f.data = "short" \/ f.data = "failed"
  BY DEF Fetches
<1>5. ctx' # NoContext => ctx'.regime \in BtcRegimes
  <2>1. CASE f.data = "read" /\ f.reading \in Readings
    <3>1. ctx' = ContextOf(f.reading)
      BY <1>2, <2>1 DEF StoreContext
    <3> DEFINE r == f.reading
               impulse == r.move >= MovePost /\ r.extended
    <3>2. r.primary \in PrimaryRegimes /\ r.vol \in Nat /\ VolHigh \in Nat
      BY <2>1, MarketConstants
    <3>3. RegimeOf(r) \in BtcRegimes
      <4>1. CASE r.vol >= VolHigh
        <5>1. ~(r.vol < VolHigh)
          BY <3>2, <4>1
        <5> QED BY <4>1, <5>1 DEF RegimeOf, BtcRegimes
      <4>2. CASE r.vol < VolHigh
        <5>1. ~(r.vol >= VolHigh)
          BY <3>2, <4>2
        <5> QED BY <3>2, <4>2, <5>1 DEF RegimeOf, BtcRegimes, PrimaryRegimes
      <4> QED BY <3>2, <4>1, <4>2
    <3> QED BY <3>1, <3>3 DEF ContextOf
  <2>2. CASE f.data = "short"
    BY <1>2, <2>2 DEF StoreContext, Fallback, BtcRegimes
  <2>3. CASE f.data = "failed"
    BY <1>2, <2>3 DEF StoreContext
  <2> QED BY <1>4, <2>1, <2>2, <2>3
<1>6. MarketTypes'
  <2>1. data' \in {"read", "short", "failed"}
    BY <1>2, <1>4
  <2> QED BY <1>1, <1>5, <2>1, MarketConstants DEF MarketInv, MarketTypes
<1>7. BatchInv'
  BY <1>1, <1>3 DEF BatchInv
<1>8. DarkInv'
  BY <1>2, <1>4 DEF DarkInv, StoreContext
<1>9. VettedInv'
  <2>1. Vetted' = Vetted
    BY <1>1 DEF Vetted
  <2> QED BY <2>1 DEF MarketInv, VettedInv
<1> QED BY <1>6, <1>7, <1>8, <1>9 DEF MarketInv

\* A signal that AceVault's candidate loop admits.
LEMMA AceAdmitKeeps ==
  ASSUME MarketInv, AceAdmit
  PROVE  MarketInv'
<1>1. /\ stage = "scan" /\ stage' = stage /\ ctx' = ctx /\ data' = data /\ safety' = safety
      /\ book' = book /\ unvetted' = unvetted
  BY DEF AceAdmit
<1>2. PICK s \in Signals : /\ s.engine = Acevault /\ Validates(s)
                           /\ batch' = Append(batch, [signal |-> s, size |-> SizeOf(s), alone |-> batch = <<>>])
  BY DEF AceAdmit
<1> DEFINE b == [signal |-> s, size |-> SizeOf(s), alone |-> batch = <<>>]
           Entry == [signal : Signals, size : Nat, alone : BOOLEAN]
<1>3. MarketTypes
  BY DEF MarketInv
<1>4. b \in Entry /\ b.signal = s /\ b.size = SizeOf(s) /\ b.alone = (batch = <<>>)
  <2>1. (batch = <<>>) \in BOOLEAN /\ SizeOf(s) \in Nat
    BY <1>2, <1>3, Validated
  <2> QED BY <2>1
<1>5. Approved(b, ctx, book)
  <2>1. ctx = NoContext => Acevault \in SkipShock
    BY <1>2, <1>3, Validated
  <2>2. ASSUME ctx # NoContext
        PROVE  /\ ctx.shock => Acevault \in SkipShock \/ s.weak
               /\ Beta(book, s.side) + SizeOf(s) * Weight(s.coin, s.engine) <= BetaCap[s.side]
    <3>1. ~ShockVeto(s) /\ ~ExceedsBetaCap(s, SizeOf(s)) /\ SizeOf(s) \in Nat
      BY <1>2, <1>3, <2>2, Validated
    <3> QED BY <1>2, <1>3, <3>1, CapAsked DEF ShockVeto, MarketTypes
  <2> QED BY <1>2, <1>4, <2>1, <2>2 DEF Approved
<1> HIDE DEF b
<1>6. batch \in Seq(Entry) /\ batch' = Append(batch, b)
  BY <1>2, <1>3 DEF MarketTypes, b
<1>7. /\ batch' \in Seq(Entry) /\ Len(batch') = Len(batch) + 1 /\ Len(batch) \in Nat
      /\ batch'[Len(batch) + 1] = b /\ \A i \in 1..Len(batch) : batch'[i] = batch[i]
  BY <1>4, <1>6
<1>8. MarketTypes'
  BY <1>1, <1>3, <1>7 DEF MarketTypes
<1>9. BatchInv'
  <2> SUFFICES ASSUME NEW i \in 1..Len(batch')
               PROVE  Approved(batch'[i], ctx, book) /\ (batch'[i].alone => i = 1)
    BY <1>1 DEF BatchInv
  <2>1. CASE i \in 1..Len(batch)
    BY <1>7, <2>1 DEF MarketInv, BatchInv
  <2>2. CASE i = Len(batch) + 1
    <3>1. b.alone => Len(batch) = 0
      BY <1>4
    <3> QED BY <1>5, <1>7, <2>2, <3>1
  <2> QED BY <1>7, <2>1, <2>2
<1>10. DarkInv' /\ VettedInv'
  <2>1. Vetted' = Vetted
    BY <1>1 DEF Vetted
  <2> QED BY <1>1, <2>1 DEF MarketInv, DarkInv, VettedInv
<1> QED BY <1>8, <1>9, <1>10 DEF MarketInv

\* What is left of the batch once its first signal is sent or dropped.
LEMMA RestOfBatch ==
  ASSUME MarketInv, batch # <<>>, batch' = Tail(batch)
  PROVE  /\ Head(batch) \in [signal : Signals, size : Nat, alone : BOOLEAN]
         /\ Approved(Head(batch), ctx, book)
         /\ batch' \in Seq([signal : Signals, size : Nat, alone : BOOLEAN])
         /\ \A i \in 1..Len(batch') : ~batch'[i].alone /\ Approved(batch'[i], ctx, book)
<1> DEFINE Entry == [signal : Signals, size : Nat, alone : BOOLEAN]
<1>1. batch \in Seq(Entry)
  BY DEF MarketInv, MarketTypes
<1> HIDE DEF Entry
<1>2. /\ Head(batch) \in Entry /\ Head(batch) = batch[1] /\ 1 \in 1..Len(batch)
      /\ batch' \in Seq(Entry) /\ \A i \in 1..Len(batch') : batch'[i] = batch[i + 1] /\ i + 1 \in 1..Len(batch)
      /\ \A i \in 1..Len(batch') : i + 1 # 1
  BY <1>1
<1>3. \A i \in 1..Len(batch) : Approved(batch[i], ctx, book) /\ (batch[i].alone => i = 1)
  BY DEF MarketInv, BatchInv
<1> QED BY <1>2, <1>3 DEF Entry

\* A signal that is not alone asks nothing of the book.
LEMMA ApprovedWithout ==
  ASSUME NEW b, NEW context, NEW B, NEW C, Approved(b, context, B), ~b.alone
  PROVE  Approved(b, context, C)
BY DEF Approved

\* AceVault sends the first of its batch.
LEMMA AceRegisterKeeps ==
  ASSUME MarketInv, AceRegister
  PROVE  /\ MarketInv' /\ Head(batch).signal.engine = Acevault
         /\ \A p \in book' \ book : p.engine = Acevault
<1> DEFINE b == Head(batch)
<1>1. /\ stage = "ace" /\ batch # <<>> /\ Cardinality(book) < MaxOpen
      /\ stage' = stage /\ ctx' = ctx /\ data' = data /\ safety' = safety /\ batch' = Tail(batch)
  BY DEF AceRegister
<1>2. PICK mult \in Advised :
        Registered(b.signal, Percent(b.size, mult), b.alone /\ mult <= 100 /\ ctx # NoContext)
  BY DEF AceRegister
<1>3. /\ b \in [signal : Signals, size : Nat, alone : BOOLEAN]
      /\ Approved(b, ctx, book)
      /\ batch' \in Seq([signal : Signals, size : Nat, alone : BOOLEAN])
      /\ \A i \in 1..Len(batch') : ~batch'[i].alone /\ Approved(batch'[i], ctx, book)
  BY <1>1, RestOfBatch
<1> DEFINE vetted == b.alone /\ mult <= 100 /\ ctx # NoContext
<1>4. b.signal \in Signals /\ b.size \in Nat /\ b.signal.engine = Acevault /\ mult \in Nat
  BY <1>3, AdvisedType DEF Approved
<1>5. Percent(b.size, mult) \in Nat /\ vetted \in BOOLEAN
  BY <1>3, <1>4, PercentType
<1>6. BookOK(book) /\ VettedInv
  BY DEF MarketInv, MarketTypes
<1>7. vetted => Beta(book, b.signal.side) + Percent(b.size, mult) * Weight(b.signal.coin, b.signal.engine)
                  <= BetaCap[b.signal.side]
  <2> SUFFICES ASSUME vetted
               PROVE  Beta(book, b.signal.side) + Percent(b.size, mult) * Weight(b.signal.coin, Acevault)
                        <= BetaCap[b.signal.side]
    BY <1>4
  <2>1. Beta(book, b.signal.side) + b.size * Weight(b.signal.coin, Acevault) <= BetaCap[b.signal.side]
    BY <1>3 DEF Approved
  <2>2. /\ Beta(book, b.signal.side) \in Nat /\ BetaCap[b.signal.side] \in Nat
        /\ Weight(b.signal.coin, Acevault) \in Nat
    BY <1>4, <1>6, BetaOfPart, WeightType, MarketConstants DEF BookOK, Signals
  <2> QED BY <1>4, <2>1, <2>2, ResizedFits
<1>8. /\ BookOK(book') /\ VettedInv'
      /\ \A p \in book' \ book : p.engine = b.signal.engine
  <2> HIDE DEF b, vetted
  <2>1. Registered(b.signal, Percent(b.size, mult), vetted)
    BY <1>2 DEF vetted
  <2> QED BY <1>1, <1>4, <1>5, <1>6, <1>7, <2>1, Registration
<1>9. MarketTypes'
  BY <1>1, <1>3, <1>8 DEF MarketInv, MarketTypes
<1>10. BatchInv'
  <2>1. \A i \in 1..Len(batch') : Approved(batch'[i], ctx, book') /\ ~batch'[i].alone
    BY <1>3, ApprovedWithout
  <2> QED BY <1>1, <2>1 DEF BatchInv
<1>11. DarkInv'
  BY <1>1 DEF MarketInv, DarkInv
<1> QED BY <1>4, <1>8, <1>9, <1>10, <1>11 DEF MarketInv

\* A Track A order enters at the size it was validated at.
LEMMA ExecuteKeeps ==
  ASSUME MarketInv, Execute
  PROVE  /\ MarketInv'
         /\ \A p \in book' \ book : /\ p.engine # Acevault
                                    /\ ctx = NoContext => p.engine \in SkipShock
                                    /\ ctx # NoContext /\ ctx.shock => p.engine \in SkipShock
<1>1. /\ stage = "trackA" /\ Cardinality(book) < MaxOpen
      /\ stage' = stage /\ ctx' = ctx /\ data' = data /\ safety' = safety /\ batch' = batch
  BY DEF Execute
<1>2. PICK s \in Signals : s.engine # Acevault /\ Validates(s) /\ Registered(s, SizeOf(s), ctx # NoContext)
  BY DEF Execute
<1>3. MarketTypes /\ BookOK(book) /\ VettedInv
  BY DEF MarketInv, MarketTypes
<1>4. /\ SizeOf(s) \in Nat
      /\ ctx = NoContext => s.engine \in SkipShock
      /\ ctx # NoContext => ~ShockVeto(s) /\ ~ExceedsBetaCap(s, SizeOf(s))
  BY <1>2, <1>3, Validated
<1>5. ctx # NoContext =>
        Beta(book, s.side) + SizeOf(s) * Weight(s.coin, s.engine) <= BetaCap[s.side]
  BY <1>3, <1>4, CapAsked
<1>6. /\ BookOK(book') /\ VettedInv'
      /\ \A p \in book' \ book : p.engine = s.engine
  BY <1>1, <1>2, <1>3, <1>4, <1>5, Registration
<1>7. batch = <<>>
  BY <1>1 DEF MarketInv, BatchInv
<1>8. MarketInv'
  BY <1>1, <1>3, <1>6, <1>7 DEF MarketInv, MarketTypes, BatchInv, DarkInv
<1>9. ctx # NoContext /\ ctx.shock => s.engine \in SkipShock
  <2>1. s.weak => s.engine = Acevault
    BY DEF Signals
  <2> QED BY <1>2, <1>4, <2>1 DEF ShockVeto
<1> QED BY <1>2, <1>4, <1>6, <1>8, <1>9

\* A position goes.
LEMMA CloseKeeps ==
  ASSUME MarketInv, Close
  PROVE  MarketInv' /\ book' \subseteq book
<1>1. /\ stage # "scan"
      /\ stage' = stage /\ ctx' = ctx /\ data' = data /\ safety' = safety /\ batch' = batch
  BY DEF Close
<1>2. PICK q \in book : book' = book \ {q} /\ unvetted' = unvetted \ {q.id}
  BY DEF Close
<1>3. /\ BookOK(book') /\ VettedInv'
      /\ \A side \in Sides : /\ Beta(book', side) <= Beta(book, side)
                             /\ Beta(book', side) \in Nat /\ Beta(book, side) \in Nat
  BY <1>2, Closing DEF MarketInv, MarketTypes
<1>4. ASSUME NEW i \in 1..Len(batch), Approved(batch[i], ctx, book) PROVE Approved(batch[i], ctx, book')
  <2> DEFINE b == batch[i]
  <2>1. b.signal \in Signals /\ b.size \in Nat
    <3> DEFINE E == [signal : Signals, size : Nat, alone : BOOLEAN]
    <3>1. batch \in Seq(E)
      BY DEF MarketInv, MarketTypes
    <3> HIDE DEF E
    <3>2. batch[i] \in E
      BY <3>1, <1>4
    <3> QED BY <3>2 DEF E
  <2> HIDE DEF b
  <2>2. b.signal.side \in Sides /\ b.size * Weight(b.signal.coin, Acevault) \in Nat
    <3>1. Weight(b.signal.coin, Acevault) \in Nat
      BY WeightType
    <3> QED BY <2>1, <3>1 DEF Signals
  <2> DEFINE n == b.size * Weight(b.signal.coin, Acevault)
             k == BetaCap[b.signal.side]
  <2>3. n \in Nat /\ k \in Nat
    BY <2>2, MarketConstants
  <2> HIDE DEF n, k
  <2>4. Beta(book, b.signal.side) + n <= k => Beta(book', b.signal.side) + n <= k
    BY <1>3, <2>2, <2>3
  <2>5. Approved(b, ctx, book)
    BY <1>4 DEF b
  <2>6. Approved(b, ctx, book')
    BY <2>4, <2>5 DEF Approved, n, k
  <2> QED BY <2>6 DEF b
<1>5. BatchInv'
  BY <1>1, <1>4 DEF MarketInv, BatchInv
<1>6. MarketTypes' /\ DarkInv'
  BY <1>1, <1>3 DEF MarketInv, MarketTypes, DarkInv
<1> QED BY <1>2, <1>3, <1>5, <1>6 DEF MarketInv

\* A restart marks all that it recovers.
LEMMA RestartKeeps ==
  ASSUME MarketInv, Restart
  PROVE  MarketInv' /\ \A p \in book' : p.engine = Recovered
<1>1. /\ stage' = "wait" /\ batch' = <<>> /\ ctx' = NoContext /\ data' = "failed" /\ safety' = 100
  BY DEF Restart
<1>2. PICK kept \in {Netted, {}} : book' = kept /\ unvetted' = {p.id : p \in kept}
  BY DEF Restart
<1>3. BookOK(book)
  BY DEF MarketInv, MarketTypes
<1>4. BookOK(book') /\ \A p \in book' : p.engine = Recovered
  <2>1. BookOK({})
    BY FS_EmptySet DEF BookOK
  <2> QED BY <1>2, <1>3, <2>1, NettedOK
<1>5. VettedInv'
  <2>1. Vetted' = {}
    BY <1>2 DEF Vetted
  <2> QED BY <2>1, BetaOfNone, MarketConstants DEF VettedInv
<1>6. MarketTypes' /\ BatchInv' /\ DarkInv'
  BY <1>1, <1>4 DEF MarketTypes, BatchInv, DarkInv
<1> QED BY <1>4, <1>5, <1>6 DEF MarketInv

\* The steps between, which touch neither context nor book.
LEMMA PassingKeeps ==
  ASSUME MarketInv, UNCHANGED <<ctx, data, safety, book, unvetted>>,
         \/ AceScanned \/ AceDrop \/ AceEnd \/ TickEnd \/ UNCHANGED <<stage, batch>>
  PROVE  MarketInv'
<1>1. /\ stage' \in {"wait", "scan", "ace", "trackA"}
      /\ \/ batch' = batch /\ (stage' \in {"wait", "trackA"} => batch = <<>>)
         \/ batch # <<>> /\ batch' = Tail(batch) /\ stage' = "ace"
  BY DEF MarketInv, MarketTypes, BatchInv, AceScanned, AceDrop, AceEnd, TickEnd
<1>2. DarkInv' /\ VettedInv'
  <2>1. Vetted' = Vetted
    BY DEF Vetted
  <2> QED BY <2>1 DEF MarketInv, DarkInv, VettedInv
<1>3. CASE batch' = batch /\ (stage' \in {"wait", "trackA"} => batch = <<>>)
  BY <1>1, <1>2, <1>3 DEF MarketInv, MarketTypes, BatchInv
<1>4. CASE batch # <<>> /\ batch' = Tail(batch) /\ stage' = "ace"
  <2>1. /\ batch' \in Seq([signal : Signals, size : Nat, alone : BOOLEAN])
        /\ \A i \in 1..Len(batch') : ~batch'[i].alone /\ Approved(batch'[i], ctx, book)
    BY <1>4, RestOfBatch
  <2> QED BY <1>2, <1>4, <2>1 DEF MarketInv, MarketTypes, BatchInv
<1> QED BY <1>1, <1>3, <1>4

\* Every step keeps the invariant.
LEMMA NextMarketInv ==
  ASSUME MarketInv, [MarketNext]_marketVars
  PROVE  MarketInv'
<1>1. CASE AceScanned \/ AceDrop \/ AceEnd \/ TickEnd \/ UNCHANGED marketVars
  <2>1. UNCHANGED <<ctx, data, safety, book, unvetted>>
    BY <1>1 DEF AceScanned, AceDrop, AceEnd, TickEnd, marketVars
  <2>2. AceScanned \/ AceDrop \/ AceEnd \/ TickEnd \/ UNCHANGED <<stage, batch>>
    BY <1>1 DEF marketVars
  <2> QED BY <2>1, <2>2, PassingKeeps
<1> QED BY <1>1, TickBeginKeeps, AceAdmitKeeps, AceRegisterKeeps, ExecuteKeeps, CloseKeeps, RestartKeeps
        DEF MarketNext

\* It holds at all times.
LEMMA MarketHolds == MarketSpec => []MarketInv
BY InitMarketInv, NextMarketInv, PTL DEF MarketSpec

\* The cap on BTC-weighted exposure is passed only by what entered without it
\* being asked: whatever is validated one after the other, resized, closed,
\* netted and weighed anew, the vetted positions of a side keep to it
\* (portfolio_state.py: would_exceed_btc_beta_cap).
THEOREM VettedExposureIsCapped == MarketSpec => []BetaHeld
<1>1. MarketInv => BetaHeld
  <2> SUFFICES ASSUME MarketInv, NEW side \in Sides
               PROVE  Beta(book, side) <= BetaCap[side] + Beta({p \in book : p.id \in unvetted}, side)
    BY DEF BetaHeld
  <2> DEFINE T == {p \in book : p.id \in unvetted}
  <2>1. IsFiniteSet(book) /\ book \subseteq HeldPositions /\ T \in SUBSET book /\ book \ T = Vetted
    BY DEF MarketInv, MarketTypes, BookOK, Vetted
  <2>2. OnSide(T, side) \subseteq OnSide(book, side) /\ OnSide(Vetted, side) \subseteq OnSide(book, side)
    BY DEF OnSide, Vetted
  <2> HIDE DEF T
  <2>3. Beta(book, side) = Beta(T, side) + Beta(Vetted, side)
    BY <2>1, BetaOfTwo
  <2>4. Beta(T, side) \in Nat /\ Beta(Vetted, side) \in Nat
    BY <2>1, <2>2, BetaOfPart
  <2>5. Beta(Vetted, side) <= BetaCap[side] /\ BetaCap[side] \in Nat
    BY MarketConstants DEF MarketInv, VettedInv
  <2>6. Beta(book, side) <= BetaCap[side] + Beta(T, side)
    BY <2>3, <2>4, <2>5
  <2> QED BY <2>6 DEF T
<1> QED BY <1>1, MarketHolds, PTL

\* A tick that could not read the market opens only what is exempt: the context
\* of an earlier tick, which AceVault's batch or a Track A order might have been
\* approved under, never decides (strategy_orchestrator.py: run_tick clears it).
THEOREM DarkTicksOpenTheExempt == MarketSpec => DarkEntriesAreExempt
<1>1. ASSUME MarketInv, [MarketNext]_marketVars
      PROVE  [\A p \in book' \ book :
                data # "read" /\ p.engine # Recovered => OpensInTheDark(p)]_marketVars
  <2> SUFFICES ASSUME MarketNext, NEW p \in book' \ book, data # "read", p.engine # Recovered
               PROVE  OpensInTheDark(p)
    BY <1>1
  <2>1. \/ ctx = NoContext
        \/ data = "short" /\ ctx # NoContext /\ ctx.shock
    <3>1. Fallback # NoContext /\ Fallback.shock
      <4>1. Fallback.regime = "range" /\ NoContext.regime = "none" /\ Fallback.shock
        BY DEF Fallback, NoContext
      <4> QED BY <4>1
    <3> QED BY <1>1, <3>1 DEF MarketInv, MarketTypes, DarkInv
  <2>2. CASE AceRegister
    <3>1. p.engine = Acevault
      BY <1>1, <2>2, AceRegisterKeeps
    <3>2. Approved(Head(batch), ctx, book)
      <4>1. batch # <<>> /\ batch' = Tail(batch)
        BY <2>2 DEF AceRegister
      <4> QED BY <1>1, <4>1, RestOfBatch
    <3> QED BY <2>1, <3>1, <3>2 DEF Approved, OpensInTheDark
  <2>3. CASE Execute
    <3>1. \A q \in book' \ book : /\ ctx = NoContext => q.engine \in SkipShock
                                  /\ ctx # NoContext /\ ctx.shock => q.engine \in SkipShock
      BY <1>1, <2>3, ExecuteKeeps
    <3>2. CASE ctx = NoContext
      BY <3>1, <3>2 DEF OpensInTheDark
    <3>3. CASE ctx # NoContext /\ ctx.shock
      BY <3>1, <3>3 DEF OpensInTheDark
    <3> QED BY <2>1, <3>2, <3>3
  <2>4. CASE TickBegin \/ AceAdmit \/ AceScanned \/ AceDrop \/ AceEnd \/ TickEnd
    BY <2>4 DEF TickBegin, AceAdmit, AceScanned, AceDrop, AceEnd, TickEnd
  <2>5. CASE Close
    BY <1>1, <2>5, CloseKeeps
  <2>6. CASE Restart
    BY <1>1, <2>6, RestartKeeps
  <2> QED BY <2>2, <2>3, <2>4, <2>5, <2>6 DEF MarketNext
<1> QED BY <1>1, MarketHolds, PTL DEF MarketSpec, DarkEntriesAreExempt
=============================================================================
