-------------------------- MODULE BtcLanes_proofs --------------------------
(***************************************************************************)
(* Theorems about the kill switch, for every set of engines, cooldown,     *)
(* threshold and set of losses; that the BTC lanes strategy only uses it   *)
(* the way the kill switch's own specification allows; and that its        *)
(* regime detector debounces, for every market and every length of the     *)
(* hysteresis.                                                             *)
(***************************************************************************)
EXTENDS BtcLanes, Sums

(* The kill switch.                                                        *)

\* The smaller of two naturals is a natural no larger than either.
LEMMA Min2Range ==
  ASSUME NEW x \in Nat, NEW y \in Nat
  PROVE  Min2(x, y) \in Nat /\ Min2(x, y) <= x /\ Min2(x, y) <= y
BY DEF Min2

\* A window stays a window when the clock moves and when a loss is added.
LEMMA WindowOps ==
  ASSUME NEW w \in [Ages -> Nat], NEW loss \in Nat
  PROVE  Shifted(w) \in [Ages -> Nat] /\ WithLoss(w, loss) \in [Ages -> Nat]
<1> USE KillSwitchConstants
<1>1. Shifted(w) \in [Ages -> Nat]
  BY DEF Shifted, Ages
<1>2. 0 \in Ages
  BY DEF Ages
<1>3. Min2(w[0] + loss, Threshold) \in Nat
  BY <1>2, Min2Range
<1>4. WithLoss(w, loss) \in [Ages -> Nat]
  BY <1>2, <1>3 DEF WithLoss
<1> QED BY <1>1, <1>4

\* The switch starts untripped with empty windows.
LEMMA InitTypeOK == Init => TypeOK
BY KillSwitchConstants DEF Init, TypeOK, EmptyWindow, Ages, Untripped

\* A reset, by hand or by the cooldown, keeps the types.
LEMMA ResetKeepsTypeOK ==
  ASSUME TypeOK, NEW e \in Engines, IsActiveResets(e) \/ ManualReset(e)
  PROVE  TypeOK'
<1>1. EmptyWindow \in [Ages -> Nat]
  BY DEF EmptyWindow
<1>2. window' \in [Engines -> [Ages -> Nat]] /\ tripAge' \in [Engines -> Ages \cup {Untripped}]
  BY <1>1 DEF TypeOK, IsActiveResets, ManualReset, Reset
<1>3. lost' \in [Engines -> [Ages -> Nat]]
  BY <1>1 DEF TypeOK, IsActiveResets, ManualReset
<1> QED BY <1>2, <1>3 DEF TypeOK

\* Every step keeps the types: ages stay within the cooldown, losses naturals.
LEMMA NextTypeOK ==
  ASSUME TypeOK, [Next]_vars
  PROVE  TypeOK'
<1> USE KillSwitchConstants
<1>1. CASE Tick
  <2>1. window' \in [Engines -> [Ages -> Nat]] /\ lost' \in [Engines -> [Ages -> Nat]]
    <3>1. \A e \in Engines :
            Shifted(window[e]) \in [Ages -> Nat] /\ Shifted(lost[e]) \in [Ages -> Nat]
      <4>1. 0 \in Nat
        OBVIOUS
      <4> QED BY <4>1, WindowOps DEF TypeOK
    <3> QED BY <1>1, <3>1 DEF Tick
  <2>2. \A e \in Engines : tripAge[e] # Untripped => Min2(tripAge[e] + 1, Cooldown) \in Ages
    BY DEF TypeOK, Ages, Min2
  <2>3. tripAge' \in [Engines -> Ages \cup {Untripped}]
    BY <1>1, <2>2 DEF Tick
  <2> QED BY <2>1, <2>3 DEF TypeOK
<1>2. ASSUME NEW e \in Engines, NEW loss \in Losses, RecordLoss(e, loss)
      PROVE  TypeOK'
  <2>1. WithLoss(window[e], loss) \in [Ages -> Nat] /\ WithLoss(lost[e], loss) \in [Ages -> Nat]
    BY WindowOps DEF TypeOK
  <2>2. window' \in [Engines -> [Ages -> Nat]] /\ lost' \in [Engines -> [Ages -> Nat]]
    BY <1>2, <2>1 DEF RecordLoss, Books, TypeOK
  <2>3. tripAge' \in [Engines -> Ages \cup {Untripped}]
    <3>1. 0 \in Ages
      BY DEF Ages
    <3> QED BY <1>2, <3>1 DEF RecordLoss, TypeOK
  <2> QED BY <2>2, <2>3 DEF TypeOK
<1>3. CASE \E e \in Engines : IsActiveResets(e)
  BY <1>3, ResetKeepsTypeOK
<1>4. CASE \E e \in Engines : ManualReset(e)
  BY <1>4, ResetKeepsTypeOK
<1>5. CASE UNCHANGED vars
  BY <1>5 DEF vars, TypeOK
<1> QED BY <1>1, <1>2, <1>3, <1>4, <1>5 DEF Next

\* Type correctness: no age of a trip passes the cooldown, no loss is negative.
THEOREM TypeCorrect == Spec => []TypeOK
BY InitTypeOK, NextTypeOK, PTL DEF Spec

\* What one step may do to the trip of an engine.
TripKept(e) ==
  tripAge[e] # Untripped =>
    \/ tripAge'[e] >= tripAge[e]
    \/ tripAge[e] = Cooldown /\ tripAge'[e] = Untripped
    \/ ManualResets /\ tripAge'[e] = Untripped

\* A trip lasts its cooldown unless somebody lifts it by hand, and no later loss
\* starts it again, for every set of engines and every sequence of losses.
THEOREM TripsLast == Spec => TripLastsCooldown
<1>1. ASSUME TypeOK, [Next]_vars, NEW e \in Engines
      PROVE  TripKept(e)
  <2> USE KillSwitchConstants
  <2>0. tripAge[e] \in Ages \cup {Untripped} /\ Untripped \notin Ages
    BY <1>1 DEF TypeOK, Ages, Untripped
  <2>1. CASE Tick
    <3>1. tripAge[e] # Untripped => tripAge'[e] = Min2(tripAge[e] + 1, Cooldown)
      BY <2>1 DEF Tick
    <3> QED BY <2>0, <3>1 DEF TripKept, Min2, Ages
  <2>2. ASSUME NEW f \in Engines, NEW loss \in Losses, RecordLoss(f, loss)
        PROVE  TripKept(e)
    <3>1. tripAge[e] # Untripped => tripAge'[e] = tripAge[e]
      BY <1>1, <2>2 DEF RecordLoss, TypeOK
    <3> QED BY <2>0, <3>1 DEF TripKept, Ages
  <2>3. ASSUME NEW f \in Engines, IsActiveResets(f)
        PROVE  TripKept(e)
    <3>1. CASE e = f
      BY <1>1, <2>0, <2>3, <3>1 DEF IsActiveResets, CooldownOver, Reset, TripKept, TypeOK, Ages
    <3>2. CASE e # f
      BY <1>1, <2>0, <2>3, <3>2 DEF IsActiveResets, Reset, TripKept, TypeOK, Ages
    <3> QED BY <3>1, <3>2
  <2>4. ASSUME NEW f \in Engines, ManualReset(f)
        PROVE  TripKept(e)
    <3>1. CASE e = f
      BY <1>1, <2>4, <3>1 DEF ManualReset, Reset, TripKept, TypeOK
    <3>2. CASE e # f
      BY <1>1, <2>0, <2>4, <3>2 DEF ManualReset, Reset, TripKept, TypeOK, Ages
    <3> QED BY <3>1, <3>2
  <2>5. CASE UNCHANGED vars
    BY <2>0, <2>5 DEF vars, TripKept, Ages
  <2> QED BY <1>1, <2>1, <2>2, <2>3, <2>4, <2>5 DEF Next
<1>2. ASSUME TypeOK, [Next]_vars
      PROVE  [\A e \in Engines : tripAge[e] # Untripped =>
                \/ tripAge'[e] >= tripAge[e]
                \/ tripAge[e] = Cooldown /\ tripAge'[e] = Untripped
                \/ ManualResets /\ tripAge'[e] = Untripped]_vars
  BY <1>1, <1>2 DEF TripKept
<1> QED BY <1>2, TypeCorrect, PTL DEF Spec, TripLastsCooldown

-----------------------------------------------------------------------------
\* What record_loss compares with the threshold is a sum over the ages.
LEMMA CumulativeIsTotal ==
  ASSUME NEW w
  PROVE  Cumulative(w) = Total(w, Ages)
BY DEF Cumulative, Total

\* The ages are finitely many.
LEMMA FiniteAges == IsFiniteSet(Ages) /\ 0 \in Ages /\ Cooldown \in Ages
BY KillSwitchConstants, FS_Interval DEF Ages

\* An empty window sums to nothing.
LEMMA EmptySum == Cumulative(EmptyWindow) = 0
BY FiniteAges, SumOfZeros, CumulativeIsTotal DEF EmptyWindow

\* Up to each age, the shifted window sums to what the window did one step of the
\* clock ago without its last age.
LEMMA ShiftedSums ==
  ASSUME NEW w \in [Ages -> Nat]
  PROVE  \A n \in Ages : Total(Shifted(w), 0..n) + w[n] = Total(w, 0..n)
<1> DEFINE P(n) == Total(Shifted(w), 0..n) + w[n] = Total(w, 0..n)
           T == {n \in Ages : ~P(n)}
<1>1. SUFFICES ASSUME T # {} PROVE FALSE
  OBVIOUS
<1>2. PICK n \in T : \A k \in T : n <= k
  <2>1. T \in SUBSET Nat
    BY KillSwitchConstants DEF Ages
  <2> HIDE DEF T
  <2> QED BY <1>1, <2>1, LeastNat
<1>3. n \in Nat /\ n \in Ages /\ n <= Cooldown /\ ~P(n) /\ w[n] \in Nat
  BY <1>2, KillSwitchConstants DEF Ages
<1>4. \A i \in 0..n : i \in Ages /\ w[i] \in Int /\ Shifted(w)[i] \in Int
  <2>1. Shifted(w) \in [Ages -> Nat]
    BY WindowOps
  <2>2. 0..n \subseteq Ages
    BY <1>3, KillSwitchConstants DEF Ages
  <2> QED BY <2>1, <2>2
<1>5. CASE n = 0
  <2>1. Shifted(w)[0] = 0
    BY <1>3, <1>5 DEF Shifted
  <2>2. /\ Total(w, 0..n) = Total(w, 0..(n - 1)) + w[n]
        /\ Total(Shifted(w), 0..n) = Total(Shifted(w), 0..(n - 1)) + Shifted(w)[n]
    BY <1>3, <1>4, SumToNext
  <2>3. 0..(n - 1) = {}
    BY <1>5
  <2>4. Total(w, {}) = 0 /\ Total(Shifted(w), {}) = 0
    BY SumOfNone
  <2> QED BY <1>3, <1>5, <2>1, <2>2, <2>3, <2>4
<1>6. CASE n # 0
  <2>1. n - 1 \in Ages /\ n - 1 \in Nat /\ ~(n <= n - 1)
    BY <1>3, <1>6, KillSwitchConstants DEF Ages
  <2>2. P(n - 1)
    BY <1>2, <2>1
  <2>3. Shifted(w)[n] = w[n - 1]
    BY <1>3, <1>6 DEF Shifted
  <2>4. /\ Total(w, 0..n) = Total(w, 0..(n - 1)) + w[n]
        /\ Total(Shifted(w), 0..n) = Total(Shifted(w), 0..(n - 1)) + Shifted(w)[n]
    BY <1>3, <1>4, SumToNext
  <2>5. Total(w, 0..(n - 1)) \in Int /\ Total(Shifted(w), 0..(n - 1)) \in Int
    <3>1. IsFiniteSet(0..n) /\ 0..(n - 1) \in SUBSET (0..n)
      BY <1>3, FS_Interval
    <3> QED BY <1>4, <3>1, SumType
  <2>6. w[n - 1] \in Nat
    BY <2>1
  <2> QED BY <1>3, <2>2, <2>3, <2>4, <2>5, <2>6
<1> QED BY <1>5, <1>6

\* The clock never makes what is in the window more.
LEMMA ShiftedSumsToLess ==
  ASSUME NEW w \in [Ages -> Nat]
  PROVE  /\ Cumulative(Shifted(w)) \in Nat /\ Cumulative(w) \in Nat
         /\ Cumulative(Shifted(w)) <= Cumulative(w)
<1>1. Shifted(w) \in [Ages -> Nat]
  BY WindowOps
<1>2. Cumulative(Shifted(w)) \in Nat /\ Cumulative(w) \in Nat
  BY <1>1, FiniteAges, SumOfNats, CumulativeIsTotal
<1>3. Cumulative(Shifted(w)) + w[Cooldown] = Cumulative(w)
  BY FiniteAges, ShiftedSums, CumulativeIsTotal DEF Ages
<1>4. w[Cooldown] \in Nat
  BY FiniteAges
<1> QED BY <1>2, <1>3, <1>4

\* The recent losses are those of all ages but the last.
LEMMA RecentAges ==
  /\ IsFiniteSet(0..(Cooldown - 1)) /\ 0..(Cooldown - 1) \in SUBSET Ages
  /\ \A a \in Ages : a \in 0..(Cooldown - 1) <=> a # Cooldown
BY KillSwitchConstants, FS_Interval DEF Ages

\* The invariant behind the limit.  While an engine may trade, its window holds at
\* least its recent losses, and is below the limit.  While it is tripped, nothing
\* was lost, as far as the history goes, since the trip.
SwitchInv ==
  \A e \in Engines :
    /\ tripAge[e] = Untripped =>
         /\ Cumulative(window[e]) < Threshold
         /\ \A a \in 0..(Cooldown - 1) : lost[e][a] <= window[e][a]
    /\ tripAge[e] # Untripped => \A a \in 0..(Cooldown - 1) : a < tripAge[e] => lost[e][a] = 0

\* At first nothing is lost.
LEMMA InitSwitchInv == Init => SwitchInv
BY EmptySum, RecentAges, KillSwitchConstants DEF Init, SwitchInv, EmptyWindow, Ages

\* The clock moves the losses of window and history alike.
LEMMA TickKeepsSwitchInv ==
  ASSUME TypeOK, SwitchInv, Tick
  PROVE  SwitchInv'
<1> SUFFICES ASSUME NEW e \in Engines
             PROVE  /\ tripAge'[e] = Untripped =>
                         /\ Cumulative(window'[e]) < Threshold
                         /\ \A a \in 0..(Cooldown - 1) : lost'[e][a] <= window'[e][a]
                    /\ tripAge'[e] # Untripped =>
                         \A a \in 0..(Cooldown - 1) : a < tripAge'[e] => lost'[e][a] = 0
  BY DEF SwitchInv
<1>1. /\ window[e] \in [Ages -> Nat] /\ lost[e] \in [Ages -> Nat]
      /\ window'[e] = Shifted(window[e]) /\ lost'[e] = Shifted(lost[e])
      /\ tripAge[e] \in Ages \cup {Untripped}
      /\ tripAge'[e] = IF tripAge[e] = Untripped THEN Untripped ELSE Min2(tripAge[e] + 1, Cooldown)
  BY DEF Tick, TypeOK
<1>2. \A a \in 0..(Cooldown - 1) :
        /\ a \in Ages
        /\ a = 0 => window'[e][a] = 0 /\ lost'[e][a] = 0
        /\ a # 0 => /\ a - 1 \in 0..(Cooldown - 1)
                    /\ window'[e][a] = window[e][a - 1] /\ lost'[e][a] = lost[e][a - 1]
  BY <1>1, KillSwitchConstants DEF Shifted, Ages
<1>3. CASE tripAge[e] = Untripped
  <2>1. Cumulative(window[e]) < Threshold /\ \A a \in 0..(Cooldown - 1) : lost[e][a] <= window[e][a]
    BY <1>3 DEF SwitchInv
  <2>2. Cumulative(window'[e]) < Threshold
    BY <1>1, <2>1, ShiftedSumsToLess, KillSwitchConstants
  <2> QED BY <1>1, <1>2, <1>3, <2>1, <2>2
<1>4. CASE tripAge[e] # Untripped
  <2>1. \A a \in 0..(Cooldown - 1) : a < tripAge[e] => lost[e][a] = 0
    BY <1>4 DEF SwitchInv
  <2>2. tripAge[e] \in Ages /\ tripAge'[e] = Min2(tripAge[e] + 1, Cooldown)
    BY <1>1, <1>4
  <2>3. tripAge'[e] # Untripped /\ tripAge'[e] <= tripAge[e] + 1 /\ tripAge'[e] \in Int
    BY <2>2, KillSwitchConstants DEF Ages, Min2, Untripped
  <2>4. ASSUME NEW a \in 0..(Cooldown - 1), a < tripAge'[e], a # 0 PROVE lost'[e][a] = 0
    <3>1. a - 1 \in 0..(Cooldown - 1) /\ lost'[e][a] = lost[e][a - 1]
      BY <1>2, <2>4
    <3>2. a - 1 < tripAge[e]
      BY <2>2, <2>3, <2>4, KillSwitchConstants DEF Ages
    <3> QED BY <2>1, <3>1, <3>2
  <2> QED BY <1>2, <2>3, <2>4
<1> QED BY <1>3, <1>4

\* A loss goes to the window and the history of an engine that may trade alike,
\* and trips it when it reaches the limit.
LEMMA LossKeepsSwitchInv ==
  ASSUME TypeOK, SwitchInv, NEW e \in Engines, NEW loss \in Losses, RecordLoss(e, loss)
  PROVE  SwitchInv'
<1> SUFFICES ASSUME NEW f \in Engines
             PROVE  /\ tripAge'[f] = Untripped =>
                         /\ Cumulative(window'[f]) < Threshold
                         /\ \A a \in 0..(Cooldown - 1) : lost'[f][a] <= window'[f][a]
                    /\ tripAge'[f] # Untripped =>
                         \A a \in 0..(Cooldown - 1) : a < tripAge'[f] => lost'[f][a] = 0
  BY DEF SwitchInv
<1>1. CASE f # e
  BY <1>1 DEF RecordLoss, Books, TypeOK, SwitchInv
<1>2. CASE f = e /\ tripAge[e] # Untripped
  <2>1. tripAge'[e] = tripAge[e] /\ lost'[e] = lost[e]
    BY <1>2 DEF RecordLoss, Books, TypeOK
  <2> QED BY <1>2, <2>1 DEF SwitchInv
<1>3. CASE f = e /\ tripAge[e] = Untripped
  <2> DEFINE w == WithLoss(window[e], loss)
             l == WithLoss(lost[e], loss)
  <2>1. /\ window'[e] = w /\ lost'[e] = l
        /\ tripAge'[e] = IF Cumulative(w) >= Threshold THEN 0 ELSE Untripped
    BY <1>3 DEF RecordLoss, Books, TypeOK
  <2>2. w \in [Ages -> Nat] /\ l \in [Ages -> Nat] /\ window[e] \in [Ages -> Nat]
        /\ lost[e] \in [Ages -> Nat]
    BY WindowOps, KillSwitchConstants DEF TypeOK
  <2>3. \A a \in 0..(Cooldown - 1) : l[a] <= w[a]
    <3>1. \A a \in 0..(Cooldown - 1) : a \in Ages /\ lost[e][a] <= window[e][a]
      BY <1>3, RecentAges DEF SwitchInv
    <3>2. 0 \in 0..(Cooldown - 1) /\ loss \in Nat /\ Threshold \in Nat
      BY KillSwitchConstants
    <3>3. Min2(lost[e][0] + loss, Threshold) <= Min2(window[e][0] + loss, Threshold)
      BY <2>2, <3>1, <3>2 DEF Min2
    <3> QED BY <2>2, <3>1, <3>3 DEF WithLoss
  <2> HIDE DEF w, l
  <2>4. Cumulative(w) \in Nat
    BY <2>2, ShiftedSumsToLess
  <2>5. CASE Cumulative(w) >= Threshold
    BY <1>3, <2>1, <2>5 DEF Untripped
  <2>6. CASE ~(Cumulative(w) >= Threshold)
    BY <1>3, <2>1, <2>3, <2>4, <2>6, KillSwitchConstants
  <2> QED BY <2>5, <2>6
<1> QED BY <1>1, <1>2, <1>3

\* The end of a cooldown forgets nothing recent; a reset by hand forgets all.
LEMMA ResetKeepsSwitchInv ==
  ASSUME TypeOK, SwitchInv, NEW e \in Engines, IsActiveResets(e) \/ ManualReset(e)
  PROVE  SwitchInv'
<1> SUFFICES ASSUME NEW f \in Engines
             PROVE  /\ tripAge'[f] = Untripped =>
                         /\ Cumulative(window'[f]) < Threshold
                         /\ \A a \in 0..(Cooldown - 1) : lost'[f][a] <= window'[f][a]
                    /\ tripAge'[f] # Untripped =>
                         \A a \in 0..(Cooldown - 1) : a < tripAge'[f] => lost'[f][a] = 0
  BY DEF SwitchInv
<1>1. CASE f # e
  BY <1>1 DEF IsActiveResets, ManualReset, Reset, TypeOK, SwitchInv
<1>2. CASE f = e
  <2>1. window'[e] = EmptyWindow /\ tripAge'[e] = Untripped
    BY DEF IsActiveResets, ManualReset, Reset, TypeOK
  <2>2. \A a \in 0..(Cooldown - 1) : lost'[e][a] = 0
    <3>1. CASE IsActiveResets(e)
      <4>1. tripAge[e] # Untripped /\ tripAge[e] = Cooldown /\ lost' = lost
        BY <3>1, KillSwitchConstants DEF IsActiveResets, CooldownOver, TypeOK, Ages
      <4> QED BY <4>1, KillSwitchConstants DEF SwitchInv
    <3>2. CASE ManualReset(e)
      BY <3>2, RecentAges DEF ManualReset, TypeOK, EmptyWindow
    <3> QED BY <3>1, <3>2
  <2>3. \A a \in 0..(Cooldown - 1) : window'[e][a] = 0
    BY <2>1, RecentAges DEF EmptyWindow
  <2> QED BY <1>2, <2>1, <2>2, <2>3, EmptySum, KillSwitchConstants
<1> QED BY <1>1, <1>2

\* The invariant says that the recent losses of an engine that may trade, summed,
\* are below its limit.
LEMMA SwitchInvLimits ==
  ASSUME TypeOK, SwitchInv
  PROVE  TradingBelowThreshold
<1> SUFFICES ASSUME NEW e \in Engines, tripAge[e] = Untripped
             PROVE  LostLately(e) < Threshold
  BY DEF TradingBelowThreshold
<1> DEFINE R == 0..(Cooldown - 1)
<1>1. lost[e] \in [Ages -> Nat] /\ window[e] \in [Ages -> Nat]
  BY DEF TypeOK
<1>2. /\ Cumulative(window[e]) < Threshold
      /\ \A a \in R : lost[e][a] <= window[e][a]
  BY DEF SwitchInv
<1>3. IsFiniteSet(R) /\ R \in SUBSET Ages /\ \A a \in R : lost[e][a] \in Nat /\ window[e][a] \in Nat
  BY <1>1, RecentAges
<1>4. LostLately(e) = Total(lost[e], R)
  BY DEF LostLately, Total
<1> HIDE DEF R
<1>5. Total(lost[e], R) <= Total(window[e], R)
  BY <1>2, <1>3, SumAtMost
<1>6. Total(window[e], R) <= Total(window[e], Ages)
  BY <1>1, <1>3, FiniteAges, SumOfPart
<1>7. Total(lost[e], R) \in Nat /\ Total(window[e], R) \in Nat
  BY <1>3, SumOfNats
<1>8. Total(window[e], Ages) \in Nat /\ Total(window[e], Ages) < Threshold
  BY <1>1, <1>2, CumulativeIsTotal, FiniteAges, SumOfNats
<1> QED BY <1>4, <1>5, <1>6, <1>7, <1>8, KillSwitchConstants

\* An engine is free to trade only while what it lost less than a window ago,
\* since it was last reset by hand, is below its limit, for every cooldown, limit
\* and sequence of losses, trips and resets.
THEOREM LimitHolds == Spec => []TradingBelowThreshold
<1>1. TypeOK /\ SwitchInv /\ [Next]_vars => SwitchInv'
  <2>1. UNCHANGED vars /\ SwitchInv => SwitchInv'
    BY DEF vars, SwitchInv
  <2> QED BY <2>1, TickKeepsSwitchInv, LossKeepsSwitchInv, ResetKeepsSwitchInv DEF Next
<1> QED BY <1>1, InitSwitchInv, SwitchInvLimits, TypeCorrect, PTL DEF Spec

-----------------------------------------------------------------------------
(* The strategy behind it.                                                 *)

\* A cycle asks the kill switch first, which is at most the reset it performs.
LEMMA AsksIsAStep == AsksKillSwitch => [Next]_vars
BY BtcLanesConstants DEF AsksKillSwitch, IsActiveResets, Next, vars

\* Every step of the strategy and its process is one that the kill switch's own
\* specification allows, or leaves it alone.
LEMMA LanesStepIsSwitchStep == [LanesNext]_lanesVars => [Next]_vars
<1> SUFFICES ASSUME [LanesNext]_lanesVars PROVE [Next]_vars
  OBVIOUS
<1>1. CASE CycleWithoutData
  BY <1>1, AsksIsAStep DEF CycleWithoutData
<1>2. ASSUME NEW r \in Readings, NEW g \in BOOLEAN, CycleDeclines(r, g) \/ CycleProposes(r, g)
      PROVE  [Next]_vars
  BY <1>2, AsksIsAStep DEF CycleDeclines, CycleProposes, Detects
<1>3. CASE Execute \/ TurnDown
  BY <1>3 DEF Execute, TurnDown, vars
<1>4. CASE Clock
  BY <1>4 DEF Clock, Next
<1>5. ASSUME NEW l \in Lanes, Close(l) PROVE [Next]_vars
  BY <1>5 DEF Close, vars
<1>6. ASSUME NEW e \in Engines, NEW loss \in Losses, SwitchUsed(RecordLoss(e, loss))
      PROVE  [Next]_vars
  BY <1>6 DEF SwitchUsed, Next
<1>7. ASSUME NEW e \in Engines, SwitchUsed(ManualReset(e)) PROVE [Next]_vars
  BY <1>7 DEF SwitchUsed, Next
<1>8. CASE UNCHANGED lanesVars
  BY <1>8 DEF lanesVars, vars
<1> QED BY <1>1, <1>2, <1>3, <1>4, <1>5, <1>6, <1>7, <1>8 DEF LanesNext

\* The strategy implements the kill switch's specification: whatever it does,
\* its cycles, closes and losses are steps of the switch.
THEOREM LanesUseTheSwitch == LanesSpec => Spec
<1>1. LanesInit => Init
  BY DEF LanesInit
<1> QED BY <1>1, LanesStepIsSwitchStep, PTL DEF LanesSpec, Spec

\* A lane proposes an open only while the engine's recent losses are below its
\* limit, in every run of the whole strategy: the cycle that proposes has asked
\* the kill switch, which leaves it untripped.
THEOREM LanesTradeBelowLimit == LanesSpec => ProposesBelowLimit
<1>1. ASSUME TypeOK, TradingBelowThreshold', [LanesNext]_lanesVars, intent = NoIntent, intent' # NoIntent
      PROVE  LostLately(Btc)' < Threshold
  <2>1. PICK r \in Readings, g \in BOOLEAN : CycleProposes(r, g)
    <3>1. ~(UNCHANGED intent \/ intent' = NoIntent)
      BY <1>1
    <3> QED BY <1>1, <3>1
            DEF LanesNext, lanesVars, CycleWithoutData, CycleDeclines, Execute, TurnDown, Close, Clock,
                SwitchUsed
  <2>2. AsksKillSwitch
    BY <2>1 DEF CycleProposes, Detects
  <2>3. tripAge'[Btc] = Untripped
    <3>1. CASE CooldownOver(Btc)
      BY <1>1, <2>2, <3>1, BtcLanesConstants DEF AsksKillSwitch, IsActiveResets, Reset, TypeOK
    <3>2. CASE ~CooldownOver(Btc)
      BY <2>2, <3>2 DEF AsksKillSwitch, IsActive, vars
    <3> QED BY <3>1, <3>2
  <2> QED BY <1>1, <2>3, BtcLanesConstants DEF TradingBelowThreshold
<1>2. TypeOK /\ TradingBelowThreshold' /\ [LanesNext]_lanesVars =>
        [intent = NoIntent /\ intent' # NoIntent => LostLately(Btc)' < Threshold]_lanesVars
  BY <1>1
<1> QED BY <1>2, LanesUseTheSwitch, TypeCorrect, LimitHolds, PTL DEF LanesSpec, ProposesBelowLimit

-----------------------------------------------------------------------------
(* The regime detector.                                                    *)

\* The deque holds at most as many labels as the hysteresis takes.
DetectorInv ==
  /\ regime \in Regimes
  /\ rawHistory \in Seq(Regimes) /\ Len(rawHistory) <= HysteresisTicks

\* The last labels of h, from the k-th on, are the same, and no more are.
StreakFrom(h, k) ==
  /\ \A j \in k..Len(h) : h[j] = h[Len(h)]
  /\ k = 1 \/ h[k - 1] # h[Len(h)]

\* A nonempty history ends in a streak.
LEMMA StreakStarts ==
  ASSUME NEW h \in Seq(Regimes), h # <<>>
  PROVE  \E k \in 1..Len(h) : StreakFrom(h, k)
<1> DEFINE T == {k \in 1..Len(h) : \A j \in k..Len(h) : h[j] = h[Len(h)]}
<1>1. Len(h) \in Nat /\ Len(h) >= 1
  OBVIOUS
<1>2. Len(h) \in T
  BY <1>1
<1>3. PICK k \in T : \A i \in T : k <= i
  <2>1. T \in SUBSET Nat /\ T # {}
    BY <1>2
  <2> HIDE DEF T
  <2> QED BY <2>1, LeastNat
<1>4. k \in 1..Len(h) /\ \A j \in k..Len(h) : h[j] = h[Len(h)]
  BY <1>3
<1>5. ASSUME k # 1 PROVE h[k - 1] # h[Len(h)]
  <2>1. k - 1 \in 1..Len(h) /\ ~(k <= k - 1)
    BY <1>4, <1>5
  <2>2. k - 1 \notin T
    BY <1>3, <2>1
  <2>3. PICK j \in (k - 1)..Len(h) : h[j] # h[Len(h)]
    BY <2>1, <2>2
  <2>4. j \notin k..Len(h)
    BY <1>4, <2>3
  <2>5. j = k - 1
    BY <1>1, <1>4, <2>3, <2>4
  <2> QED BY <2>3, <2>5
<1> QED BY <1>4, <1>5 DEF StreakFrom

\* How long the streak is that starts there.
LEMMA StreakLength ==
  ASSUME NEW h \in Seq(Regimes), NEW k \in 1..Len(h), StreakFrom(h, k)
  PROVE  Streak(h) = Len(h) - k + 1
<1> DEFINE S == {i \in DOMAIN h : \A j \in i..Len(h) : h[j] = Last(h)}
<1>1. Last(h) = h[Len(h)] /\ DOMAIN h = 1..Len(h) /\ Len(h) \in Nat
  BY DEF Last
<1>2. ASSUME NEW i \in k..Len(h) PROVE i \in S
  <2>1. \A j \in i..Len(h) : j \in k..Len(h)
    BY <1>1
  <2> QED BY <1>1, <2>1 DEF StreakFrom
<1>3. ASSUME NEW i \in S PROVE i \in k..Len(h)
  <2>1. i \in 1..Len(h) /\ \A j \in i..Len(h) : h[j] = h[Len(h)]
    BY <1>1
  <2>2. SUFFICES ASSUME i < k PROVE FALSE
    BY <1>1, <2>1
  <2>3. k # 1 /\ k - 1 \in i..Len(h)
    BY <1>1, <2>1, <2>2
  <2> QED BY <2>1, <2>3 DEF StreakFrom
<1>4. S = k..Len(h)
  BY <1>2, <1>3
<1>5. Cardinality(k..Len(h)) = Len(h) - k + 1
  BY <1>1, FS_Interval
<1>6. Streak(h) = Cardinality(S)
  BY DEF Streak
<1> QED BY <1>4, <1>5, <1>6

\* Nothing read yet is no streak.
LEMMA NoStreak == Streak(<<>>) = 0
<1>1. {i \in DOMAIN <<>> : \A j \in i..Len(<<>>) : <<>>[j] = Last(<<>>)} = {}
  OBVIOUS
<1> QED BY <1>1, FS_EmptySet DEF Streak

\* The deque after one more label: it forgets the oldest when it is full.
LEMMA AppendedLabels ==
  ASSUME NEW h \in Seq(Regimes), Len(h) <= HysteresisTicks, NEW raw \in Regimes
  PROVE  LET a == Appended(h, raw)
             n == Len(h)
         IN /\ a \in Seq(Regimes) /\ a # <<>>
            /\ n < HysteresisTicks =>
                 /\ Len(a) = n + 1
                 /\ \A i \in 1..n : a[i] = h[i]
            /\ n = HysteresisTicks =>
                 /\ Len(a) = n
                 /\ \A i \in 1..(n - 1) : a[i] = h[i + 1]
            /\ a[Len(a)] = raw
            /\ Last(a) = raw
<1> DEFINE a == Appended(h, raw)
           l == Append(h, raw)
<1>1. HysteresisTicks \in Nat \ {0} /\ Len(h) \in Nat
  BY BtcLanesConstants
<1>2. l \in Seq(Regimes) /\ Len(l) = Len(h) + 1 /\ l[Len(h) + 1] = raw /\ l # <<>>
      /\ \A i \in 1..Len(h) : l[i] = h[i]
  OBVIOUS
<1>3. a = IF Len(l) > HysteresisTicks THEN Tail(l) ELSE l
  BY DEF Appended
<1> HIDE DEF l, a
<1>4. CASE Len(h) < HysteresisTicks
  <2>1. a = l
    BY <1>1, <1>2, <1>3, <1>4
  <2> QED BY <1>1, <1>2, <1>4, <2>1 DEF Last, a
<1>5. CASE Len(h) = HysteresisTicks
  <2>1. a = Tail(l)
    BY <1>1, <1>2, <1>3, <1>5
  <2>2. a \in Seq(Regimes) /\ Len(a) = Len(h) /\ \A i \in 1..Len(h) : a[i] = l[i + 1]
    BY <1>1, <1>2, <2>1
  <2>3. a # <<>> /\ a[Len(a)] = raw
    BY <1>1, <1>2, <1>5, <2>2
  <2>4. \A i \in 1..(Len(h) - 1) : a[i] = h[i + 1]
    BY <1>1, <1>2, <2>2
  <2> QED BY <1>1, <1>5, <2>2, <2>3, <2>4 DEF Last, a
<1> QED BY <1>1, <1>4, <1>5

\* A streak has at least one label, and at most as many as the history.
LEMMA StreakBounds ==
  ASSUME NEW h \in Seq(Regimes), h # <<>>
  PROVE  Streak(h) \in 1..Len(h)
<1>1. PICK k \in 1..Len(h) : StreakFrom(h, k)
  BY StreakStarts
<1> QED BY <1>1, StreakLength

\* One more label lengthens the streak, up to the hysteresis, or starts another.
LEMMA StreakGrows ==
  ASSUME NEW h \in Seq(Regimes), Len(h) <= HysteresisTicks, NEW raw \in Regimes
  PROVE  Streak(Appended(h, raw)) =
           IF h = <<>> \/ raw # Last(h) THEN 1
           ELSE IF Streak(h) < HysteresisTicks THEN Streak(h) + 1 ELSE Streak(h)
<1> DEFINE a == Appended(h, raw)
           n == Len(h)
<1>1. HysteresisTicks \in Nat \ {0} /\ n \in Nat /\ Last(h) = h[n]
  BY BtcLanesConstants DEF Last
<1>2. /\ a \in Seq(Regimes) /\ a # <<>>
      /\ n < HysteresisTicks => Len(a) = n + 1 /\ \A i \in 1..n : a[i] = h[i]
      /\ n = HysteresisTicks => Len(a) = n /\ \A i \in 1..(n - 1) : a[i] = h[i + 1]
      /\ a[Len(a)] = raw
  BY AppendedLabels
<1> HIDE DEF a
<1>3. CASE h = <<>> \/ raw # Last(h)
  <2>1. StreakFrom(a, Len(a)) /\ Len(a) \in 1..Len(a)
    <3>1. CASE h = <<>>
      BY <1>1, <1>2, <3>1 DEF StreakFrom
    <3>2. CASE h # <<>> /\ n < HysteresisTicks
      <4>1. a[Len(a) - 1] = h[n] /\ n >= 1
        BY <1>1, <1>2, <3>2
      <4> QED BY <1>1, <1>2, <1>3, <3>2, <4>1 DEF StreakFrom
    <3>3. CASE h # <<>> /\ n = HysteresisTicks
      <4>1. n # 1 => a[Len(a) - 1] = h[n]
        BY <1>1, <1>2, <3>3
      <4> QED BY <1>1, <1>2, <1>3, <3>3, <4>1 DEF StreakFrom
    <3> QED BY <1>1, <3>1, <3>2, <3>3
  <2>2. Streak(a) = Len(a) - Len(a) + 1
    BY <1>2, <2>1, StreakLength
  <2> QED BY <1>2, <1>3, <2>1, <2>2 DEF a
<1>4. CASE h # <<>> /\ raw = Last(h)
  <2>1. PICK k \in 1..n : StreakFrom(h, k)
    BY <1>4, StreakStarts
  <2>2. Streak(h) = n - k + 1
    BY <2>1, StreakLength
  <2>3. CASE n < HysteresisTicks
    <3>1. StreakFrom(a, k) /\ k \in 1..Len(a)
      BY <1>1, <1>2, <1>4, <2>1, <2>3 DEF StreakFrom
    <3>2. Streak(a) = Len(a) - k + 1
      BY <1>2, <3>1, StreakLength
    <3> QED BY <1>1, <1>2, <1>4, <2>2, <2>3, <3>2 DEF a
  <2>4. CASE n = HysteresisTicks /\ k = 1
    <3>1. StreakFrom(a, 1) /\ 1 \in 1..Len(a)
      BY <1>1, <1>2, <1>4, <2>1, <2>4 DEF StreakFrom
    <3>2. Streak(a) = Len(a) - 1 + 1
      BY <1>2, <3>1, StreakLength
    <3> QED BY <1>1, <1>2, <1>4, <2>2, <2>4, <3>2 DEF a
  <2>5. CASE n = HysteresisTicks /\ k # 1
    <3>1. StreakFrom(a, k - 1) /\ k - 1 \in 1..Len(a)
      BY <1>1, <1>2, <1>4, <2>1, <2>5 DEF StreakFrom
    <3>2. Streak(a) = Len(a) - (k - 1) + 1
      BY <1>2, <3>1, StreakLength
    <3> QED BY <1>1, <1>2, <1>4, <2>2, <2>5, <3>2 DEF a
  <2> QED BY <1>1, <2>3, <2>4, <2>5
<1> QED BY <1>3, <1>4

\* The deque commits exactly when its streak is as long as the hysteresis asks.
LEMMA CommitsOnStreak ==
  ASSUME NEW h \in Seq(Regimes), h # <<>>, Len(h) <= HysteresisTicks
  PROVE  Commits(h) <=> Streak(h) = HysteresisTicks
<1>1. HysteresisTicks \in Nat \ {0} /\ Len(h) \in Nat
  BY BtcLanesConstants
<1>d. DOMAIN h = 1..Len(h)
  OBVIOUS
<1>2. PICK k \in 1..Len(h) : StreakFrom(h, k)
  BY StreakStarts
<1>3. Streak(h) = Len(h) - k + 1
  BY <1>2, StreakLength
<1>4. ASSUME Commits(h) PROVE Streak(h) = HysteresisTicks
  <2>1. Len(h) = HysteresisTicks
    BY <1>1, <1>4 DEF Commits
  <2>3. \A i, j \in DOMAIN h : h[i] = h[j]
    BY <1>4 DEF Commits, Uniform
  <2>2. k = 1
    <3>1. ASSUME k # 1 PROVE k - 1 \in 1..Len(h) /\ Len(h) \in 1..Len(h)
      BY <1>1, <1>2, <3>1
    <3> QED BY <1>1, <1>2, <1>d, <2>3, <3>1 DEF StreakFrom
  <2> QED BY <1>1, <1>3, <2>1, <2>2
<1>5. ASSUME Streak(h) = HysteresisTicks PROVE Commits(h)
  <2>1. k = 1 /\ Len(h) = HysteresisTicks
    BY <1>1, <1>2, <1>3, <1>5
  <2> QED BY <1>1, <1>2, <1>d, <2>1 DEF StreakFrom, Commits, Uniform
<1> QED BY <1>4, <1>5

\* The raw classifier names one of the regimes.
LEMMA RawRegime ==
  ASSUME NEW r
  PROVE  RawClassify(r) \in Regimes
BY DEF RawClassify, Regimes

\* A detection keeps the deque within its bound and is one reading of the
\* debounced label.
LEMMA DetectReads ==
  ASSUME DetectorInv, NEW r \in Readings, Detect(r)
  PROVE  DetectorInv' /\ Debounced!Next
<1> DEFINE raw == RawClassify(r)
<1>1. raw \in Regimes /\ HysteresisTicks \in Nat \ {0}
  BY RawRegime, BtcLanesConstants
<1>2. rawHistory' = Appended(rawHistory, raw)
  BY DEF Detect
<1> HIDE DEF raw
<1>3. /\ rawHistory' \in Seq(Regimes) /\ rawHistory' # <<>>
      /\ Len(rawHistory') <= HysteresisTicks /\ Last(rawHistory') = raw
  <2>1. rawHistory \in Seq(Regimes) /\ Len(rawHistory) \in Nat /\ Len(rawHistory) <= HysteresisTicks
    BY DEF DetectorInv
  <2> DEFINE a == Appended(rawHistory, raw)
  <2>2. /\ a \in Seq(Regimes) /\ a # <<>> /\ Last(a) = raw
        /\ Len(rawHistory) < HysteresisTicks => Len(a) = Len(rawHistory) + 1
        /\ Len(rawHistory) = HysteresisTicks => Len(a) = Len(rawHistory)
    BY <1>1, <2>1, AppendedLabels
  <2> HIDE DEF a
  <2>3. Len(a) <= HysteresisTicks
    BY <1>1, <2>1, <2>2
  <2> QED BY <1>2, <2>2, <2>3 DEF a
<1>4. Streak(rawHistory') =
        IF rawHistory = <<>> \/ raw # Last(rawHistory) THEN 1
        ELSE IF Streak(rawHistory) < HysteresisTicks THEN Streak(rawHistory) + 1
             ELSE Streak(rawHistory)
  BY <1>1, <1>2, StreakGrows DEF DetectorInv
<1>5. rawHistory = <<>> <=> Streak(rawHistory) = 0
  BY NoStreak, StreakBounds DEF DetectorInv
<1>6. regime' = IF Streak(rawHistory') = HysteresisTicks THEN raw ELSE regime
  BY <1>3, CommitsOnStreak DEF Detect
<1>7. DetectorInv'
  BY <1>1, <1>3, <1>6 DEF DetectorInv
<1>8. Debounced!Read(raw)
  BY <1>3, <1>4, <1>5, <1>6 DEF Debounced!Read
<1> QED BY <1>1, <1>7, <1>8 DEF Debounced!Next

\* Every step of the strategy is a reading of the debounced label or leaves it.
LEMMA LanesStepReads ==
  ASSUME DetectorInv, [LanesNext]_lanesVars
  PROVE  DetectorInv' /\ [Debounced!Next]_Debounced!vars
<1>1. ASSUME NEW r \in Readings, Detect(r)
      PROVE  DetectorInv' /\ [Debounced!Next]_Debounced!vars
  BY <1>1, DetectReads
<1>2. CASE UNCHANGED detector
  BY <1>2 DEF detector, DetectorInv, Debounced!vars
<1> QED BY <1>1, <1>2
        DEF LanesNext, CycleWithoutData, CycleDeclines, CycleProposes, Detects, Execute, TurnDown,
            Clock, Close, SwitchUsed, lanesVars

\* The regime that the lanes trade on implements the debounced label: it changes
\* only after hysteresis_ticks equal readings in a row, and then it does, for
\* every market, hysteresis, and order of trips, gaps in the data and days.
THEOREM LanesDebounce == LanesSpec => DebouncesRegime
<1>1. LanesInit => DetectorInv /\ Debounced!Init
  BY NoStreak, BtcLanesConstants DEF LanesInit, DetectorInv, Debounced!Init, Regimes
<1>2. DetectorInv /\ [LanesNext]_lanesVars => DetectorInv' /\ [Debounced!Next]_Debounced!vars
  BY LanesStepReads
<1> QED BY <1>1, <1>2, PTL DEF LanesSpec, DebouncesRegime, Debounced!Spec
=============================================================================
