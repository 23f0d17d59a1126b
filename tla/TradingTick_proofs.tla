------------------------ MODULE TradingTick_proofs -------------------------
(***************************************************************************)
(* What TLAPS proves of TradingTick for every set of coins, strategies,    *)
(* sizes, caps and faults: the variables' types, that AceVault's own       *)
(* record mirrors PortfolioState, that it holds one position per coin and  *)
(* passes its capacity by a batch at most, that strategies which disagree  *)
(* on a coin keep each other off it, that Track A's entries are within the *)
(* limits, that a tick under way comes to its end, and that the book nets  *)
(* to what the venue holds wherever it was told the truth.                 *)
(***************************************************************************)
EXTENDS TradingTick, Sums

\* Which variables may be non-empty where the tick is suspended: the fact
\* about the phases that makes the invariants below inductive.
TickShape ==
  /\ phase \notin {"fathom", "aceEntryLog"} => batch = {}
  /\ phase \notin {"aceEntryLog", "aceExitLog"} => inflight = {}
  /\ phase = "aceEntryLog" => \A p \in inflight : p.engine = Acevault
  /\ phase = "trackAExits" => \A p \in exits : p.engine \in TrackA
  /\ phase = "down" => book = {} /\ aceOpen = {}
  /\ phase # "execute" => orders = {}
  /\ orders \subseteq ApplyConflictPolicy(intents)

-----------------------------------------------------------------------------
\* A percentage of a size is a size: what the safety multiplier and Fathom's
\* multiplier leave of a signal.
LEMMA PercentOfSize ==
  ASSUME NEW size \in Nat, NEW pct \in Nat
  PROVE  (size * pct) \div 100 \in Nat
<1>1. size * pct \in Nat BY SMT
<1>2. \A n \in Nat : n \div 100 \in Nat BY SMT
<1> QED BY <1>1, <1>2

\* An entry that becomes a position keeps its engine and its coin and has one
\* of the bounded ids.
LEMMA IdentifiedType ==
  ASSUME NEW s, s.engine \in Engines, s.coin \in Coins, s.side \in Sides,
         NEW size \in Nat, NEW id \in Ids
  PROVE  /\ Identified(s, size, id) \in Position
         /\ Identified(s, size, id).engine = s.engine
         /\ Identified(s, size, id).coin = s.coin
         /\ Identified(s, size, id).side = s.side
BY DEF Identified, Position

\* What an order changes at the venue is a whole number of units.
LEMMA DeliveredType ==
  ASSUME NEW p \in Position
  PROVE  Delivered(p) \in Int
<1> DEFINE sent == [p EXCEPT !.size = (p.size \div Dollar) * Dollar]
<1>1. p.size \in Nat BY DEF Position
<1>2. Dollar \in Nat \ {0} BY TickConstants
<1>3. p.size \div Dollar \in Nat BY <1>1, <1>2, SMT
<1>4. (p.size \div Dollar) * Dollar \in Nat BY <1>2, <1>3, SMT
<1>5. sent.size \in Nat BY <1>1, <1>4 DEF Position
<1>6. Signed(sent) \in Int
  <2> HIDE DEF sent
  <2> QED BY <1>5 DEF Signed
<1> QED BY <1>6 DEF Delivered

\* What an AceVault submission that does not raise puts in flight.
LEMMA Submitted ==
  ASSUME NEW s, NEW pct, NEW o, NEW id, AceSubmit(s, pct, o, id), ~Raises(o)
  PROVE  \E p : inflight' = {p} /\ p.engine = s.engine /\ p.coin = s.coin
<1> DEFINE p == Identified(s, (s.size * pct) \div 100, id)
<1>1. inflight' = {p} BY DEF AceSubmit
<1>2. p.engine = s.engine /\ p.coin = s.coin BY DEF Identified
<1> HIDE DEF p
<1> QED BY <1>1, <1>2

\* A venue that acts on an open or a close still shows an integer per coin.
LEMMA VenueType ==
  ASSUME venue \in [Coins -> Int], NEW p \in Position, NEW o,
         VenueOpens(p, o) \/ VenueCloses(p, o)
  PROVE  venue' \in [Coins -> Int]
<1>1. p.coin \in Coins BY DEF Position
<1>2. Delivered(p) \in Int BY DeliveredType
<1> QED BY <1>1, <1>2 DEF VenueOpens, VenueCloses

-----------------------------------------------------------------------------
\* build_context starts with empty books and an idle tick.
LEMMA InitTypeOK == Init => TypeOK
BY TickConstants DEF Init, TypeOK, Phases, Engines

\* Each action of the tick keeps the variables in their types.
LEMMA TickTypeOK ==
  ASSUME TypeOK, TickStep
  PROVE  TypeOK'
<1> USE DEF Phases, tickVars, bookVars, cfgVars
<1>1. CASE TickStart
  BY <1>1, TickConstants DEF TickStart, TypeOK
<1>2. CASE \E p \in exits, o \in CloseOutcomes : TrackAClose(p, o)
  <2> PICK p \in exits, o \in CloseOutcomes : TrackAClose(p, o) BY <1>2
  <2>1. p \in Position /\ p.coin \in Coins /\ p.engine \in Engines
    BY DEF TypeOK, Position
  <2>2. venue' \in [Coins -> Int] BY <2>1, VenueType DEF TrackAClose, TypeOK
  <2>3. doubt' \subseteq Coins BY <2>1 DEF TrackAClose, TypeOK, DoubtAfterClose
  <2>4. book' \subseteq Position BY DEF TrackAClose, TypeOK
  <2> QED BY <2>2, <2>3, <2>4 DEF TrackAClose, TypeOK
<1>3. CASE AceSkip
  BY <1>3 DEF AceSkip, TypeOK
<1>4. CASE AceBegin
  BY <1>4 DEF AceBegin, TypeOK
<1>5. CASE \E p \in exits, o \in CloseOutcomes : AceClose(p, o)
  <2> PICK p \in exits, o \in CloseOutcomes : AceClose(p, o) BY <1>5
  <2>1. p \in Position /\ p.coin \in Coins /\ p.engine \in Engines
    BY DEF TypeOK, Position
  <2>2. venue' \in [Coins -> Int] BY <2>1, VenueType DEF AceClose, TypeOK
  <2>3. doubt' \subseteq Coins BY <2>1 DEF AceClose, TypeOK, DoubtAfterClose
  <2>4. inflight' \subseteq Position BY <2>1 DEF AceClose
  <2> QED BY <2>2, <2>3, <2>4 DEF AceClose, TypeOK
<1>6. CASE AceDropClosed
  BY <1>6 DEF AceDropClosed, TypeOK
<1>7. CASE AceKilled \/ AceScanFails
  BY <1>7 DEF AceKilled, AceScanFails, TypeOK
<1>8. CASE AceAdmit
  <2> PICK cands \in SUBSET Coins : \E size \in [cands -> AceSizes] :
        batch' = {s \in {AceSignal(c, SafetySized(size[c], safety)) : c \in cands} :
                    ShouldEnter(s.coin) /\ Approves(book, tripped, s)}
    BY <1>8 DEF AceAdmit
  <2> PICK size \in [cands -> AceSizes] :
        batch' = {s \in {AceSignal(c, SafetySized(size[c], safety)) : c \in cands} :
                    ShouldEnter(s.coin) /\ Approves(book, tripped, s)}
    OBVIOUS
  <2>1. \A c \in cands : SafetySized(size[c], safety) \in Nat
    <3> TAKE c \in cands
    <3>1. size[c] \in Nat BY TickConstants
    <3>2. safety \in Nat BY DEF TypeOK
    <3>3. (size[c] * safety) \div 100 \in Nat BY <3>1, <3>2, PercentOfSize
    <3> QED BY <3>3 DEF SafetySized
  <2>2. batch' \subseteq [engine : {Acevault}, coin : Coins, side : {"short"}, size : Nat]
    BY <2>1 DEF AceSignal
  <2>3. admittedAt' \in AceCaps
    BY <1>8 DEF AceAdmit, TypeOK
  <2> QED BY <1>8, <2>2, <2>3 DEF AceAdmit, TypeOK
<1>9. CASE \E s \in batch, pct \in FathomPcts, o \in Outcomes, id \in FreeIds :
             AceSubmit(s, pct, o, id)
  <2> PICK s \in batch, pct \in FathomPcts, o \in Outcomes, id \in FreeIds :
        AceSubmit(s, pct, o, id) BY <1>9
  <2> DEFINE p == Identified(s, (s.size * pct) \div 100, id)
  <2>1. /\ s.engine \in Engines /\ s.coin \in Coins /\ s.side \in Sides
        /\ s.size \in Nat /\ pct \in Nat /\ id \in Ids
    BY TickConstants DEF TypeOK, FreeIds, Engines, Sides
  <2>2. (s.size * pct) \div 100 \in Nat BY <2>1, PercentOfSize
  <2>3. p \in Position /\ p.coin \in Coins BY <2>1, <2>2, IdentifiedType
  <2> HIDE DEF p
  <2>4. /\ VenueOpens(p, o) /\ DoubtAfterOpen(p, o, ~Raises(o))
        /\ batch' = batch \ {s}
        /\ \/ UNCHANGED <<phase, inflight>>
           \/ inflight' = {p} /\ phase' = "aceEntryLog"
        /\ UNCHANGED <<bookVars, exits, orders, scanned, intents, cfgVars>>
    BY DEF AceSubmit, p
  <2>5. venue' \in [Coins -> Int] BY <2>3, <2>4, VenueType DEF TypeOK
  <2>6. doubt' \subseteq Coins BY <2>3, <2>4 DEF TypeOK, DoubtAfterOpen
  <2>7. phase' \in Phases /\ inflight' \subseteq Position
    BY <2>3, <2>4 DEF TypeOK
  <2> QED BY <2>4, <2>5, <2>6, <2>7 DEF TypeOK
<1>10. CASE AceRegister
  BY <1>10 DEF AceRegister, TypeOK
<1>11. CASE AceEnd
  BY <1>11 DEF AceEnd, TypeOK
<1>12. CASE \E e \in TrackA : TrackAScan(e)
  <2> PICK e \in TrackA : TrackAScan(e) BY <1>12
  <2>1. intents' \subseteq Intent BY DEF TrackAScan, TypeOK, Intent
  <2>2. scanned' \subseteq TrackA BY DEF TrackAScan, TypeOK
  <2> QED BY <2>1, <2>2 DEF TrackAScan, TypeOK
<1>13. CASE Resolve
  <2>1. orders' \subseteq Intent BY <1>13 DEF Resolve, ApplyConflictPolicy, TypeOK
  <2> QED BY <1>13, <2>1 DEF Resolve, TypeOK
<1>14. CASE \E i \in orders, priced \in BOOLEAN : ExecuteSkip(i, priced)
  BY <1>14 DEF ExecuteSkip, TypeOK
<1>15. CASE \E i \in orders, o \in Outcomes, id \in FreeIds : ExecuteSubmit(i, o, id)
  <2> PICK i \in orders, o \in Outcomes, id \in FreeIds : ExecuteSubmit(i, o, id)
    BY <1>15
  <2> DEFINE s == TrackASignal(i)
             p == Identified(s, s.size, id)
  <2>1. i.engine \in Engines /\ i.coin \in Coins /\ i.side \in Sides /\ id \in Ids
    BY DEF TypeOK, Intent, Engines, FreeIds
  <2>2. SafetySized(TrackASize, safety) \in Nat
    BY TickConstants, PercentOfSize DEF TypeOK, SafetySized
  <2>3. p \in Position /\ p.coin \in Coins
    BY <2>1, <2>2, IdentifiedType DEF TrackASignal
  <2>4. /\ VenueOpens(p, o) /\ DoubtAfterOpen(p, o, Accepted(o))
        /\ book' = IF Accepted(o) THEN book \cup {p} ELSE book
        /\ orders' = orders \ {i}
        /\ UNCHANGED <<phase, aceOpen, exits, batch, inflight, scanned, intents, cfgVars>>
    BY DEF ExecuteSubmit
  <2> HIDE DEF p
  <2>5. venue' \in [Coins -> Int] BY <2>3, <2>4, VenueType DEF TypeOK
  <2>6. doubt' \subseteq Coins BY <2>3, <2>4 DEF TypeOK, DoubtAfterOpen
  <2>7. book' \subseteq Position BY <2>3, <2>4 DEF TypeOK
  <2> QED BY <2>4, <2>5, <2>6, <2>7 DEF TypeOK
<1>16. CASE TickEnd
  BY <1>16 DEF TickEnd, TypeOK
<1> QED
  BY <1>1, <1>2, <1>3, <1>4, <1>5, <1>6, <1>7, <1>8, <1>9, <1>10, <1>11, <1>12,
     <1>13, <1>14, <1>15, <1>16 DEF TickStep

\* So do the events around it.
LEMMA EnvironmentTypeOK ==
  ASSUME TypeOK, Environment
  PROVE  TypeOK'
<1> USE DEF Phases, tickVars, bookVars, cfgVars
<1>1. CASE HotReload
  BY <1>1 DEF HotReload, TypeOK
<1>2. CASE \E e \in Engines : KillTrip(e)
  BY <1>2 DEF KillTrip, TypeOK
<1>3. CASE \E e \in Engines : KillReset(e)
  BY <1>3 DEF KillReset, TypeOK
<1>4. CASE \E c \in Coins : ExternalClose(c)
  BY <1>4 DEF ExternalClose, TypeOK
<1>5. CASE Crash
  BY <1>5 DEF Crash, TypeOK
<1>6. CASE RestartSynced
  <2> PICK id \in [HeldCoins -> Ids] :
        book' = {RecoveredPosition(c, id[c]) : c \in HeldCoins}
    BY <1>6 DEF RestartSynced
  <2>1. \A c \in HeldCoins : RecoveredPosition(c, id[c]) \in Position
    <3> TAKE c \in HeldCoins
    <3>1. c \in Coins /\ venue[c] \in Int /\ id[c] \in Ids BY DEF HeldCoins, TypeOK
    <3> QED BY <3>1 DEF RecoveredPosition, Position, Engines, Sides
  <2> QED BY <1>6, <2>1 DEF RestartSynced, TypeOK
<1>7. CASE RestartBlank
  BY <1>7 DEF RestartBlank, TypeOK, HeldCoins
<1> QED
  BY <1>1, <1>2, <1>3, <1>4, <1>5, <1>6, <1>7 DEF Environment

\* The tick's variables keep their types: src/main.py and everything it runs.
THEOREM TypeCorrect == Spec => []TypeOK
<1>1. Init => TypeOK BY InitTypeOK
<1>2. TypeOK /\ [Next]_vars => TypeOK'
  <2> SUFFICES ASSUME TypeOK, [Next]_vars PROVE TypeOK' OBVIOUS
  <2>1. CASE TickStep BY <2>1, TickTypeOK
  <2>2. CASE Environment BY <2>2, EnvironmentTypeOK
  <2>3. CASE UNCHANGED vars
    BY <2>3 DEF vars, tickVars, bookVars, cfgVars, TypeOK
  <2> QED BY <2>1, <2>2, <2>3 DEF Next
<1> QED BY <1>1, <1>2, PTL DEF Spec

-----------------------------------------------------------------------------
\* Which variables are non-empty where the tick is suspended, and that an
\* order still to be executed survived the conflict policy of this tick.
LEMMA InitTickShape == Init => TickShape
BY DEF Init, TickShape

\* Every step keeps that shape: each handler empties what the next one relies on.
LEMMA NextTickShape ==
  ASSUME TypeOK, TickShape, [Next]_vars
  PROVE  TickShape'
<1> USE DEF tickVars, bookVars, cfgVars
<1>1. CASE TickStart BY <1>1 DEF TickStart, TickShape
<1>2. CASE \E p \in exits, o \in CloseOutcomes : TrackAClose(p, o)
  BY <1>2 DEF TrackAClose, TickShape
<1>3. CASE AceSkip BY <1>3 DEF AceSkip, TickShape
<1>4. CASE AceBegin BY <1>4 DEF AceBegin, TickShape
<1>5. CASE \E p \in exits, o \in CloseOutcomes : AceClose(p, o)
  BY <1>5 DEF AceClose, TickShape
<1>6. CASE AceDropClosed BY <1>6 DEF AceDropClosed, TickShape
<1>7. CASE AceKilled \/ AceScanFails
  BY <1>7 DEF AceKilled, AceScanFails, TickShape
<1>8. CASE AceAdmit BY <1>8 DEF AceAdmit, TickShape
<1>9. CASE \E s \in batch, pct \in FathomPcts, o \in Outcomes, id \in FreeIds :
             AceSubmit(s, pct, o, id)
  <2> PICK s \in batch, pct \in FathomPcts, o \in Outcomes, id \in FreeIds :
        AceSubmit(s, pct, o, id) BY <1>9
  <2>1. CASE Raises(o) BY <2>1 DEF AceSubmit, TickShape
  <2>2. CASE ~Raises(o)
    <3>1. /\ phase = "fathom" /\ phase' = "aceEntryLog"
          /\ UNCHANGED <<exits, orders, intents>>
      BY <2>2 DEF AceSubmit
    <3>4. \A p \in inflight' : p.engine = s.engine
      BY <2>2, Submitted
    <3>2. s.engine = Acevault BY DEF TypeOK
    <3>3. orders' = {} BY <3>1 DEF TickShape
    <3> QED BY <3>1, <3>2, <3>3, <3>4 DEF TickShape
  <2> QED BY <2>1, <2>2
<1>10. CASE AceRegister BY <1>10 DEF AceRegister, TickShape
<1>11. CASE AceEnd BY <1>11 DEF AceEnd, TickShape
<1>12. CASE \E e \in TrackA : TrackAScan(e)
  <2>1. orders = {} /\ orders' = {} /\ phase' = phase
    BY <1>12 DEF TrackAScan, TickShape
  <2> QED BY <1>12, <2>1 DEF TrackAScan, TickShape
<1>13. CASE Resolve BY <1>13 DEF Resolve, TickShape
<1>14. CASE \E i \in orders, priced \in BOOLEAN : ExecuteSkip(i, priced)
  BY <1>14 DEF ExecuteSkip, TickShape
<1>15. CASE \E i \in orders, o \in Outcomes, id \in FreeIds : ExecuteSubmit(i, o, id)
  BY <1>15 DEF ExecuteSubmit, TickShape
<1>16. CASE TickEnd BY <1>16 DEF TickEnd, TickShape
<1>17. CASE HotReload BY <1>17 DEF HotReload, TickShape
<1>18. CASE \E e \in Engines : KillTrip(e) \/ KillReset(e)
  BY <1>18 DEF KillTrip, KillReset, TickShape
<1>19. CASE \E c \in Coins : ExternalClose(c) BY <1>19 DEF ExternalClose, TickShape
<1>20. CASE Crash BY <1>20 DEF Crash, TickShape
<1>21. CASE RestartSynced BY <1>21 DEF RestartSynced, TickShape
<1>22. CASE RestartBlank BY <1>22 DEF RestartBlank, TickShape
<1>23. CASE UNCHANGED vars BY <1>23 DEF vars, TickShape
<1> QED
  BY <1>1, <1>2, <1>3, <1>4, <1>5, <1>6, <1>7, <1>8, <1>9, <1>10, <1>11, <1>12, <1>13,
     <1>14, <1>15, <1>16, <1>17, <1>18, <1>19, <1>20, <1>21, <1>22, <1>23
  DEF Next, TickStep, Environment

\* The types and the shape together hold throughout, for every configuration.
THEOREM ShapeInvariant == Spec => [](TypeOK /\ TickShape)
<1>1. TypeOK /\ TickShape /\ [Next]_vars => TickShape'
  BY NextTickShape
<1> QED BY <1>1, InitTickShape, TypeCorrect, PTL DEF Spec

-----------------------------------------------------------------------------
\* What apply_conflict_policy leaves holds no coin on which two intents
\* disagree, so none reaches the executor.
LEMMA NothingContested ==
  ASSUME orders \subseteq ApplyConflictPolicy(intents)
  PROVE  ContestedCoinsSitOut
<1> SUFFICES ASSUME NEW i \in intents, NEW j \in intents,
                    i.coin = j.coin, i.side # j.side,
                    NEW k \in orders, k.coin = i.coin
             PROVE  FALSE
  BY DEF ContestedCoinsSitOut
<1>1. i.side = k.side /\ j.side = k.side
  BY DEF ApplyConflictPolicy, SameCoin
<1> QED BY <1>1

\* For every set of strategies and every order of scanning them: strategies
\* that disagree on the side of a coin keep each other off it for the tick.
THEOREM ConflictsCancel == Spec => []ContestedCoinsSitOut
<1>1. TickShape => ContestedCoinsSitOut BY NothingContested DEF TickShape
<1> QED BY <1>1, ShapeInvariant, PTL

-----------------------------------------------------------------------------
(* What the conflict policy keeps.                                         *)

\* An index is a number, and in a list that has the engine it is its place.
LEMMA IndexType ==
  ASSUME NEW list \in {ExecutionOrder, Priority}, NEW e
  PROVE  /\ IndexIn(list, e) \in Nat
         /\ (\E k \in DOMAIN list : list[k] = e) => list[IndexIn(list, e)] = e
<1>1. Len(list) \in Nat /\ DOMAIN list = 1..Len(list)
  BY ConflictLists
<1>2. CASE \E k \in DOMAIN list : list[k] = e
  <2> DEFINE T == {k \in DOMAIN list : list[k] = e}
  <2>1. T \in SUBSET Nat /\ T # {}
    BY <1>1, <1>2
  <2>2. PICK m \in T : \A n \in T : m <= n
    <3> HIDE DEF T
    <3> QED BY <2>1, LeastNumber
  <2>3. m \in DOMAIN list /\ list[m] = e /\ \A j \in 1..(m - 1) : list[j] # e
    <3>1. ASSUME NEW j \in 1..(m - 1), list[j] = e PROVE FALSE
      <4>1. j \in T /\ j < m
        BY <1>1, <2>2, <3>1
      <4> QED BY <1>1, <2>2, <4>1
    <3> QED BY <2>2, <3>1
  <2>4. IndexIn(list, e) \in DOMAIN list /\ list[IndexIn(list, e)] = e
    BY <1>2, <2>3 DEF IndexIn
  <2> QED BY <1>1, <2>4
<1>3. CASE ~(\E k \in DOMAIN list : list[k] = e)
  BY <1>1, <1>3 DEF IndexIn
<1> QED BY <1>2, <1>3

\* Neither of two intents outranks the other both ways.
LEMMA RankingIsStrict ==
  ASSUME NEW i, NEW j
  PROVE  ~(Outranks(i, j) /\ Outranks(j, i))
<1>1. \A e : IndexIn(Priority, e) \in Nat /\ IndexIn(ExecutionOrder, e) \in Nat
  BY IndexType
<1> QED BY <1>1 DEF Outranks

\* Of intents of different strategies one outranks all others, whether the
\* priorities name its strategy or not.
LEMMA OneRanksFirst ==
  ASSUME NEW group, group # {}, \A i \in group : i.engine \in TrackA,
         \A i, j \in group : i.engine = j.engine => i = j
  PROVE  \E i \in group : \A j \in group \ {i} : Outranks(i, j)
<1> DEFINE P(i) == IndexIn(Priority, i.engine)
           E(i) == IndexIn(ExecutionOrder, i.engine)
<1>1. \A i \in group : P(i) \in Nat /\ E(i) \in Nat /\ ExecutionOrder[E(i)] = i.engine
  <2> SUFFICES ASSUME NEW i \in group
               PROVE  P(i) \in Nat /\ E(i) \in Nat /\ ExecutionOrder[E(i)] = i.engine
    OBVIOUS
  <2>1. \E k \in DOMAIN ExecutionOrder : ExecutionOrder[k] = i.engine
    BY TickConstants
  <2> QED BY <2>1, IndexType
<1>2. \A i, j : Outranks(i, j) <=> P(i) < P(j) \/ (P(i) = P(j) /\ E(i) < E(j))
  BY DEF Outranks
<1> HIDE DEF P, E
<1>3. PICK first \in group : \A j \in group : P(first) <= P(j)
  <2> DEFINE T == {P(i) : i \in group}
  <2>1. T \in SUBSET Nat /\ T # {}
    BY <1>1
  <2>2. PICK m \in T : \A n \in T : m <= n
    <3> HIDE DEF T
    <3> QED BY <2>1, LeastNumber
  <2> QED BY <2>2
<1> DEFINE best == {i \in group : P(i) = P(first)}
<1>4. PICK i \in best : \A j \in best : E(i) <= E(j)
  <2> DEFINE T == {E(j) : j \in best}
  <2>1. T \in SUBSET Nat /\ T # {}
    BY <1>1, <1>3
  <2>2. PICK m \in T : \A n \in T : m <= n
    <3> HIDE DEF T
    <3> QED BY <2>1, LeastNumber
  <2> QED BY <2>2
<1>5. ASSUME NEW j \in group \ {i} PROVE Outranks(i, j)
  <2>1. CASE P(i) # P(j)
    BY <1>1, <1>2, <1>3, <1>4, <2>1
  <2>2. CASE P(i) = P(j)
    <3>1. j \in best /\ E(i) <= E(j)
      BY <1>4, <2>2
    <3>2. E(i) # E(j)
      BY <1>1, <1>4, <1>5
    <3>3. E(i) \in Nat /\ E(j) \in Nat
      BY <1>1, <1>4
    <3>4. E(i) < E(j)
      BY <3>1, <3>2, <3>3
    <3> QED BY <1>2, <2>2, <3>4
  <2> QED BY <2>1, <2>2
<1> QED BY <1>4, <1>5

\* A strategy has its turn once in a tick, and names a coin once.
OneIntentEach ==
  /\ \A i \in intents : i.engine \in scanned
  /\ \A i, j \in intents : i.engine = j.engine /\ i.coin = j.coin => i = j

OneOrderPerCoin == \A i, j \in orders : i.coin = j.coin => i = j

Uncontested(i) == \A j \in intents : j.coin = i.coin => j.side = i.side

\* The policy keeps one intent of a coin, where nobody disagrees.
LEMMA PolicyKeepsOne ==
  ASSUME TypeOK, OneIntentEach
  PROVE  /\ \A i, j \in ApplyConflictPolicy(intents) : i.coin = j.coin => i = j
         /\ \A i \in intents : Uncontested(i)
              => \E k \in ApplyConflictPolicy(intents) : k.coin = i.coin
<1>1. ASSUME NEW i \in ApplyConflictPolicy(intents), NEW j \in ApplyConflictPolicy(intents),
             i.coin = j.coin, i # j
      PROVE  FALSE
  <2>1. Outranks(i, j) /\ Outranks(j, i)
    BY <1>1 DEF ApplyConflictPolicy, SameCoin
  <2> QED BY <2>1, RankingIsStrict
<1>2. ASSUME NEW i \in intents, Uncontested(i)
      PROVE  \E k \in ApplyConflictPolicy(intents) : k.coin = i.coin
  <2> DEFINE group == SameCoin(intents, i)
  <2>1. group \subseteq intents /\ i \in group /\ \A j \in group : j.coin = i.coin
    BY DEF SameCoin
  <2>2. \A j \in group : j.engine \in TrackA
    BY <2>1 DEF TypeOK, Intent
  <2>3. \A j, k \in group : j.engine = k.engine => j = k
    BY <2>1 DEF OneIntentEach
  <2>4. PICK k \in group : \A j \in group \ {k} : Outranks(k, j)
    <3> HIDE DEF group
    <3> QED BY <2>1, <2>2, <2>3, OneRanksFirst
  <2>5. SameCoin(intents, k) = group
    BY <2>1 DEF SameCoin
  <2>6. \A j \in group : j.side = k.side
    BY <1>2, <2>1 DEF Uncontested
  <2> QED BY <2>1, <2>4, <2>5, <2>6 DEF ApplyConflictPolicy
<1> QED BY <1>1, <1>2

\* Nothing is proposed yet.
LEMMA InitOneIntentEach == Init => OneIntentEach
BY DEF Init, OneIntentEach

\* A strategy that proposes has not had its turn.
LEMMA NextOneIntentEach ==
  ASSUME TypeOK, OneIntentEach, [Next]_vars
  PROVE  OneIntentEach'
<1> USE DEF tickVars, bookVars, cfgVars
<1>1. CASE \E e \in TrackA : TrackAScan(e)
  <2>1. PICK e \in TrackA : TrackAScan(e)
    BY <1>1
  <2>2. PICK cs \in SUBSET Coins : \E side \in [cs -> Sides] :
          intents' = intents \cup {[engine |-> e, coin |-> c, side |-> side[c]] : c \in cs}
    BY <2>1 DEF TrackAScan
  <2>3. e \notin scanned /\ scanned' = scanned \cup {e}
    BY <2>1 DEF TrackAScan, NextToScan
  <2> QED BY <2>2, <2>3 DEF OneIntentEach
<1>2. CASE TickEnd \/ Crash
  BY <1>2 DEF TickEnd, Crash, OneIntentEach
<1>3. CASE UNCHANGED <<intents, scanned>>
  BY <1>3 DEF OneIntentEach
<1>4. ASSUME ~(\E e \in TrackA : TrackAScan(e)), ~(TickEnd \/ Crash)
      PROVE  UNCHANGED <<intents, scanned>>
  BY <1>4 DEF Next, TickStep, Environment, vars, TickStart, TrackAClose, AceSkip, AceBegin, AceClose,
              AceDropClosed, AceKilled, AceScanFails, AceAdmit, AceSubmit, AceRegister, AceEnd, Resolve, ExecuteSkip,
              ExecuteSubmit, HotReload, KillTrip, KillReset, ExternalClose, RestartSynced, RestartBlank
<1> QED BY <1>1, <1>2, <1>3, <1>4

\* It holds at all times.
LEMMA IntentsInvariant == Spec => []OneIntentEach
<1>1. TypeOK /\ OneIntentEach /\ [Next]_vars => OneIntentEach'
  BY NextOneIntentEach
<1> QED BY <1>1, InitOneIntentEach, TypeCorrect, PTL DEF Spec

\* For every set of strategies, priorities and orders of scanning, named in the
\* priorities or not: the executor never has two orders of one coin.
THEOREM OrdersAreOnePerCoin == Spec => []OneOrderPerCoin
<1>1. TypeOK /\ TickShape /\ OneIntentEach => OneOrderPerCoin
  BY PolicyKeepsOne DEF TickShape, OneOrderPerCoin
<1> QED BY <1>1, ShapeInvariant, IntentsInvariant, PTL

\* And the policy loses no coin: what is proposed and not contested, by one
\* strategy or by several, leaves it with an order.
THEOREM AgreedCoinsAreOrdered ==
  Spec => [][Resolve => \A i \in intents : Uncontested(i)
               => \E k \in orders' : k.coin = i.coin]_vars
<1>1. ASSUME TypeOK, OneIntentEach
      PROVE  [Resolve => \A i \in intents : Uncontested(i)
               => \E k \in orders' : k.coin = i.coin]_vars
  BY <1>1, PolicyKeepsOne DEF Resolve
<1> QED BY <1>1, ShapeInvariant, IntentsInvariant, PTL

-----------------------------------------------------------------------------
\* AceVault's two records, and one position per coin, belong together.
AceInv == AceMirrorsPortfolio /\ AceOnePerCoin

\* An action that leaves AceVault's positions and candidates alone and touches
\* only positions of other engines keeps both facts.
LEMMA OtherEnginesKeepAceInv ==
  ASSUME AceInv, TickShape,
         aceOpen' = aceOpen, batch' = batch, AceHeld' = AceHeld,
         OpenPositions(book', Acevault) = OpenPositions(book, Acevault)
  PROVE  AceInv'
BY DEF AceInv, AceMirrorsPortfolio, AceOnePerCoin

\* AceVault's own steps keep it: admission gates every candidate against the
\* registered positions, and submission takes one signal out of the batch as
\* it puts its position in flight.
LEMMA AceStepKeepsAceInv ==
  ASSUME TypeOK, TickShape, AceInv,
         \/ \E p \in exits, o \in CloseOutcomes : AceClose(p, o)
         \/ AceDropClosed
         \/ AceAdmit
         \/ \E s \in batch, pct \in FathomPcts, o \in Outcomes, id \in FreeIds :
              AceSubmit(s, pct, o, id)
         \/ AceRegister
  PROVE  AceInv'
<1> USE DEF bookVars
<1>1. CASE \E p \in exits, o \in CloseOutcomes : AceClose(p, o)
  <2>1. /\ aceOpen' = aceOpen /\ batch' = batch /\ book' = book
        /\ phase = "aceExits" /\ phase' = "aceExitLog"
    BY <1>1 DEF AceClose
  <2> QED BY <2>1, OtherEnginesKeepAceInv DEF AceHeld
<1>2. CASE AceDropClosed
  <2>1. /\ book' = book \ inflight /\ aceOpen' = aceOpen \ inflight
        /\ batch' = batch /\ phase' = "aceExits"
    BY <1>2 DEF AceDropClosed
  <2>2. AceMirrorsPortfolio'
    BY <2>1 DEF AceInv, AceMirrorsPortfolio, OpenPositions
  <2>3. AceHeld' \subseteq AceHeld BY <2>1 DEF AceHeld
  <2> QED BY <2>1, <2>2, <2>3 DEF AceInv, AceOnePerCoin
<1>3. CASE AceAdmit
  <2> PICK cands \in SUBSET Coins : \E size \in [cands -> AceSizes] :
        batch' = {s \in {AceSignal(c, SafetySized(size[c], safety)) : c \in cands} :
                    ShouldEnter(s.coin) /\ Approves(book, tripped, s)}
    BY <1>3 DEF AceAdmit
  <2> PICK size \in [cands -> AceSizes] :
        batch' = {s \in {AceSignal(c, SafetySized(size[c], safety)) : c \in cands} :
                    ShouldEnter(s.coin) /\ Approves(book, tripped, s)}
    OBVIOUS
  <2>1. AceHeld' = aceOpen /\ AceHeld = aceOpen
    BY <1>3 DEF AceAdmit, AceHeld
  <2>2. AceMirrorsPortfolio'
    BY <1>3 DEF AceAdmit, AceInv, AceMirrorsPortfolio
  <2>3. \A s, t \in batch' : s.coin = t.coin => s = t
    BY DEF AceSignal
  <2>4. \A p \in aceOpen, s \in batch' : p.coin # s.coin
    BY DEF ShouldEnter, AceInv, AceMirrorsPortfolio
  <2> QED BY <2>1, <2>2, <2>3, <2>4 DEF AceInv, AceOnePerCoin
<1>4. CASE \E s \in batch, pct \in FathomPcts, o \in Outcomes, id \in FreeIds :
             AceSubmit(s, pct, o, id)
  <2> PICK s \in batch, pct \in FathomPcts, o \in Outcomes, id \in FreeIds :
        AceSubmit(s, pct, o, id) BY <1>4
  <2>1. /\ phase = "fathom" /\ batch' = batch \ {s}
        /\ aceOpen' = aceOpen /\ book' = book
    BY DEF AceSubmit
  <2>2. AceHeld = aceOpen BY <2>1 DEF AceHeld
  <2>3. AceMirrorsPortfolio' BY <2>1 DEF AceInv, AceMirrorsPortfolio
  <2>4. CASE Raises(o)
    <3>1. AceHeld' = aceOpen BY <2>1, <2>4 DEF AceSubmit, AceHeld
    <3> QED BY <2>1, <2>2, <2>3, <3>1 DEF AceInv, AceOnePerCoin
  <2>5. CASE ~Raises(o)
    <3> PICK p : inflight' = {p} /\ p.coin = s.coin
      BY <2>5, Submitted
    <3>1. AceHeld' = aceOpen \cup {p}
      BY <2>1, <2>5 DEF AceSubmit, AceHeld
    <3> QED BY <2>1, <2>2, <2>3, <3>1 DEF AceInv, AceOnePerCoin
  <2> QED BY <2>4, <2>5
<1>5. CASE AceRegister
  <2>1. /\ book' = book \cup inflight /\ aceOpen' = aceOpen \cup inflight
        /\ batch' = batch /\ phase = "aceEntryLog" /\ phase' = "fathom"
    BY <1>5 DEF AceRegister
  <2>2. \A p \in inflight : p.engine = Acevault BY <2>1 DEF TickShape
  <2>3. AceMirrorsPortfolio'
    BY <2>1, <2>2 DEF AceInv, AceMirrorsPortfolio, OpenPositions
  <2>4. AceHeld' = AceHeld BY <2>1 DEF AceHeld
  <2> QED BY <2>1, <2>3, <2>4 DEF AceInv, AceOnePerCoin
<1> QED BY <1>1, <1>2, <1>3, <1>4, <1>5

\* Every step of the process, the venue's and the restarts' included, keeps it.
LEMMA NextAceInv ==
  ASSUME TypeOK, TickShape, AceInv, [Next]_vars
  PROVE  AceInv'
<1> USE DEF tickVars, bookVars, cfgVars
<1>1. CASE \/ \E p \in exits, o \in CloseOutcomes : AceClose(p, o)
           \/ AceDropClosed
           \/ AceAdmit
           \/ \E s \in batch, pct \in FathomPcts, o \in Outcomes, id \in FreeIds :
                AceSubmit(s, pct, o, id)
           \/ AceRegister
  BY <1>1, AceStepKeepsAceInv
<1>2. CASE \/ TickStart \/ AceSkip \/ AceBegin \/ AceKilled \/ AceScanFails \/ AceEnd
           \/ (\E e \in TrackA : TrackAScan(e)) \/ Resolve
           \/ (\E i \in orders, priced \in BOOLEAN : ExecuteSkip(i, priced)) \/ TickEnd
  <2>1. /\ aceOpen' = aceOpen /\ book' = book /\ batch' = batch
        /\ phase # "aceEntryLog" /\ phase' # "aceEntryLog"
    BY <1>2 DEF TickStart, AceSkip, AceBegin, AceKilled, AceScanFails, AceEnd, TrackAScan,
                Resolve, ExecuteSkip, TickEnd
  <2> QED BY <2>1, OtherEnginesKeepAceInv DEF AceHeld
<1>3. CASE \/ HotReload \/ (\E e \in Engines : KillTrip(e) \/ KillReset(e))
           \/ (\E c \in Coins : ExternalClose(c)) \/ UNCHANGED vars
  <2>1. UNCHANGED <<phase, aceOpen, book, batch, inflight>>
    BY <1>3 DEF HotReload, KillTrip, KillReset, ExternalClose, vars
  <2> QED BY <2>1, OtherEnginesKeepAceInv DEF AceHeld
<1>4. CASE \E p \in exits, o \in CloseOutcomes : TrackAClose(p, o)
  <2> PICK p \in exits, o \in CloseOutcomes : TrackAClose(p, o) BY <1>4
  <2>1. p.engine # Acevault
    BY TickConstants DEF TrackAClose, TickShape
  <2>2. OpenPositions(book', Acevault) = OpenPositions(book, Acevault)
    BY <2>1 DEF TrackAClose, OpenPositions
  <2>3. /\ aceOpen' = aceOpen /\ batch' = batch
        /\ phase = "trackAExits" /\ phase' = phase
    BY DEF TrackAClose
  <2> QED BY <2>2, <2>3, OtherEnginesKeepAceInv DEF AceHeld
<1>5. CASE \E i \in orders, o \in Outcomes, id \in FreeIds : ExecuteSubmit(i, o, id)
  <2> PICK i \in orders, o \in Outcomes, id \in FreeIds : ExecuteSubmit(i, o, id)
    BY <1>5
  <2>1. i.engine # Acevault BY TickConstants DEF TypeOK, Intent
  <2>2. \A p \in book' \ book : p.engine = i.engine
    BY DEF ExecuteSubmit, Identified, TrackASignal
  <2>3. book \subseteq book' /\ aceOpen' = aceOpen /\ batch' = batch
    BY DEF ExecuteSubmit
  <2>4. phase = "execute" /\ phase' = phase BY DEF ExecuteSubmit
  <2>5. OpenPositions(book', Acevault) = OpenPositions(book, Acevault)
    BY <2>1, <2>2, <2>3 DEF OpenPositions
  <2> QED BY <2>3, <2>4, <2>5, OtherEnginesKeepAceInv DEF AceHeld
<1>6. CASE Crash
  BY <1>6 DEF Crash, AceInv, AceMirrorsPortfolio, AceOnePerCoin, AceHeld, OpenPositions
<1>7. CASE RestartSynced \/ RestartBlank
  <2>1. /\ phase = "down" /\ phase' = "idle" /\ aceOpen' = aceOpen /\ batch' = batch
    BY <1>7 DEF RestartSynced, RestartBlank
  <2>2. aceOpen = {} /\ book = {} BY <2>1 DEF TickShape
  <2>3. \A p \in book' : p.engine # Acevault
    BY <1>7, <2>2 DEF RestartSynced, RestartBlank, RecoveredPosition, Acevault, Recovered
  <2>4. OpenPositions(book', Acevault) = {} BY <2>3 DEF OpenPositions
  <2>5. OpenPositions(book, Acevault) = {} BY <2>2 DEF OpenPositions
  <2> QED BY <2>1, <2>4, <2>5, OtherEnginesKeepAceInv DEF AceHeld
<1> QED
  BY <1>1, <1>2, <1>3, <1>4, <1>5, <1>6, <1>7 DEF Next, TickStep, Environment

\* It holds of the empty books.
LEMMA InitAceInv == Init => AceInv
BY DEF Init, AceInv, AceMirrorsPortfolio, AceOnePerCoin, AceHeld, OpenPositions

\* AceVault's two records agree and hold one position per coin, throughout.
THEOREM AceInvariant == Spec => []AceInv
<1>1. TypeOK /\ TickShape /\ AceInv /\ [Next]_vars => AceInv'
  BY NextAceInv
<1> QED BY <1>1, InitAceInv, ShapeInvariant, PTL DEF Spec

\* However many positions, coins and faults: AceVault's private record of its
\* positions is what PortfolioState holds for it.
THEOREM RecordsAgree == Spec => []AceMirrorsPortfolio
<1>1. AceInv => AceMirrorsPortfolio BY DEF AceInv
<1> QED BY <1>1, AceInvariant, PTL

\* And it never has two positions on one coin, although its duplicate gate
\* looks only at what is registered.
THEOREM OnePerCoin == Spec => []AceOnePerCoin
<1>1. AceInv => AceOnePerCoin BY DEF AceInv
<1> QED BY <1>1, AceInvariant, PTL

-----------------------------------------------------------------------------
\* Everything the process keeps is finite, at most one journal call of the
\* AceVault cycle is awaited.
TickFacts ==
  /\ IsFiniteSet(book) /\ IsFiniteSet(aceOpen)
  /\ IsFiniteSet(exits) /\ IsFiniteSet(orders)
  /\ IsFiniteSet(batch) /\ IsFiniteSet(intents)
  /\ phase \in {"aceEntryLog", "aceExitLog"} => \E p : inflight = {p}

\* What a function makes of a finite set is no larger than the set.
LEMMA ImageIsNoLarger ==
  ASSUME NEW S, IsFiniteSet(S), NEW f
  PROVE  /\ IsFiniteSet({f[x] : x \in S})
         /\ Cardinality({f[x] : x \in S}) <= Cardinality(S)
<1> DEFINE T == {f[x] : x \in S}
           g == [x \in S |-> f[x]]
<1>1. g \in Surjection(S, T)
  BY DEF Surjection
<1> HIDE DEF g, T
<1>2. IsFiniteSet(T) /\ Cardinality(T) <= Cardinality(S)
  BY <1>1, FS_Surjection
<1> QED BY <1>2 DEF T

\* A finite set with one element more is finite, and so is any part of it.
LEMMA FiniteParts ==
  ASSUME NEW S, IsFiniteSet(S)
  PROVE  /\ \A T \in SUBSET S : IsFiniteSet(T) /\ Cardinality(T) <= Cardinality(S)
         /\ \A x : IsFiniteSet(S \cup {x}) /\ Cardinality(S \cup {x}) <= Cardinality(S) + 1
         /\ \A x \in S : Cardinality(S \ {x}) = Cardinality(S) - 1
         /\ Cardinality(S) \in Nat
<1>1. \A T \in SUBSET S : IsFiniteSet(T) /\ Cardinality(T) <= Cardinality(S)
  BY FS_Subset
<1>2. \A x : IsFiniteSet(S \cup {x}) /\ Cardinality(S \cup {x}) <= Cardinality(S) + 1
  <2> TAKE x
  <2>1. Cardinality(S) \in Nat
    BY FS_CardinalityType
  <2>2. Cardinality(S \cup {x}) = IF x \in S THEN Cardinality(S) ELSE Cardinality(S) + 1
    BY FS_AddElement
  <2>3. IsFiniteSet(S \cup {x})
    BY FS_AddElement
  <2> QED BY <2>1, <2>2, <2>3
<1>3. \A x \in S : Cardinality(S \ {x}) = Cardinality(S) - 1
  BY FS_RemoveElement
<1> QED BY <1>1, <1>2, <1>3, FS_CardinalityType

\* The batch that one cycle admits: at most max_candidates signals, and none
\* at all unless AceVault's positions are below the capacity.
LEMMA AdmittedBatch ==
  ASSUME TypeOK, AceAdmit
  PROVE  /\ IsFiniteSet(batch') /\ Cardinality(batch') <= MaxCandidates
         /\ batch' # {} => Cardinality(OpenPositions(book, Acevault)) < aceCap
<1> PICK cands \in SUBSET Coins :
      /\ Cardinality(cands) <= MaxCandidates
      /\ \E size \in [cands -> AceSizes] :
           batch' = {s \in {AceSignal(c, SafetySized(size[c], safety)) : c \in cands} :
                       ShouldEnter(s.coin) /\ Approves(book, tripped, s)}
  BY DEF AceAdmit
<1> PICK size \in [cands -> AceSizes] :
      batch' = {s \in {AceSignal(c, SafetySized(size[c], safety)) : c \in cands} :
                  ShouldEnter(s.coin) /\ Approves(book, tripped, s)}
  OBVIOUS
<1> DEFINE f == [c \in cands |-> AceSignal(c, SafetySized(size[c], safety))]
           T == {f[c] : c \in cands}
<1>1. IsFiniteSet(cands)
  BY TickConstants, FS_Subset
<1>2. batch' \subseteq T
  OBVIOUS
<1>3. batch' # {} => Cardinality(OpenPositions(book, Acevault)) < aceCap
  BY DEF ShouldEnter
<1> HIDE DEF f
<1>4. IsFiniteSet(T) /\ Cardinality(T) <= Cardinality(cands)
  BY <1>1, ImageIsNoLarger
<1> HIDE DEF T
<1>5. IsFiniteSet(batch') /\ Cardinality(batch') <= Cardinality(T)
  BY <1>2, <1>4, FS_Subset
<1>6. /\ Cardinality(T) \in Nat /\ Cardinality(batch') \in Nat
      /\ Cardinality(cands) \in Nat /\ MaxCandidates \in Nat
  BY <1>1, <1>4, <1>5, FS_CardinalityType, TickConstants
<1>7. Cardinality(batch') <= MaxCandidates
  BY <1>4, <1>5, <1>6
<1> QED BY <1>3, <1>5, <1>7

\* Nothing has been collected yet.
LEMMA InitTickFacts == Init => TickFacts
BY FS_EmptySet, TickConstants DEF Init, TickFacts

\* Every step keeps the collections finite and awaits at most one journal call.
LEMMA NextTickFacts ==
  ASSUME TypeOK, TickFacts, [Next]_vars
  PROVE  TickFacts'
<1> USE DEF tickVars, bookVars, cfgVars
<1>0. IsFiniteSet({})
  BY FS_EmptySet
<1>1. CASE TickStart
  <2>1. exits' \subseteq book
    BY <1>1 DEF TickStart
  <2>2. IsFiniteSet(exits')
    BY <2>1, FS_Subset DEF TickFacts
  <2> QED BY <1>1, <2>2 DEF TickStart, TickFacts
<1>2. CASE \E p \in exits, o \in CloseOutcomes : TrackAClose(p, o)
  <2>1. book' \subseteq book /\ exits' \subseteq exits
    BY <1>2 DEF TrackAClose
  <2>2. IsFiniteSet(book') /\ IsFiniteSet(exits')
    BY <2>1, FS_Subset DEF TickFacts
  <2> QED BY <1>2, <2>2 DEF TrackAClose, TickFacts
<1>3. CASE AceSkip BY <1>3 DEF AceSkip, TickFacts
<1>4. CASE AceBegin
  <2>1. IsFiniteSet(exits')
    BY <1>4, FS_Subset DEF AceBegin, TickFacts
  <2> QED BY <1>4, <2>1 DEF AceBegin, TickFacts
<1>5. CASE \E p \in exits, o \in CloseOutcomes : AceClose(p, o)
  <2>1. exits' \subseteq exits
    BY <1>5 DEF AceClose
  <2>2. IsFiniteSet(exits')
    BY <2>1, FS_Subset DEF TickFacts
  <2> QED BY <1>5, <2>2 DEF AceClose, TickFacts
<1>6. CASE AceDropClosed
  <2>1. IsFiniteSet(book') /\ IsFiniteSet(aceOpen')
    BY <1>6, FS_Subset DEF AceDropClosed, TickFacts
  <2> QED BY <1>6, <2>1 DEF AceDropClosed, TickFacts
<1>7. CASE AceKilled \/ AceScanFails
  BY <1>7 DEF AceKilled, AceScanFails, TickFacts
<1>8. CASE AceAdmit
  BY <1>8, AdmittedBatch DEF AceAdmit, TickFacts
<1>9. CASE \E s \in batch, pct \in FathomPcts, o \in Outcomes, id \in FreeIds :
             AceSubmit(s, pct, o, id)
  <2> PICK s \in batch, pct \in FathomPcts, o \in Outcomes, id \in FreeIds :
        AceSubmit(s, pct, o, id) BY <1>9
  <2>1. IsFiniteSet(batch')
    BY FS_Subset DEF AceSubmit, TickFacts
  <2>2. CASE Raises(o)
    BY <2>1, <2>2 DEF AceSubmit, TickFacts
  <2>3. CASE ~Raises(o)
    <3>1. \E p : inflight' = {p}
      BY <2>3, Submitted
    <3>2. UNCHANGED <<book, aceOpen, exits, orders, intents, aceCap>>
      BY DEF AceSubmit
    <3> QED BY <2>1, <3>1, <3>2 DEF TickFacts
  <2> QED BY <2>2, <2>3
<1>10. CASE AceRegister
  <2> PICK p : inflight = {p}
    BY <1>10 DEF AceRegister, TickFacts
  <2>1. book' = book \cup {p} /\ aceOpen' = aceOpen \cup {p}
    BY <1>10 DEF AceRegister
  <2>2. IsFiniteSet(book') /\ IsFiniteSet(aceOpen')
    BY <2>1, FiniteParts DEF TickFacts
  <2> QED BY <1>10, <2>2 DEF AceRegister, TickFacts
<1>11. CASE AceEnd BY <1>11 DEF AceEnd, TickFacts
<1>12. CASE \E e \in TrackA : TrackAScan(e)
  <2> PICK e \in TrackA : TrackAScan(e) BY <1>12
  <2> PICK cs \in SUBSET Coins : \E side \in [cs -> Sides] :
        intents' = intents \cup {[engine |-> e, coin |-> c, side |-> side[c]] : c \in cs}
    BY DEF TrackAScan
  <2> PICK side \in [cs -> Sides] :
        intents' = intents \cup {[engine |-> e, coin |-> c, side |-> side[c]] : c \in cs}
    OBVIOUS
  <2> DEFINE f == [c \in cs |-> [engine |-> e, coin |-> c, side |-> side[c]]]
             T == {f[c] : c \in cs}
  <2>1. intents' = intents \cup T
    OBVIOUS
  <2>2. IsFiniteSet(cs)
    BY TickConstants, FS_Subset
  <2> HIDE DEF f
  <2>3. IsFiniteSet(T)
    BY <2>2, ImageIsNoLarger
  <2> HIDE DEF T
  <2>4. IsFiniteSet(intents')
    <3>1. IsFiniteSet(intents)
      BY DEF TickFacts
    <3> QED BY ONLY <2>1, <2>3, <3>1, FS_Union
  <2>5. UNCHANGED <<phase, book, aceOpen, exits, orders, batch, inflight, aceCap>>
    BY DEF TrackAScan
  <2> QED BY <2>4, <2>5 DEF TickFacts
<1>13. CASE Resolve
  <2>1. orders' \subseteq intents
    BY <1>13 DEF Resolve, ApplyConflictPolicy
  <2>2. IsFiniteSet(orders')
    BY <2>1, FS_Subset DEF TickFacts
  <2> QED BY <1>13, <2>2 DEF Resolve, TickFacts
<1>14. CASE \E i \in orders, priced \in BOOLEAN : ExecuteSkip(i, priced)
  <2>1. IsFiniteSet(orders')
    BY <1>14, FS_Subset DEF ExecuteSkip, TickFacts
  <2> QED BY <1>14, <2>1 DEF ExecuteSkip, TickFacts
<1>15. CASE \E i \in orders, o \in Outcomes, id \in FreeIds : ExecuteSubmit(i, o, id)
  <2> PICK i \in orders, o \in Outcomes, id \in FreeIds : ExecuteSubmit(i, o, id)
    BY <1>15
  <2>1. IsFiniteSet(orders')
    BY FS_Subset DEF ExecuteSubmit, TickFacts
  <2>2. book' = book \/ \E p : book' = book \cup {p}
    BY DEF ExecuteSubmit
  <2>3. IsFiniteSet(book')
    BY <2>2, FiniteParts DEF TickFacts
  <2>4. UNCHANGED <<phase, aceOpen, exits, batch, inflight, intents, aceCap>>
    BY DEF ExecuteSubmit
  <2> QED BY <2>1, <2>3, <2>4 DEF TickFacts
<1>16. CASE TickEnd BY <1>0, <1>16 DEF TickEnd, TickFacts
<1>17. CASE HotReload BY <1>17 DEF HotReload, TickFacts
<1>18. CASE \E e \in Engines : KillTrip(e) \/ KillReset(e)
  BY <1>18 DEF KillTrip, KillReset, TickFacts
<1>19. CASE \E c \in Coins : ExternalClose(c) BY <1>19 DEF ExternalClose, TickFacts
<1>20. CASE Crash BY <1>0, <1>20 DEF Crash, TickFacts
<1>21. CASE RestartSynced
  <2> PICK id \in [HeldCoins -> Ids] :
        book' = {RecoveredPosition(c, id[c]) : c \in HeldCoins}
    BY <1>21 DEF RestartSynced
  <2> DEFINE f == [c \in HeldCoins |-> RecoveredPosition(c, id[c])]
             T == {f[c] : c \in HeldCoins}
  <2>1. book' = T
    OBVIOUS
  <2>2. IsFiniteSet(HeldCoins)
    BY TickConstants, FS_Subset DEF HeldCoins
  <2> HIDE DEF f
  <2>3. IsFiniteSet(T)
    BY <2>2, ImageIsNoLarger
  <2> HIDE DEF T
  <2>4. UNCHANGED <<aceOpen, exits, orders, batch, inflight, intents, aceCap>> /\ phase' = "idle"
    BY <1>21 DEF RestartSynced
  <2> QED BY <2>1, <2>3, <2>4 DEF TickFacts
<1>22. CASE RestartBlank BY <1>22 DEF RestartBlank, TickFacts
<1>23. CASE UNCHANGED vars BY <1>23 DEF vars, TickFacts
<1> QED
  BY <1>1, <1>2, <1>3, <1>4, <1>5, <1>6, <1>7, <1>8, <1>9, <1>10, <1>11, <1>12, <1>13,
     <1>14, <1>15, <1>16, <1>17, <1>18, <1>19, <1>20, <1>21, <1>22, <1>23
  DEF Next, TickStep, Environment

\* What the process keeps is finite at every moment, for every universe.
THEOREM FactsInvariant == Spec => []TickFacts
<1>1. TypeOK /\ TickFacts /\ [Next]_vars => TickFacts'
  BY NextTickFacts
<1> QED BY <1>1, InitTickFacts, TypeCorrect, PTL DEF Spec

-----------------------------------------------------------------------------
\* What AceVault holds is finite, the position in flight included.
LEMMA AceHeldFinite ==
  ASSUME TickFacts
  PROVE  IsFiniteSet(AceHeld)
BY FiniteParts DEF AceHeld, TickFacts

\* A step after which AceVault holds no more, and has no more candidates.
LEMMA NoMoreHeld ==
  ASSUME TypeOK, TickFacts, AceOvershootBounded, admittedAt' = admittedAt,
         AceHeld' \subseteq AceHeld, batch' \subseteq batch
  PROVE  AceOvershootBounded'
<1>1. IsFiniteSet(AceHeld) /\ IsFiniteSet(batch)
  BY AceHeldFinite DEF TickFacts
<1>2. Cardinality(AceHeld') <= Cardinality(AceHeld) /\ IsFiniteSet(AceHeld')
  BY <1>1, FS_Subset
<1>3. Cardinality(batch') <= Cardinality(batch) /\ IsFiniteSet(batch')
  BY <1>1, FS_Subset
<1>4. /\ Cardinality(AceHeld) \in Nat /\ Cardinality(batch) \in Nat
      /\ Cardinality(AceHeld') \in Nat /\ Cardinality(batch') \in Nat
      /\ admittedAt \in Nat /\ MaxCandidates \in Nat
  BY <1>1, <1>2, <1>3, FS_CardinalityType, TickConstants DEF TypeOK
<1> QED BY <1>2, <1>3, <1>4 DEF AceOvershootBounded

\* Nothing is held yet.
LEMMA OvershootAtStart == Init => AceOvershootBounded
<1> SUFFICES ASSUME Init PROVE AceOvershootBounded
  OBVIOUS
<1>1. Cardinality(AceHeld) = 0 /\ Cardinality(batch) = 0
  BY FS_EmptySet DEF Init, AceHeld
<1>2. admittedAt \in Nat \ {0} /\ MaxCandidates \in Nat
  BY TickConstants DEF Init
<1> QED BY <1>1, <1>2 DEF AceOvershootBounded

\* Admission starts from below the capacity; a submission takes a signal out
\* of the batch for the position it puts in flight; nothing else adds to both.
LEMMA NextOvershoot ==
  ASSUME TypeOK, TickShape, TickFacts, AceInv, AceOvershootBounded, [Next]_vars
  PROVE  AceOvershootBounded'
<1> USE DEF tickVars, bookVars, cfgVars
<1>1. CASE \/ TickStart \/ AceSkip \/ AceBegin \/ AceKilled \/ AceScanFails \/ AceEnd
           \/ (\E e \in TrackA : TrackAScan(e)) \/ Resolve
           \/ (\E i \in orders, priced \in BOOLEAN : ExecuteSkip(i, priced)) \/ TickEnd
           \/ (\E p \in exits, o \in CloseOutcomes : TrackAClose(p, o))
           \/ (\E p \in exits, o \in CloseOutcomes : AceClose(p, o))
           \/ (\E i \in orders, o \in Outcomes, id \in FreeIds : ExecuteSubmit(i, o, id))
           \/ AceDropClosed \/ RestartSynced \/ RestartBlank
  <2>1. /\ aceOpen' \subseteq aceOpen /\ batch' = batch /\ admittedAt' = admittedAt
        /\ phase # "aceEntryLog" /\ phase' # "aceEntryLog"
    BY <1>1 DEF TickStart, AceSkip, AceBegin, AceKilled, AceScanFails, AceEnd, TrackAScan,
                Resolve, ExecuteSkip, TickEnd, TrackAClose, AceClose, ExecuteSubmit, AceDropClosed,
                RestartSynced, RestartBlank
  <2> QED BY <2>1, NoMoreHeld DEF AceHeld
<1>2. CASE \/ HotReload \/ (\E e \in Engines : KillTrip(e) \/ KillReset(e))
           \/ (\E c \in Coins : ExternalClose(c)) \/ UNCHANGED vars
  <2>1. UNCHANGED <<phase, aceOpen, batch, inflight, admittedAt>>
    BY <1>2 DEF HotReload, KillTrip, KillReset, ExternalClose, vars
  <2> QED BY <2>1, NoMoreHeld DEF AceHeld
<1>3. CASE Crash
  <2>1. AceHeld' = {} /\ batch' = {} /\ admittedAt' = admittedAt
    BY <1>3 DEF Crash, AceHeld
  <2> QED BY <2>1, NoMoreHeld
<1>4. CASE AceRegister
  <2>1. AceHeld' = AceHeld /\ batch' = batch /\ admittedAt' = admittedAt
    BY <1>4 DEF AceRegister, AceHeld
  <2> QED BY <2>1, NoMoreHeld
<1>5. CASE AceAdmit
  <2>1. AceHeld' = aceOpen /\ AceHeld = aceOpen
    BY <1>5 DEF AceAdmit, AceHeld
  <2>2. CASE batch' = {}
    <3>1. admittedAt' = admittedAt
      BY <1>5, <2>2 DEF AceAdmit
    <3> QED BY <2>1, <2>2, <3>1, NoMoreHeld
  <2>3. CASE batch' # {}
    <3>1. Cardinality(aceOpen) < aceCap
      BY <1>5, <2>3, AdmittedBatch DEF AceInv, AceMirrorsPortfolio
    <3>2. IsFiniteSet(batch') /\ Cardinality(batch') <= MaxCandidates
      BY <1>5, AdmittedBatch
    <3>3. /\ Cardinality(aceOpen) \in Nat /\ Cardinality(batch') \in Nat
          /\ aceCap \in Nat /\ MaxCandidates \in Nat
      BY <3>2, FS_CardinalityType, TickConstants DEF TypeOK, TickFacts
    <3>4. Cardinality(aceOpen) + Cardinality(batch') <= aceCap - 1 + MaxCandidates
      BY <3>1, <3>2, <3>3
    <3>5. admittedAt' = aceCap
      BY <1>5, <2>3 DEF AceAdmit
    <3> QED BY <2>1, <3>4, <3>5 DEF AceOvershootBounded
  <2> QED BY <2>2, <2>3
<1>6. CASE \E s \in batch, pct \in FathomPcts, o \in Outcomes, id \in FreeIds :
             AceSubmit(s, pct, o, id)
  <2> PICK s \in batch, pct \in FathomPcts, o \in Outcomes, id \in FreeIds :
        AceSubmit(s, pct, o, id) BY <1>6
  <2>1. /\ phase = "fathom" /\ batch' = batch \ {s} /\ aceOpen' = aceOpen
        /\ admittedAt' = admittedAt
    BY DEF AceSubmit
  <2>2. CASE Raises(o)
    <3>1. AceHeld' = AceHeld
      BY <2>1, <2>2 DEF AceSubmit, AceHeld
    <3> QED BY <2>1, <3>1, NoMoreHeld
  <2>3. CASE ~Raises(o)
    <3> PICK p : inflight' = {p}
      BY <2>3, Submitted
    <3>1. AceHeld' = aceOpen \cup {p} /\ AceHeld = aceOpen
      BY <2>1, <2>3 DEF AceSubmit, AceHeld
    <3>2. IsFiniteSet(aceOpen) /\ IsFiniteSet(batch)
      BY DEF TickFacts
    <3>3. Cardinality(aceOpen \cup {p}) <= Cardinality(aceOpen) + 1
      BY <3>2, FiniteParts
    <3>4. Cardinality(batch \ {s}) = Cardinality(batch) - 1
      BY <3>2, FiniteParts
    <3>5. /\ Cardinality(aceOpen \cup {p}) \in Nat /\ Cardinality(aceOpen) \in Nat
          /\ Cardinality(batch) \in Nat /\ admittedAt \in Nat /\ MaxCandidates \in Nat
      BY <3>2, FS_AddElement, FS_CardinalityType, TickConstants DEF TypeOK
    <3> QED BY <2>1, <3>1, <3>3, <3>4, <3>5 DEF AceOvershootBounded
  <2> QED BY <2>2, <2>3
<1> QED
  BY <1>1, <1>2, <1>3, <1>4, <1>5, <1>6 DEF Next, TickStep, Environment

\* For every capacity and batch size, and however often the retro loop and the
\* operators lower and raise the capacity: AceVault passes the capacity of its
\* last admission by less than one batch.
THEOREM OvershootIsBounded == Spec => []AceOvershootBounded
<1>1. /\ TypeOK /\ TickShape /\ TickFacts /\ AceInv /\ AceOvershootBounded
      /\ [Next]_vars
      => AceOvershootBounded'
  BY NextOvershoot
<1> QED BY <1>1, OvershootAtStart, ShapeInvariant, FactsInvariant, AceInvariant, PTL
        DEF Spec

-----------------------------------------------------------------------------
\* get_gross_exposure sums the sizes of the positions it is given.
LEMMA GrossIsTotal ==
  ASSUME NEW S
  PROVE  GrossExposure(S) = Total([p \in S |-> p.size], S)
<1> DEFINE F == [p \in S |-> p.size]
           G(it) == [s \in SUBSET S |-> IF s = {} THEN 0
                       ELSE LET x == CHOOSE x \in s : TRUE IN x.size + it[s \ {x}]]
<1>1. ASSUME NEW it PROVE G(it) = Recursion(F, S, it)
  <2>1. \A s \in SUBSET S : s # {} => (CHOOSE x \in s : TRUE) \in S
    OBVIOUS
  <2>2. \A s \in SUBSET S : G(it)[s] = Recursion(F, S, it)[s]
    BY <2>1 DEF Recursion
  <2> QED BY <2>2 DEF Recursion
<1>2. GrossExposure(S) = (CHOOSE it : it = G(it))[S]
  BY DEF GrossExposure, MapThenSumSet, MapThenFoldSet
<1> HIDE DEF G, F
<1>3. (CHOOSE it : it = G(it)) = (CHOOSE it : it = Recursion(F, S, it))
  BY <1>1
<1> QED BY <1>2, <1>3, TotalIsSolution DEF F, Solution

\* A position more adds its size to the gross exposure.
LEMMA GrossWith ==
  ASSUME NEW S \in SUBSET Position, IsFiniteSet(S), NEW p \in Position, p \notin S
  PROVE  /\ GrossExposure(S \cup {p}) = GrossExposure(S) + p.size
         /\ GrossExposure(S) \in Int
<1> DEFINE F == [q \in S |-> q.size]
           G == [q \in S \cup {p} |-> q.size]
<1>1. \A q \in S \cup {p} : G[q] \in Int /\ G[p] = p.size
  BY DEF Position
<1>2. \A q \in S : F[q] = G[q] /\ F[q] \in Int
  BY DEF Position
<1>3. GrossExposure(S \cup {p}) = Total(G, S \cup {p}) /\ GrossExposure(S) = Total(F, S)
  BY GrossIsTotal
<1> HIDE DEF F, G
<1>4. Total(G, S \cup {p}) = Total(G, S) + G[p]
  BY <1>1, SumWith
<1>5. Total(F, S) = Total(G, S) /\ Total(F, S) \in Int
  BY <1>2, SumOfEquals, SumType
<1> QED BY <1>1, <1>3, <1>4, <1>5

\* A position more is one position more on its side.
LEMMA SideCountWith ==
  ASSUME NEW S, IsFiniteSet(S), NEW p, p \notin S
  PROVE  /\ SideCount(S \cup {p}, p.side) = SideCount(S, p.side) + 1
         /\ SideCount(S, p.side) \in Nat
<1> DEFINE T == {q \in S : q.side = p.side}
<1>1. IsFiniteSet(T) /\ p \notin T
  BY FS_Subset
<1>2. {q \in S \cup {p} : q.side = p.side} = T \cup {p}
  OBVIOUS
<1> HIDE DEF T
<1>3. Cardinality(T \cup {p}) = Cardinality(T) + 1 /\ Cardinality(T) \in Nat
  BY <1>1, FS_AddElement, FS_CardinalityType
<1> QED BY <1>2, <1>3 DEF SideCount, T

\* What the executor registers is approved against the book it is added to,
\* with no await between the two.
LEMMA SubmittedWithinLimits ==
  ASSUME TypeOK, TickFacts, NEW i \in orders, NEW o \in Outcomes, NEW id \in FreeIds,
         ExecuteSubmit(i, o, id), NEW p \in book' \ book
  PROVE  /\ GrossExposure(book') < GrossCap
         /\ SideCount(book', p.side) <= SideLimit(p.side)
         /\ p.engine \notin tripped
<1> DEFINE s == TrackASignal(i)
           q == Identified(s, s.size, id)
<1>1. /\ Approves(book, tripped, q)
      /\ book' = IF Accepted(o) THEN book \cup {q} ELSE book
  BY DEF ExecuteSubmit
<1>2. q \in Position
  <2>1. i.engine \in Engines /\ i.coin \in Coins /\ i.side \in Sides /\ id \in Ids
    BY DEF TypeOK, Intent, Engines, FreeIds
  <2>2. SafetySized(TrackASize, safety) \in Nat
    BY TickConstants, PercentOfSize DEF TypeOK, SafetySized
  <2> QED BY <2>1, <2>2, IdentifiedType DEF TrackASignal
<1> HIDE DEF q
<1>3. p = q /\ q \notin book /\ book' = book \cup {q}
  BY <1>1
<1>4. book \in SUBSET Position /\ IsFiniteSet(book)
  BY DEF TypeOK, TickFacts
<1>5. GrossExposure(book') < GrossCap
  <2>1. GrossExposure(book) + q.size < GrossCap
    BY <1>1 DEF Approves
  <2> QED BY <2>1, <1>2, <1>3, <1>4, GrossWith
<1>6. SideCount(book', q.side) <= SideLimit(q.side)
  <2>1. ~(SideCount(book, q.side) >= SideLimit(q.side))
    BY <1>1 DEF Approves, CorrelatedOverloaded
  <2>2. SideCount(book', q.side) = SideCount(book, q.side) + 1 /\ SideCount(book, q.side) \in Nat
    BY <1>3, <1>4, SideCountWith
  <2>3. SideLimit(q.side) \in Nat
    BY RiskLimits DEF SideLimit
  <2> QED BY <2>1, <2>2, <2>3
<1>7. q.engine \notin tripped
  BY <1>1 DEF Approves
<1> QED BY <1>3, <1>5, <1>6, <1>7

\* Only the executor adds a position of a Track A engine to the book.
LEMMA OnlyTheExecutorOpens ==
  ASSUME TypeOK, TickShape, [Next]_vars, NEW p \in book' \ book, p.engine \in TrackA
  PROVE  \E i \in orders, o \in Outcomes, id \in FreeIds : ExecuteSubmit(i, o, id)
<1> USE DEF tickVars, bookVars
<1>1. ~ \/ TickStart \/ AceSkip \/ AceBegin \/ AceDropClosed \/ AceKilled \/ AceScanFails \/ AceAdmit
        \/ AceEnd \/ Resolve \/ TickEnd
  BY DEF TickStart, AceSkip, AceBegin, AceDropClosed, AceKilled, AceScanFails, AceAdmit, AceEnd, Resolve,
         TickEnd
<1>2. ~ \/ \E q \in exits, o \in CloseOutcomes : TrackAClose(q, o)
        \/ \E q \in exits, o \in CloseOutcomes : AceClose(q, o)
        \/ \E s \in batch, pct \in FathomPcts, o \in Outcomes, id \in FreeIds :
             AceSubmit(s, pct, o, id)
        \/ \E e \in TrackA : TrackAScan(e)
        \/ \E i \in orders, priced \in BOOLEAN : ExecuteSkip(i, priced)
  BY DEF TrackAClose, AceClose, AceSubmit, TrackAScan, ExecuteSkip
<1>3. ~ \/ HotReload \/ Crash \/ RestartBlank
        \/ \E e \in Engines : KillTrip(e) \/ KillReset(e)
        \/ \E c \in Coins : ExternalClose(c)
  BY DEF HotReload, Crash, RestartBlank, KillTrip, KillReset, ExternalClose
<1>4. ~AceRegister
  BY TickConstants DEF AceRegister, TickShape
<1>5. ~RestartSynced
  BY TickConstants DEF RestartSynced, RecoveredPosition
<1>6. ~UNCHANGED vars
  BY DEF vars
<1> QED BY <1>1, <1>2, <1>3, <1>4, <1>5, <1>6 DEF Next, TickStep, Environment

\* For every configuration: a Track A entry respects the gross and correlated
\* limits and the kill switch in the book it enters, whatever AceVault, the
\* venue or another intent did earlier in the tick.
THEOREM TrackAEntriesAreWithinLimits == Spec => TrackAOpensWithinLimits
<1> DEFINE Within == \A p \in book' \ book : p.engine \in TrackA =>
                       /\ GrossExposure(book') < GrossCap
                       /\ SideCount(book', p.side) <= SideLimit(p.side)
                       /\ p.engine \notin tripped
<1>1. TypeOK /\ TickShape /\ TickFacts /\ [Next]_vars => Within
  BY OnlyTheExecutorOpens, SubmittedWithinLimits
<1>2. Spec => [][Within]_vars
  <2>1. TypeOK /\ TickShape /\ TickFacts /\ [Next]_vars => [Within]_vars
    BY <1>1
  <2> HIDE DEF Within
  <2> QED BY <2>1, ShapeInvariant, FactsInvariant, PTL DEF Spec
<1> QED BY <1>2 DEF TrackAOpensWithinLimits

-----------------------------------------------------------------------------
\* A tick moves on: one turn taken in this stage, or to a later stage that
\* leaves nobody behind in this one.
MovesOn ==
  \/ Stage' < Stage /\ Left = 0
  \/ Stage' = Stage /\ Left - Left' \in {1, 2}

\* Whatever is waiting in a tick is a finite number of things, and where no
\* journal call is awaited nothing is in flight.
LEMMA Counted ==
  ASSUME TickShape, TickFacts
  PROVE  /\ IsFiniteSet(Waiting) /\ Cardinality(Waiting) \in Nat
         /\ phase \notin {"aceEntryLog", "aceExitLog"} => Cardinality(inflight) = 0
         /\ phase \in {"aceEntryLog", "aceExitLog"} => Cardinality(inflight) = 1
<1>1. IsFiniteSet(TrackA \ scanned)
  BY TickConstants, FS_Subset
<1>2. phase \notin {"aceEntryLog", "aceExitLog"} => Cardinality(inflight) = 0
  BY FS_EmptySet DEF TickShape
<1>3. phase \in {"aceEntryLog", "aceExitLog"} => Cardinality(inflight) = 1
  BY FS_Singleton DEF TickFacts
<1>4. IsFiniteSet(Waiting)
  BY <1>1 DEF Waiting, TickFacts
<1> QED BY <1>2, <1>3, <1>4, FS_CardinalityType

\* One of those waiting has had a turn; at most one journal call is awaited
\* for it, and none was awaited before.
LEMMA TurnTaken ==
  ASSUME TickShape, TickFacts, TickShape', TickFacts',
         phase \notin {"aceEntryLog", "aceExitLog"}, Stage' = Stage,
         NEW x \in Waiting, Waiting' = Waiting \ {x}
  PROVE  MovesOn
<1>1. /\ IsFiniteSet(Waiting) /\ Cardinality(Waiting) \in Nat
      /\ Cardinality(inflight) = 0
  BY Counted
<1>2. Cardinality(Waiting') = Cardinality(Waiting) - 1
  BY <1>1, FiniteParts
<1>3. Cardinality(inflight') \in {0, 1}
  <2>1. CASE phase' \in {"aceEntryLog", "aceExitLog"}
    BY <2>1, FS_Singleton DEF TickFacts
  <2>2. CASE phase' \notin {"aceEntryLog", "aceExitLog"}
    BY <2>2, FS_EmptySet DEF TickShape
  <2> QED BY <2>1, <2>2
<1>4. Left = 2 * Cardinality(Waiting)
  BY <1>1 DEF Left
<1>5. Left' = 2 * (Cardinality(Waiting) - 1) + Cardinality(inflight')
  BY <1>2 DEF Left
<1> QED BY <1>1, <1>3, <1>4, <1>5 DEF MovesOn

\* A journal call that was awaited has been answered.
LEMMA CallAnswered ==
  ASSUME TickShape, TickFacts,
         phase \in {"aceEntryLog", "aceExitLog"}, Stage' = Stage,
         Waiting' = Waiting, inflight' = {}
  PROVE  MovesOn
<1>1. Cardinality(Waiting) \in Nat /\ Cardinality(inflight) = 1
  BY Counted
<1>2. Cardinality(inflight') = 0
  BY FS_EmptySet
<1>3. Left' = 2 * Cardinality(Waiting) + Cardinality(inflight')
  BY DEF Left
<1> QED BY <1>1, <1>2, <1>3 DEF MovesOn, Left

\* Nobody waits where a stage is left.
LEMMA NobodyLeft ==
  ASSUME TickShape, TickFacts, phase \notin {"aceEntryLog", "aceExitLog"},
         Waiting = {}, Stage' < Stage
  PROVE  MovesOn
<1>1. Left = 0
  BY Counted, FS_EmptySet DEF Left
<1> QED BY <1>1 DEF MovesOn

\* The steps of the exits and of the AceVault cycle.
LEMMA AceStepsMoveOn ==
  ASSUME TypeOK, TickShape, TickFacts, TickFacts', TickShape',
         \/ \E p \in exits, o \in CloseOutcomes : TrackAClose(p, o)
         \/ AceSkip \/ AceBegin
         \/ \E p \in exits, o \in CloseOutcomes : AceClose(p, o)
         \/ AceDropClosed \/ AceKilled \/ AceScanFails \/ AceAdmit
         \/ \E s \in batch, pct \in FathomPcts, o \in Outcomes, id \in FreeIds :
              AceSubmit(s, pct, o, id)
         \/ AceRegister \/ AceEnd
  PROVE  MovesOn
<1>1. CASE \E p \in exits, o \in CloseOutcomes : TrackAClose(p, o)
  <2> PICK p \in exits, o \in CloseOutcomes : TrackAClose(p, o) BY <1>1
  <2>1. phase = "trackAExits" /\ phase' = "trackAExits" /\ exits' = exits \ {p}
    BY DEF TrackAClose
  <2> QED BY <2>1, TurnTaken DEF Waiting, Stage
<1>2. CASE AceSkip \/ AceBegin
  BY <1>2, NobodyLeft DEF AceSkip, AceBegin, Waiting, Stage
<1>3. CASE \E p \in exits, o \in CloseOutcomes : AceClose(p, o)
  <2> PICK p \in exits, o \in CloseOutcomes : AceClose(p, o) BY <1>3
  <2>1. phase = "aceExits" /\ phase' = "aceExitLog" /\ exits' = exits \ {p}
    BY DEF AceClose
  <2> QED BY <2>1, TurnTaken DEF Waiting, Stage
<1>4. CASE AceDropClosed
  <2>1. /\ phase = "aceExitLog" /\ phase' = "aceExits"
        /\ exits' = exits /\ inflight' = {}
    BY <1>4 DEF AceDropClosed
  <2> QED BY <2>1, CallAnswered DEF Waiting, Stage
<1>5. CASE AceKilled \/ AceScanFails \/ AceAdmit
  <2>1. phase = "aceExits" /\ exits = {} /\ phase' \in {"trackAScan", "fathom"}
    BY <1>5 DEF AceKilled, AceScanFails, AceAdmit
  <2> QED BY <2>1, NobodyLeft DEF Waiting, Stage
<1>6. CASE \E s \in batch, pct \in FathomPcts, o \in Outcomes, id \in FreeIds :
             AceSubmit(s, pct, o, id)
  <2> PICK s \in batch, pct \in FathomPcts, o \in Outcomes, id \in FreeIds :
        AceSubmit(s, pct, o, id) BY <1>6
  <2>1. /\ phase = "fathom" /\ batch' = batch \ {s}
        /\ phase' \in {"fathom", "aceEntryLog"}
    BY DEF AceSubmit
  <2> QED BY <2>1, TurnTaken DEF Waiting, Stage
<1>7. CASE AceRegister
  <2>1. /\ phase = "aceEntryLog" /\ phase' = "fathom"
        /\ batch' = batch /\ inflight' = {}
    BY <1>7 DEF AceRegister
  <2> QED BY <2>1, CallAnswered DEF Waiting, Stage
<1>8. CASE AceEnd
  BY <1>8, NobodyLeft DEF AceEnd, Waiting, Stage
<1> QED
  BY <1>1, <1>2, <1>3, <1>4, <1>5, <1>6, <1>7, <1>8

\* The steps of the Track A strategies and of their executor.
LEMMA TrackAStepsMoveOn ==
  ASSUME TypeOK, TickShape, TickFacts, TickFacts', TickShape',
         \/ \E e \in TrackA : TrackAScan(e)
         \/ Resolve
         \/ \E i \in orders, priced \in BOOLEAN : ExecuteSkip(i, priced)
         \/ \E i \in orders, o \in Outcomes, id \in FreeIds : ExecuteSubmit(i, o, id)
         \/ TickEnd
  PROVE  MovesOn
<1>1. CASE \E e \in TrackA : TrackAScan(e)
  <2> PICK e \in TrackA : TrackAScan(e) BY <1>1
  <2>1. /\ phase = "trackAScan" /\ phase' = "trackAScan"
        /\ e \in TrackA \ scanned /\ scanned' = scanned \cup {e}
    BY DEF TrackAScan, NextToScan
  <2>2. TrackA \ scanned' = (TrackA \ scanned) \ {e}
    BY <2>1
  <2> QED BY <2>1, <2>2, TurnTaken DEF Waiting, Stage
<1>2. CASE Resolve
  BY <1>2, NobodyLeft DEF Resolve, Waiting, Stage
<1>3. ASSUME NEW i \in orders, orders' = orders \ {i}, phase = "execute", phase' = "execute"
      PROVE  MovesOn
  BY <1>3, TurnTaken DEF Waiting, Stage
<1>4. CASE \E i \in orders, priced \in BOOLEAN : ExecuteSkip(i, priced)
  BY <1>3, <1>4 DEF ExecuteSkip
<1>5. CASE \E i \in orders, o \in Outcomes, id \in FreeIds : ExecuteSubmit(i, o, id)
  BY <1>3, <1>5 DEF ExecuteSubmit
<1>6. CASE TickEnd
  BY <1>6, NobodyLeft DEF TickEnd, Waiting, Stage
<1> QED
  BY <1>1, <1>2, <1>4, <1>5, <1>6

\* For every number of positions, candidates, strategies and intents: each
\* step of a tick under way takes one turn and the tick passes nobody over, so
\* no answer of the venue, the journal or the model, and no exception, can
\* stop the others or keep a tick going round.
THEOREM TicksAdvance == Spec => TickAdvances
<1> DEFINE Advance == phase \notin {"idle", "down"} /\ phase' # "down" =>
                        \/ Stage' < Stage /\ Left = 0
                        \/ Stage' = Stage /\ Left - Left' \in {1, 2}
<1>1. ASSUME TypeOK, TickShape, TickFacts, TickShape', TickFacts', [Next]_vars
      PROVE  [Advance]_tickVars
  <2> SUFFICES ASSUME phase \notin {"idle", "down"}, phase' # "down", ~UNCHANGED tickVars
               PROVE  MovesOn
    BY DEF MovesOn
  <2>1. Next
    BY <1>1 DEF vars
  <2>2. ~Environment
    BY DEF Environment, HotReload, KillTrip, KillReset, ExternalClose, Crash,
           RestartSynced, RestartBlank
  <2>3. ~TickStart
    BY DEF TickStart
  <2> QED BY <1>1, <2>1, <2>2, <2>3, AceStepsMoveOn, TrackAStepsMoveOn DEF Next, TickStep
<1>2. Spec => [][Advance]_tickVars
  <2> HIDE DEF Advance
  <2>1. /\ TypeOK /\ TickShape /\ TickFacts
        /\ TickShape' /\ TickFacts' /\ [Next]_vars
        => [Advance]_tickVars
    BY <1>1
  <2> QED BY <2>1, ShapeInvariant, FactsInvariant, PTL DEF Spec
<1> QED BY <1>2 DEF TickAdvances

-----------------------------------------------------------------------------
\* The positions of a set on one coin, and that what the venue shows there is
\* their net but for the cents cut off each of them.
PositionsOn(B, c) == {p \in B : p.coin = c}
Nets(B, v, c) ==
  LET cut == Cardinality(PositionsOn(B, c)) * (Dollar - 1)
  IN v - NetOn(B, c) \in -cut..cut

\* The inductive form of BookMatchesVenue.
Matched == phase # "down" => \A c \in Coins \ doubt : Nets(Believed, venue[c], c)

\* get_net_exposure sums the signed sizes of the positions on a coin.
LEMMA NetIsTotal ==
  ASSUME NEW B, NEW c
  PROVE  NetOn(B, c) = Total([p \in PositionsOn(B, c) |-> Signed(p)], PositionsOn(B, c))
<1> DEFINE S == PositionsOn(B, c)
           F == [p \in S |-> Signed(p)]
           G(it) == [s \in SUBSET S |-> IF s = {} THEN 0
                       ELSE LET x == CHOOSE x \in s : TRUE IN Signed(x) + it[s \ {x}]]
<1>1. ASSUME NEW it PROVE G(it) = Recursion(F, S, it)
  <2>1. \A s \in SUBSET S : s # {} => (CHOOSE x \in s : TRUE) \in S
    OBVIOUS
  <2> HIDE DEF S
  <2>2. \A s \in SUBSET S : G(it)[s] = Recursion(F, S, it)[s]
    BY <2>1 DEF Recursion
  <2> QED BY <2>2 DEF Recursion
<1>2. NetOn(B, c) = (CHOOSE it : it = G(it))[S]
  BY DEF NetOn, MapThenSumSet, MapThenFoldSet, PositionsOn
<1> HIDE DEF G, F, S
<1>3. (CHOOSE it : it = G(it)) = (CHOOSE it : it = Recursion(F, S, it))
  BY <1>1
<1> QED BY <1>2, <1>3, TotalIsSolution DEF F, S, Solution

\* A net exposure depends on the positions on its coin only.
LEMMA NetsOfSame ==
  ASSUME NEW A, NEW B, NEW c, PositionsOn(A, c) = PositionsOn(B, c), NEW v
  PROVE  Nets(A, v, c) <=> Nets(B, v, c)
<1>1. NetOn(A, c) = NetOn(B, c)
  BY NetIsTotal
<1> QED BY <1>1 DEF Nets

\* A coin without positions nets to zero.
LEMMA NoneNets ==
  ASSUME NEW B, NEW c, PositionsOn(B, c) = {}
  PROVE  Nets(B, 0, c)
<1>1. NetOn(B, c) = 0
  BY NetIsTotal, SumOfNone
<1>2. Cardinality(PositionsOn(B, c)) = 0
  BY FS_EmptySet
<1>3. Dollar \in Nat \ {0}
  BY TickConstants
<1> QED BY <1>1, <1>2, <1>3 DEF Nets

\* The signed size of a position is an integer.
LEMMA SignedType ==
  ASSUME NEW p \in Position
  PROVE  Signed(p) \in Int
BY DEF Position, Signed

\* A position more adds its signed size to the net of its coin.
LEMMA NetWith ==
  ASSUME NEW B \in SUBSET Position, IsFiniteSet(B), NEW p \in Position, p \notin B
  PROVE  /\ NetOn(B \cup {p}, p.coin) = NetOn(B, p.coin) + Signed(p)
         /\ NetOn(B, p.coin) \in Int
         /\ Cardinality(PositionsOn(B \cup {p}, p.coin))
              = Cardinality(PositionsOn(B, p.coin)) + 1
         /\ Cardinality(PositionsOn(B, p.coin)) \in Nat
<1> DEFINE S == PositionsOn(B, p.coin)
           F == [q \in S |-> Signed(q)]
           G == [q \in S \cup {p} |-> Signed(q)]
<1>1. PositionsOn(B \cup {p}, p.coin) = S \cup {p}
  BY DEF PositionsOn
<1>2. S \subseteq B
  BY DEF PositionsOn
<1>3. IsFiniteSet(S) /\ p \notin S
  BY <1>2, FS_Subset
<1> HIDE DEF S
<1>4. Cardinality(S \cup {p}) = Cardinality(S) + 1 /\ Cardinality(S) \in Nat
  BY <1>3, FS_AddElement, FS_CardinalityType
<1>5. \A q \in S \cup {p} : G[q] \in Int /\ G[p] = Signed(p)
  BY <1>2, SignedType
<1>6. \A q \in S : F[q] = G[q] /\ F[q] \in Int
  BY <1>2, SignedType
<1>7. NetOn(B \cup {p}, p.coin) = Total(G, S \cup {p}) /\ NetOn(B, p.coin) = Total(F, S)
  BY <1>1, NetIsTotal DEF S
<1> HIDE DEF F, G
<1>8. Total(G, S \cup {p}) = Total(G, S) + G[p]
  BY <1>3, <1>5, SumWith
<1>9. Total(F, S) = Total(G, S) /\ Total(F, S) \in Int
  BY <1>3, <1>6, SumOfEquals, SumType
<1> QED BY <1>1, <1>4, <1>5, <1>7, <1>8, <1>9 DEF S

\* submit_trade's whole dollars are less than a dollar off the size.
LEMMA CutBelowADollar ==
  ASSUME NEW a \in Nat, NEW d \in Nat \ {0}
  PROVE  /\ (a \div d) * d \in Nat
         /\ a - (a \div d) * d \in 0..(d - 1)
BY SMT

\* What an order delivers differs from its position by the cents cut off, which
\* are less than a dollar (degen_claw.py sends whole dollars).
LEMMA DeliveredIsClose ==
  ASSUME NEW p \in Position
  PROVE  Delivered(p) - Signed(p) \in -(Dollar - 1)..(Dollar - 1)
<1>1. p.size \in Nat /\ Dollar \in Nat \ {0}
  BY TickConstants DEF Position
<1> DEFINE sent == (p.size \div Dollar) * Dollar
<1>2. sent \in Nat /\ p.size - sent \in 0..(Dollar - 1)
  BY <1>1, CutBelowADollar
<1>3. Delivered(p) = IF p.side = "long" THEN sent ELSE -sent
  BY DEF Delivered, Signed, Position
<1> HIDE DEF sent
<1>4. Signed(p) = IF p.side = "long" THEN p.size ELSE -p.size
  BY DEF Signed
<1> QED BY <1>1, <1>2, <1>3, <1>4

\* One order more leaves the venue one cut more off.
LEMMA OneCutMore ==
  ASSUME NEW k \in Nat, NEW d \in Nat, NEW x \in -(k * d)..(k * d), NEW y \in -d..d
  PROVE  x + y \in -((k + 1) * d)..((k + 1) * d)
BY SMT

\* Registering what was sent keeps a coin matched.
LEMMA OpenNets ==
  ASSUME NEW B \in SUBSET Position, IsFiniteSet(B), NEW p \in Position, p \notin B,
         NEW v \in Int, Nets(B, v, p.coin)
  PROVE  Nets(B \cup {p}, v + Delivered(p), p.coin)
<1> DEFINE k == Cardinality(PositionsOn(B, p.coin))
           d == Dollar - 1
           x == v - NetOn(B, p.coin)
           y == Delivered(p) - Signed(p)
<1>1. k \in Nat /\ d \in Nat
  <2>1. k \in Nat
    BY NetWith
  <2>2. d \in Nat
    BY TickConstants
  <2> QED BY <2>1, <2>2
<1>2. x \in -(k * d)..(k * d)
  BY DEF Nets
<1>3. y \in -d..d
  BY DeliveredIsClose
<1>4. x + y \in -((k + 1) * d)..((k + 1) * d)
  <2> HIDE DEF k, d, x, y
  <2> QED BY <1>1, <1>2, <1>3, OneCutMore
<1>5. (v + Delivered(p)) - NetOn(B \cup {p}, p.coin) = x + y
  BY NetWith, SignedType, DeliveredType
<1>6. Cardinality(PositionsOn(B \cup {p}, p.coin)) = k + 1
  BY NetWith
<1> HIDE DEF k, x, y
<1> QED BY <1>4, <1>5, <1>6 DEF Nets

-----------------------------------------------------------------------------
\* A step that leaves every coin's positions and the venue alone, and doubts
\* no less.
LEMMA NothingMoved ==
  ASSUME Matched, phase # "down", Believed' = Believed, venue' = venue, doubt \subseteq doubt'
  PROVE  Matched'
<1>1. \A c \in Coins \ doubt' : Nets(Believed, venue[c], c)
  BY DEF Matched
<1>2. (\A c \in Coins \ doubt : Nets(Believed, venue[c], c))'
      <=> \A c \in Coins \ doubt' : Nets(Believed', venue'[c], c)
  BY DEF Nets, PositionsOn
<1>3. \A c \in Coins \ doubt' : Nets(Believed', venue'[c], c)
  BY <1>1
<1> QED BY <1>2, <1>3 DEF Matched

\* An entry: the position is new to the books, and unless the answer and the
\* venue disagree the venue changes by what was delivered.
LEMMA OpenKeepsMatched ==
  ASSUME TypeOK, Matched, phase # "down", IsFiniteSet(Believed), Believed \subseteq Position,
         NEW p \in Position, NEW o, NEW registers \in BOOLEAN,
         registers => p \notin Believed,
         VenueOpens(p, o), DoubtAfterOpen(p, o, registers),
         Believed' = IF registers THEN Believed \cup {p} ELSE Believed
  PROVE  Matched'
<1> SUFFICES ASSUME NEW c \in Coins, c \notin doubt'
             PROVE  Nets(Believed', venue'[c], c)
  BY DEF Matched, Nets, PositionsOn
<1>1. c \notin doubt /\ Nets(Believed, venue[c], c) /\ venue[c] \in Int
  BY DEF DoubtAfterOpen, Matched, TypeOK
<1>2. CASE c # p.coin
  <2>1. venue'[c] = venue[c]
    BY <1>2 DEF VenueOpens, TypeOK
  <2>2. PositionsOn(Believed', c) = PositionsOn(Believed, c)
    BY <1>2 DEF PositionsOn
  <2> QED BY <1>1, <2>1, <2>2, NetsOfSame
<1>3. CASE c = p.coin
  <2>1. registers = VenueActs(o)
    BY <1>3 DEF DoubtAfterOpen
  <2>2. CASE registers
    <3>1. venue'[c] = venue[c] + Delivered(p)
      BY <1>3, <2>1, <2>2 DEF VenueOpens, TypeOK
    <3>2. Nets(Believed \cup {p}, venue[c] + Delivered(p), c)
      BY <1>1, <1>3, <2>2, OpenNets
    <3> QED BY <2>2, <3>1, <3>2
  <2>3. CASE ~registers
    <3>1. venue'[c] = venue[c]
      BY <2>1, <2>3 DEF VenueOpens
    <3> QED BY <1>1, <2>3, <3>1
  <2> QED BY <2>2, <2>3
<1> QED BY <1>2, <1>3

\* A close: unless the answer and the venue disagree, or another position was
\* flattened with it, the coin is empty in both.
LEMMA CloseKeepsMatched ==
  ASSUME TypeOK, Matched, phase # "down", Believed = book,
         NEW p \in Position, NEW o, NEW drops \in BOOLEAN,
         VenueCloses(p, o), DoubtAfterClose(p, o, drops),
         Believed' = IF drops THEN Believed \ {p} ELSE Believed
  PROVE  Matched'
<1> SUFFICES ASSUME NEW c \in Coins, c \notin doubt'
             PROVE  Nets(Believed', venue'[c], c)
  BY DEF Matched, Nets, PositionsOn
<1>1. c \notin doubt /\ Nets(Believed, venue[c], c)
  BY DEF DoubtAfterClose, Matched
<1>2. CASE c # p.coin
  <2>1. venue'[c] = venue[c]
    BY <1>2 DEF VenueCloses, TypeOK
  <2>2. PositionsOn(Believed', c) = PositionsOn(Believed, c)
    BY <1>2 DEF PositionsOn
  <2> QED BY <1>1, <2>1, <2>2, NetsOfSame
<1>3. CASE c = p.coin
  <2>1. /\ drops = VenueActs(o)
        /\ VenueActs(o) => \A q \in book \ {p} : q.coin # c
    BY <1>3 DEF DoubtAfterClose
  <2>2. CASE drops
    <3>1. venue'[c] = 0
      BY <1>3, <2>1, <2>2 DEF VenueCloses, TypeOK
    <3>2. PositionsOn(Believed', c) = {}
      BY <2>1, <2>2 DEF PositionsOn
    <3> QED BY <3>1, <3>2, NoneNets
  <2>3. CASE ~drops
    <3>1. venue'[c] = venue[c]
      BY <2>1, <2>3 DEF VenueCloses
    <3> QED BY <1>1, <2>3, <3>1
  <2> QED BY <2>2, <2>3
<1> QED BY <1>2, <1>3

\* sync_from_hl: one recovered position per coin the venue holds, with its size
\* and its side, so the book nets to the venue exactly.
LEMMA SyncMatches ==
  ASSUME TypeOK, RestartSynced
  PROVE  Matched'
<1> PICK id \in [HeldCoins -> Ids] :
      book' = {RecoveredPosition(c, id[c]) : c \in HeldCoins}
  BY DEF RestartSynced
<1> SUFFICES ASSUME NEW c \in Coins
             PROVE  Nets(Believed', venue'[c], c)
  BY DEF Matched, Nets, PositionsOn
<1>1. Believed' = book' /\ venue'[c] = venue[c] /\ venue[c] \in Int
  BY DEF RestartSynced, Believed, TypeOK
<1>2. CASE venue[c] = 0
  <2>1. PositionsOn(book', c) = {}
    BY <1>2 DEF PositionsOn, RecoveredPosition, HeldCoins
  <2> QED BY <1>1, <1>2, <2>1, NoneNets
<1>3. CASE venue[c] # 0
  <2> DEFINE p == RecoveredPosition(c, id[c])
  <2>1. c \in HeldCoins
    BY <1>3 DEF HeldCoins
  <2>2. PositionsOn(book', c) = {p}
    BY <2>1 DEF PositionsOn, RecoveredPosition
  <2>3. p \in Position
    BY <1>1, <2>1 DEF RecoveredPosition, Position, Engines, Sides
  <2>4. Signed(p) = venue[c] /\ p.coin = c
    BY <1>1, <1>3 DEF RecoveredPosition, Signed
  <2> HIDE DEF p
  <2>5. NetOn({} \cup {p}, c) = NetOn({}, c) + Signed(p) /\ NetOn({}, c) \in Int
    BY <2>3, <2>4, FS_EmptySet, NetWith
  <2>6. NetOn({}, c) = 0
    BY NetIsTotal, SumOfNone DEF PositionsOn
  <2>7. NetOn(book', c) = NetOn({p}, c)
    <3>1. PositionsOn({p}, c) = {p}
      BY <2>4 DEF PositionsOn
    <3> QED BY <2>2, <3>1, NetIsTotal
  <2>8. NetOn(book', c) = venue[c]
    <3>1. {} \cup {p} = {p}
      OBVIOUS
    <3> QED BY <1>1, <2>4, <2>5, <2>6, <2>7, <3>1
  <2>9. Cardinality(PositionsOn(book', c)) = 1
    BY <2>2, FS_Singleton
  <2>10. Dollar - 1 \in Nat
    BY TickConstants
  <2> QED BY <1>1, <2>8, <2>9, <2>10 DEF Nets
<1> QED BY <1>2, <1>3

\* An empty book nets to an empty venue.
LEMMA InitMatched == Init => Matched
<1> SUFFICES ASSUME Init, NEW c \in Coins PROVE Nets(Believed, venue[c], c)
  BY DEF Matched
<1>1. PositionsOn(Believed, c) = {} /\ venue[c] = 0
  BY DEF Init, Believed, PositionsOn
<1> QED BY <1>1, NoneNets

\* Every step keeps the coins without doubt matched.
LEMMA NextMatched ==
  ASSUME TypeOK, TickShape, TickFacts, Matched, [Next]_vars
  PROVE  Matched'
<1> USE DEF tickVars, bookVars, cfgVars
<1>1. CASE \/ TickStart \/ AceSkip \/ AceBegin \/ AceKilled \/ AceScanFails \/ AceAdmit \/ AceEnd
           \/ (\E e \in TrackA : TrackAScan(e)) \/ Resolve
           \/ (\E i \in orders, priced \in BOOLEAN : ExecuteSkip(i, priced)) \/ TickEnd
  <2>1. /\ book' = book /\ venue' = venue /\ doubt' = doubt
        /\ phase \notin {"aceEntryLog", "aceExitLog", "down"}
        /\ phase' \notin {"aceEntryLog", "aceExitLog", "down"}
    BY <1>1 DEF TickStart, AceSkip, AceBegin, AceKilled, AceScanFails, AceAdmit, AceEnd,
                TrackAScan,
                Resolve, ExecuteSkip, TickEnd
  <2> QED BY <2>1, NothingMoved DEF Believed
<1>2. CASE \/ HotReload \/ (\E e \in Engines : KillTrip(e) \/ KillReset(e))
           \/ UNCHANGED vars
  <2>1. UNCHANGED <<phase, book, inflight, venue, doubt>>
    BY <1>2 DEF HotReload, KillTrip, KillReset, vars
  <2>2. CASE phase = "down"
    BY <2>1, <2>2 DEF Matched
  <2>3. CASE phase # "down"
    BY <2>1, <2>3, NothingMoved DEF Believed
  <2> QED BY <2>2, <2>3
<1>3. CASE \E p \in exits, o \in CloseOutcomes : TrackAClose(p, o)
  <2> PICK p \in exits, o \in CloseOutcomes : TrackAClose(p, o) BY <1>3
  <2>1. Believed = book /\ Believed' = book' /\ phase # "down"
    BY DEF TrackAClose, Believed
  <2>2. /\ VenueCloses(p, o) /\ DoubtAfterClose(p, o, ~Raises(o))
        /\ book' = IF ~Raises(o) THEN book \ {p} ELSE book
    BY DEF TrackAClose
  <2>3. p \in Position /\ (~Raises(o)) \in BOOLEAN
    BY DEF TypeOK
  <2> QED BY <2>1, <2>2, <2>3, CloseKeepsMatched
<1>4. CASE \E p \in exits, o \in CloseOutcomes : AceClose(p, o)
  <2> PICK p \in exits, o \in CloseOutcomes : AceClose(p, o) BY <1>4
  <2>1. Believed = book /\ Believed' = book \ {p} /\ phase # "down"
    BY DEF AceClose, Believed
  <2>2. VenueCloses(p, o) /\ DoubtAfterClose(p, o, TRUE)
    BY DEF AceClose
  <2>3. p \in Position
    BY DEF TypeOK
  <2> QED BY <2>1, <2>2, <2>3, CloseKeepsMatched
<1>5. CASE AceDropClosed \/ AceRegister
  <2>1. Believed' = Believed /\ venue' = venue /\ doubt' = doubt /\ phase # "down"
    BY <1>5 DEF AceDropClosed, AceRegister, Believed
  <2> QED BY <2>1, NothingMoved
<1>6. CASE \E s \in batch, pct \in FathomPcts, o \in Outcomes, id \in FreeIds :
             AceSubmit(s, pct, o, id)
  <2> PICK s \in batch, pct \in FathomPcts, o \in Outcomes, id \in FreeIds :
        AceSubmit(s, pct, o, id) BY <1>6
  <2> DEFINE p == Identified(s, (s.size * pct) \div 100, id)
  <2>1. phase = "fathom" /\ book' = book
    BY DEF AceSubmit
  <2>2. Believed = book
    BY <2>1 DEF Believed
  <2>3. /\ VenueOpens(p, o) /\ DoubtAfterOpen(p, o, ~Raises(o))
        /\ \/ Raises(o) /\ UNCHANGED <<phase, inflight>>
           \/ ~Raises(o) /\ inflight' = {p} /\ phase' = "aceEntryLog"
    BY DEF AceSubmit
  <2>4. p \in Position
    <3>1. /\ s.engine \in Engines /\ s.coin \in Coins /\ s.side \in Sides
          /\ s.size \in Nat /\ pct \in Nat /\ id \in Ids
      BY TickConstants DEF TypeOK, FreeIds, Engines, Sides
    <3>2. (s.size * pct) \div 100 \in Nat
      BY <3>1, PercentOfSize
    <3> QED BY <3>1, <3>2, IdentifiedType
  <2>5. p \notin book
    BY DEF FreeIds, Identified
  <2> HIDE DEF p
  <2>6. Believed' = IF ~Raises(o) THEN Believed \cup {p} ELSE Believed
    BY <2>1, <2>2, <2>3 DEF Believed
  <2>7. /\ IsFiniteSet(Believed) /\ Believed \subseteq Position /\ phase # "down"
        /\ (~Raises(o)) \in BOOLEAN
    BY <2>1, <2>2 DEF TickFacts, TypeOK
  <2> QED BY <2>2, <2>3, <2>4, <2>5, <2>6, <2>7, OpenKeepsMatched
<1>7. CASE \E i \in orders, o \in Outcomes, id \in FreeIds : ExecuteSubmit(i, o, id)
  <2> PICK i \in orders, o \in Outcomes, id \in FreeIds : ExecuteSubmit(i, o, id)
    BY <1>7
  <2> DEFINE s == TrackASignal(i)
             p == Identified(s, s.size, id)
  <2>1. Believed = book /\ Believed' = book' /\ phase # "down"
    BY DEF ExecuteSubmit, Believed
  <2>2. /\ VenueOpens(p, o) /\ DoubtAfterOpen(p, o, Accepted(o))
        /\ book' = IF Accepted(o) THEN book \cup {p} ELSE book
    BY DEF ExecuteSubmit
  <2>3. p \in Position
    <3>1. i.engine \in Engines /\ i.coin \in Coins /\ i.side \in Sides /\ id \in Ids
      BY DEF TypeOK, Intent, Engines, FreeIds
    <3>2. SafetySized(TrackASize, safety) \in Nat
      BY TickConstants, PercentOfSize DEF TypeOK, SafetySized
    <3> QED BY <3>1, <3>2, IdentifiedType DEF TrackASignal
  <2>4. p \notin book
    BY DEF FreeIds, Identified
  <2> HIDE DEF p
  <2>5. /\ IsFiniteSet(Believed) /\ Believed \subseteq Position
        /\ Accepted(o) \in BOOLEAN /\ p \notin Believed
    BY <2>1, <2>4 DEF TickFacts, TypeOK, Accepted
  <2> QED BY <2>1, <2>2, <2>3, <2>5, OpenKeepsMatched
<1>8. CASE \E c \in Coins : ExternalClose(c)
  <2> PICK c \in Coins : ExternalClose(c) BY <1>8
  <2>1. /\ phase' = phase /\ Believed' = Believed /\ doubt' = doubt \cup {c}
        /\ \A d \in Coins \ {c} : venue'[d] = venue[d]
    BY DEF ExternalClose, Believed, TypeOK
  <2> SUFFICES ASSUME phase # "down", NEW d \in Coins, d \notin doubt'
               PROVE  Nets(Believed', venue'[d], d)
    BY <2>1 DEF Matched, Nets, PositionsOn
  <2>2. d # c /\ d \notin doubt
    BY <2>1
  <2> QED BY <2>1, <2>2 DEF Matched
<1>9. CASE Crash BY <1>9 DEF Crash, Matched
<1>10. CASE RestartSynced BY <1>10, SyncMatches
<1>11. CASE RestartBlank
  <2>1. phase = "down" /\ phase' = "idle" /\ book' = book /\ venue' = venue /\ doubt' = HeldCoins
    BY <1>11 DEF RestartBlank
  <2>2. Believed' = {}
    BY <2>1 DEF TickShape, Believed
  <2> SUFFICES ASSUME NEW c \in Coins, c \notin doubt'
               PROVE  Nets(Believed', venue'[c], c)
    BY DEF Matched, Nets, PositionsOn
  <2>3. venue'[c] = 0
    BY <2>1 DEF HeldCoins
  <2>4. PositionsOn(Believed', c) = {}
    BY <2>2 DEF PositionsOn
  <2> QED BY <2>3, <2>4, NoneNets
<1> QED
  BY <1>1, <1>2, <1>3, <1>4, <1>5, <1>6, <1>7, <1>8, <1>9, <1>10, <1>11
  DEF Next, TickStep, Environment

\* For every size, rounding and universe: where no answer was lost or late, and
\* no close was shared, the positions the process believes in net to what the
\* venue holds, but for less than a dollar per position.
THEOREM BookMatches == Spec => []BookMatchesVenue
<1>1. TypeOK /\ TickShape /\ TickFacts /\ Matched /\ [Next]_vars => Matched'
  BY NextMatched
<1>2. Matched => BookMatchesVenue
  BY DEF Matched, Nets, PositionsOn, BookMatchesVenue
<1> QED BY <1>1, <1>2, InitMatched, ShapeInvariant, FactsInvariant, PTL DEF Spec
=============================================================================
