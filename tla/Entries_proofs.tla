--------------------------- MODULE Entries_proofs ----------------------------
(***************************************************************************)
(* Theorems about entries: AceVault's re-entry gates, for every set of     *)
(* prices, both cooldowns, and with or without restarts; and the limits on *)
(* positions and on high leverage that the strategies check before they    *)
(* rank, for all coins, rows, regimes and caps.                            *)
(***************************************************************************)
EXTENDS ReentryGate, Opportunity, Sums

\* Both cooldowns are ages the model can tell apart.
LEMMA CooldownsAreAges ==
  AgeLimit \in Nat /\ LossCooldown \in Ages /\ StopCooldown \in Ages /\ 0 \in Ages
BY ReentryConstants DEF AgeLimit, Ages, Larger

\* Ageing keeps an age within the bound, and keeps a cooldown that is over so.
LEMMA OlderKeeps ==
  ASSUME NEW n \in Ages \cup {None}
  PROVE  /\ Older(n) \in Ages \cup {None}
         /\ n # None => Older(n) \in Ages
         /\ n = None <=> Older(n) = None
         /\ \A limit \in Ages : n # None /\ n >= limit => Older(n) >= limit
BY CooldownsAreAges DEF Older, Ages, Smaller, None

\* Every step keeps the types: marks are prices, ages stay within the bound.
LEMMA NextTypeOK ==
  ASSUME TypeOK, [Next]_vars
  PROVE  TypeOK'
<1> USE ReentryConstants, CooldownsAreAges DEF TypeOK
<1>1. CASE Market
  BY <1>1 DEF Market, memory, history
<1>2. CASE Clock
  <2>1. lossAge' \in Ages \cup {None} /\ stopAge' \in Ages \cup {None}
    BY <1>2, OlderKeeps DEF Clock
  <2>2. closed' \in {NoRecord} \cup [reason : Reasons, lost : BOOLEAN, age : Ages]
    <3>1. CASE closed = NoRecord
      BY <1>2, <3>1 DEF Clock, NoRecord, Older
    <3>2. CASE closed \in [reason : Reasons, lost : BOOLEAN, age : Ages]
      <4>1. closed.age \in Ages /\ closed.age # None
        BY <3>2 DEF Ages, None
      <4>2. Older(closed.age) \in Ages
        BY <4>1, OlderKeeps
      <4> QED BY <1>2, <3>2, <4>2 DEF Clock
    <3> QED BY <3>1, <3>2
  <2> QED BY <1>2, <2>1, <2>2 DEF Clock
<1>3. CASE Restart
  BY <1>3 DEF Restart
<1>4. ASSUME NEW priced \in BOOLEAN, Keep(priced) PROVE TypeOK'
  BY <1>4 DEF Keep, Marked, LowestNow, Smaller
<1>5. ASSUME NEW reason \in Reasons, NEW lost \in BOOLEAN, Close(reason, lost) PROVE TypeOK'
  BY <1>5 DEF Close, WatchAfter
<1>6. CASE NotACandidate
  BY <1>6 DEF NotACandidate, memory, history
<1>7. ASSUME NEW look \in Looks, NEW r \in Ranges, Refuse(look, r) PROVE TypeOK'
  BY <1>7 DEF Refuse, memory, history
<1>8. ASSUME NEW look \in Looks, NEW r \in Ranges, NEW opened \in BOOLEAN, Signal(look, r, opened)
      PROVE TypeOK'
  BY <1>8 DEF Signal
<1>9. CASE UNCHANGED vars
  BY <1>9 DEF vars
<1> QED BY <1>1, <1>2, <1>3, <1>4, <1>5, <1>6, <1>7, <1>8, <1>9 DEF Next

\* Type correctness: no mark is anything but a price that was shown.
THEOREM TypeCorrect == Spec => []TypeOK
<1>1. Init => TypeOK
  BY CooldownsAreAges DEF Init, TypeOK
<1> QED BY <1>1, NextTypeOK, PTL DEF Spec

-----------------------------------------------------------------------------
\* A loss or a stop is past its cooldown, or it is the very close the gates see.
LossSettled == lossAge = None \/ lossAge >= LossCooldown
StopSettled == stopAge = None \/ stopAge >= StopCooldown

LossSeen == closed.lost /\ closed.reason \in CooldownReasons /\ closed.age = lossAge
StopSeen == closed.reason = "stop_loss" /\ closed.age = stopAge

\* While a position is open both are settled, so no close can hide an earlier
\* one whose cooldown still runs.
CooldownInv ==
  /\ LossSettled \/ (~held /\ LossSeen)
  /\ StopSettled \/ (~held /\ StopSeen)

\* A loss that is still owed its edge is watched, at the lowest price seen.
WatchInv ==
  /\ owed => watch # None
  /\ watch # None => watch = lowest

\* Every step keeps the two records of losses in agreement with the gates.
LEMMA NextCooldownInv ==
  ASSUME TypeOK, CooldownInv, [Next]_vars
  PROVE  CooldownInv'
<1> USE ReentryConstants, CooldownsAreAges DEF CooldownInv, LossSettled, StopSettled, LossSeen, StopSeen
<1>1. CASE Market
  BY <1>1 DEF Market, memory, history
<1>2. CASE Clock
  <2>1. /\ LossSettled => LossSettled'
        /\ StopSettled => StopSettled'
    BY <1>2, OlderKeeps DEF Clock, TypeOK
  <2>2. /\ LossSeen => LossSeen'
        /\ StopSeen => StopSeen'
    <3>1. closed' = [closed EXCEPT !.age = Older(closed.age)]
      BY <1>2 DEF Clock
    <3>2. closed'.reason = closed.reason /\ closed'.lost = closed.lost
          /\ closed'.age = Older(closed.age)
      BY <3>1 DEF TypeOK, NoRecord
    <3> QED BY <1>2, <3>2 DEF Clock
  <2>3. held' = held
    BY <1>2 DEF Clock
  <2> QED BY <2>1, <2>2, <2>3
<1>3. CASE Restart
  BY <1>3 DEF Restart
<1>4. ASSUME NEW priced \in BOOLEAN, Keep(priced) PROVE CooldownInv'
  BY <1>4 DEF Keep
<1>5. ASSUME NEW reason \in Reasons, NEW lost \in BOOLEAN, Close(reason, lost) PROVE CooldownInv'
  BY <1>5 DEF Close
<1>6. CASE NotACandidate
  BY <1>6 DEF NotACandidate, memory, history
<1>7. ASSUME NEW look \in Looks, NEW r \in Ranges, Refuse(look, r) PROVE CooldownInv'
  BY <1>7 DEF Refuse, memory, history
<1>8. ASSUME NEW look \in Looks, NEW r \in Ranges, NEW opened \in BOOLEAN, Signal(look, r, opened)
      PROVE CooldownInv'
  BY <1>8 DEF Signal, MayEnter, LossGate, StopGate
<1>9. CASE UNCHANGED vars
  BY <1>9 DEF vars
<1> QED BY <1>1, <1>2, <1>3, <1>4, <1>5, <1>6, <1>7, <1>8, <1>9 DEF Next

\* Only Signal opens: what every other step leaves shut.
LEMMA OnlySignalOpens ==
  ASSUME [Next]_vars, ~held, held'
  PROVE  \E look \in Looks, r \in Ranges : Signal(look, r, TRUE)
<1>1. PICK look \in Looks, r \in Ranges, opened \in BOOLEAN : Signal(look, r, opened)
  BY DEF Next, Market, Clock, Restart, Keep, Close, NotACandidate, Refuse, vars
<1>2. opened = TRUE
  BY <1>1 DEF Signal
<1> QED BY <1>1, <1>2

\* Within one life of the process no coin is entered before the cooldowns of all
\* its earlier closes are over, although the gates look at the latest one only.
THEOREM NoEarlyReentry == Spec => LossesWaitOut
<1>1. Init => CooldownInv
  BY DEF Init, CooldownInv, LossSettled, StopSettled
<1>2. ASSUME CooldownInv, [Next]_vars
      PROVE  [~held /\ held' =>
                /\ lossAge = None \/ lossAge >= LossCooldown
                /\ stopAge = None \/ stopAge >= StopCooldown]_vars
  <2> SUFFICES ASSUME ~held, held'
               PROVE  LossSettled /\ StopSettled
    BY DEF LossSettled, StopSettled
  <2>1. PICK look \in Looks, r \in Ranges : Signal(look, r, TRUE)
    BY <1>2, OnlySignalOpens
  <2> QED BY <1>2, <2>1 DEF Signal, MayEnter, LossGate, StopGate, CooldownInv, LossSettled, StopSettled, LossSeen, StopSeen
<1> QED BY <1>1, <1>2, NextCooldownInv, TypeCorrect, PTL DEF Spec, LossesWaitOut

\* The edge of a range is a number, and a candidate that has one may only be
\* signalled once the watch is down there.
LEMMA SignalAtEdge ==
  ASSUME TypeOK, WatchInv, NEW look \in Looks, NEW r \in Ranges, NEW opened \in BOOLEAN,
         Signal(look, r, opened)
  PROVE  ~owed'
<1> SUFFICES ASSUME owed, HasEdge(r), lowest > Edge(r)
             PROVE  FALSE
  BY DEF Signal
<1>1. Edge(r) \in Int
  <2>1. r.low \in Int /\ r.high \in Int
    <3>1. r \in [low : Prices, high : Prices, last : Prices]
      BY Zenon DEF Ranges, HasEdge
    <3>2. r.low \in Prices /\ r.high \in Prices
      BY <3>1
    <3>3. \A p \in Prices : p \in Int
      BY ReentryConstants
    <3> QED BY <3>2, <3>3
  <2>2. Width(r) \in Int
    BY <2>1 DEF Width
  <2>3. Buffer * Width(r) \in Int
    BY <2>2, ReentryConstants
  <2>4. (Buffer * Width(r)) \div 100 \in Int
    BY <2>3
  <2> QED BY <2>1, <2>4 DEF Edge
<1>2. watch # None /\ watch = lowest /\ watch \in Int
  BY ReentryConstants DEF WatchInv, TypeOK
<1>3. watch <= Edge(r)
  BY <1>2 DEF Signal, MayEnter, ResetGate
<1> QED BY <1>1, <1>2, <1>3

\* Every step keeps the watch on every loss that still owes its edge.
LEMMA NextWatchInv ==
  ASSUME TypeOK, WatchInv, [Next]_vars
  PROVE  WatchInv'
<1> USE ReentryConstants DEF WatchInv
<1>0. price # None
  BY DEF TypeOK, None
<1>1. CASE Market \/ NotACandidate
  BY <1>1 DEF Market, NotACandidate, memory, history
<1>2. CASE Clock
  BY <1>2 DEF Clock
<1>3. CASE Restart
  BY <1>3 DEF Restart
<1>4. ASSUME NEW priced \in BOOLEAN, Keep(priced) PROVE WatchInv'
  BY <1>0, <1>4 DEF Keep, Marked, LowestNow, Smaller, TypeOK, None
<1>5. ASSUME NEW reason \in Reasons, NEW lost \in BOOLEAN, Close(reason, lost) PROVE WatchInv'
  BY <1>0, <1>5 DEF Close, WatchAfter
<1>6. ASSUME NEW look \in Looks, NEW r \in Ranges, Refuse(look, r) PROVE WatchInv'
  BY <1>6 DEF Refuse, memory, history
<1>7. ASSUME NEW look \in Looks, NEW r \in Ranges, NEW opened \in BOOLEAN, Signal(look, r, opened)
      PROVE WatchInv'
  BY <1>7, SignalAtEdge DEF Signal
<1>8. CASE UNCHANGED vars
  BY <1>8 DEF vars
<1> QED BY <1>1, <1>2, <1>3, <1>4, <1>5, <1>6, <1>7, <1>8 DEF Next

\* A loss is forgotten only after its edge was reached (or for a signal without a
\* range), although signals that open nothing clear the watch as well.
THEOREM LossesEarnTheirEdge == Spec => EdgeEarned
<1>1. Init => WatchInv
  BY DEF Init, WatchInv
<1>2. ASSUME TypeOK, WatchInv, [Next]_vars
      PROVE  [~held /\ held' => ~owed']_vars
  <2> SUFFICES ASSUME ~held, held'
               PROVE  ~owed'
    OBVIOUS
  <2>1. PICK look \in Looks, r \in Ranges : Signal(look, r, TRUE)
    BY <1>2, OnlySignalOpens
  <2> QED BY <1>2, <2>1, SignalAtEdge
<1> QED BY <1>1, <1>2, NextWatchInv, TypeCorrect, PTL DEF Spec, EdgeEarned

-----------------------------------------------------------------------------
(* The cycles: positions on the book and intents on their way to it.       *)

Places == [engine : Engines, high : BOOLEAN]

\* The positions of a kind.
CountIn(b, A) == Total([p \in DOMAIN b |-> IF p \in A THEN b[p] ELSE 0], DOMAIN b)

OfEngine(e) == {p \in Places : p.engine = e}
OfHigh == {p \in Places : p.high}

\* The book is a bag of them.
BookType(b) == DOMAIN b \subseteq Places /\ \A p \in DOMAIN b : b[p] \in Nat \ {0}

\* There are six kinds of positions.
LEMMA PlacesFinite == IsFiniteSet(Places)
<1>1. IsFiniteSet(Engines) /\ IsFiniteSet(BOOLEAN)
  <2>1. Engines = {"growi", "mc", "acevault"} /\ BOOLEAN = {TRUE, FALSE}
    BY DEF Engines, TrackA
  <2>2. IsFiniteSet({"growi"}) /\ IsFiniteSet({TRUE})
    BY FS_Singleton
  <2>3. IsFiniteSet({"growi"} \cup {"mc"}) /\ IsFiniteSet({TRUE} \cup {FALSE})
    BY <2>2, FS_AddElement
  <2>4. IsFiniteSet(({"growi"} \cup {"mc"}) \cup {"acevault"})
    BY <2>3, FS_AddElement
  <2>5. ({"growi"} \cup {"mc"}) \cup {"acevault"} = Engines /\ {TRUE} \cup {FALSE} = BOOLEAN
    BY <2>1
  <2> QED BY <2>3, <2>4, <2>5
<1>2. IsFiniteSet(Engines \X BOOLEAN)
  BY <1>1, FS_Product
<1> DEFINE f == [p \in Places |-> <<p.engine, p.high>>]
<1>3. f \in Injection(Places, Engines \X BOOLEAN)
  <2>1. f \in [Places -> Engines \X BOOLEAN]
    BY DEF Places
  <2>2. ASSUME NEW p \in Places, NEW q \in Places, f[p] = f[q] PROVE p = q
    BY <2>2 DEF Places
  <2> HIDE DEF f
  <2> QED BY <2>1, <2>2 DEF Injection, IsInjective
<1> QED BY <1>2, <1>3, FS_Injection

\* The model's counts are sums over the bag.
LEMMA HighCountIsTotal ==
  ASSUME BookType(book)
  PROVE  HighCount = CountIn(book, OfHigh)
<1> DEFINE S == DOMAIN book
           F == [p \in S |-> IF p \in OfHigh THEN book[p] ELSE 0]
           G(it) == [s \in SUBSET S |-> IF s = {} THEN 0
                       ELSE LET x == CHOOSE x \in s : TRUE
                            IN (IF IsHigh(x) THEN book[x] ELSE 0) + it[s \ {x}]]
<1>1. ASSUME NEW it PROVE G(it) = Recursion(F, S, it)
  <2>1. \A s \in SUBSET S : s # {} => (CHOOSE x \in s : TRUE) \in S
    OBVIOUS
  <2>2. \A x \in S : F[x] = IF IsHigh(x) THEN book[x] ELSE 0
    BY DEF IsHigh, OfHigh, BookType
  <2>3. \A s \in SUBSET S : G(it)[s] = Recursion(F, S, it)[s]
    <3> HIDE DEF F
    <3> QED BY <2>1, <2>2 DEF Recursion
  <2> QED BY <2>3 DEF Recursion
<1>2. HighCount = (CHOOSE it : it = G(it))[S]
  BY DEF HighCount, Copies, MapThenSumSet, MapThenFoldSet
<1> HIDE DEF G, F
<1>3. (CHOOSE it : it = G(it)) = (CHOOSE it : it = Recursion(F, S, it))
  BY <1>1
<1> QED BY <1>2, <1>3, TotalIsSolution DEF F, Solution, CountIn

\* An engine's open positions are the count of its kinds.
LEMMA OpenOfIsTotal ==
  ASSUME BookType(book), NEW e
  PROVE  OpenOf(e) = CountIn(book, OfEngine(e))
<1> DEFINE S == DOMAIN book
           F == [p \in S |-> IF p \in OfEngine(e) THEN book[p] ELSE 0]
           G(it) == [s \in SUBSET S |-> IF s = {} THEN 0
                       ELSE LET x == CHOOSE x \in s : TRUE
                            IN (IF x.engine = e THEN book[x] ELSE 0) + it[s \ {x}]]
<1>1. ASSUME NEW it PROVE G(it) = Recursion(F, S, it)
  <2>1. \A s \in SUBSET S : s # {} => (CHOOSE x \in s : TRUE) \in S
    OBVIOUS
  <2>2. \A x \in S : F[x] = IF x.engine = e THEN book[x] ELSE 0
    BY DEF OfEngine, BookType
  <2>3. \A s \in SUBSET S : G(it)[s] = Recursion(F, S, it)[s]
    <3> HIDE DEF F
    <3> QED BY <2>1, <2>2 DEF Recursion
  <2> QED BY <2>3 DEF Recursion
<1>2. OpenOf(e) = (CHOOSE it : it = G(it))[S]
  BY DEF OpenOf, Copies, MapThenSumSet, MapThenFoldSet
<1> HIDE DEF G, F
<1>3. (CHOOSE it : it = G(it)) = (CHOOSE it : it = Recursion(F, S, it))
  BY <1>1
<1> QED BY <1>2, <1>3, TotalIsSolution DEF F, Solution, CountIn

\* A count is a natural number; the empty book counts nothing.
LEMMA CountType ==
  ASSUME NEW b, BookType(b), NEW A
  PROVE  CountIn(b, A) \in Nat
<1> DEFINE F == [p \in DOMAIN b |-> IF p \in A THEN b[p] ELSE 0]
<1>1. IsFiniteSet(DOMAIN b)
  BY PlacesFinite, FS_Subset DEF BookType
<1>2. \A p \in DOMAIN b : F[p] \in Nat
  BY DEF BookType
<1> HIDE DEF F
<1>3. Total(F, DOMAIN b) \in Nat
  BY <1>1, <1>2, SumOfNats
<1> QED BY <1>3 DEF CountIn, F

\* An empty book counts nothing.
LEMMA CountOfEmpty ==
  ASSUME NEW A
  PROVE  BookType(EmptyBag) /\ CountIn(EmptyBag, A) = 0
BY SumOfNone DEF BookType, EmptyBag, SetToBag, CountIn

\* The count over all kinds of positions, those that are not on the book too.
Filled0(b, A) == [p \in Places |-> IF p \in DOMAIN b /\ p \in A THEN b[p] ELSE 0]

\* Kinds that are not on the book count as none.
LEMMA CountOverPlaces ==
  ASSUME NEW b, BookType(b), NEW A
  PROVE  CountIn(b, A) = Total(Filled0(b, A), Places)
<1> DEFINE F == [p \in DOMAIN b |-> IF p \in A THEN b[p] ELSE 0]
           G == Filled0(b, A)
           D == DOMAIN b
           R == Places \ D
<1>1. IsFiniteSet(D) /\ IsFiniteSet(R) /\ D \cap R = {} /\ D \cup R = Places
  BY PlacesFinite, FS_Subset DEF BookType
<1>2. \A p \in Places : G[p] \in Int
  BY DEF BookType, Filled0
<1>3. \A p \in R : G[p] = 0
  BY DEF Filled0
<1>4. \A p \in D : F[p] = G[p]
  BY DEF Filled0, BookType
<1> HIDE DEF F, G, D, R
<1>5. Total(G, D \cup R) = Total(G, D) + Total(G, R)
  BY <1>1, <1>2, SumOfUnion
<1>6. Total(G, R) = 0
  BY <1>1, <1>3, SumOfZeros
<1>7. Total(F, D) = Total(G, D)
  BY <1>1, <1>4, SumOfEquals
<1>8. Total(G, D) \in Int
  BY <1>1, <1>2, SumType
<1>9. CountIn(b, A) = Total(F, D)
  BY DEF CountIn, F, D
<1>10. Total(G, D \cup R) = Total(G, Places)
  BY <1>1
<1> QED BY <1>5, <1>6, <1>7, <1>8, <1>9, <1>10 DEF G

\* A position more counts where it belongs.
LEMMA CountWith ==
  ASSUME NEW b, BookType(b), NEW q \in Places, NEW A
  PROVE  /\ BookType(b (+) SetToBag({q}))
         /\ CountIn(b (+) SetToBag({q}), A) = CountIn(b, A) + (IF q \in A THEN 1 ELSE 0)
<1> DEFINE c == b (+) SetToBag({q})
           F == Filled0(b, A)
           G == Filled0(c, A)
<1>1. /\ DOMAIN c = (DOMAIN b) \cup {q}
      /\ \A p \in DOMAIN c : c[p] = (IF p \in DOMAIN b THEN b[p] ELSE 0) + (IF p = q THEN 1 ELSE 0)
  BY DEF (+), SetToBag
<1> HIDE DEF c
<1>2. BookType(c)
  BY <1>1 DEF BookType
<1>3. \A p \in Places : F[p] \in Int /\ G[p] \in Int
  BY <1>2 DEF Filled0, BookType
<1>4. \A p \in Places \ {q} : F[p] = G[p]
  BY <1>1, <1>2 DEF Filled0, BookType
<1>5. G[q] = F[q] + (IF q \in A THEN 1 ELSE 0)
  BY <1>1 DEF Filled0, BookType
<1> HIDE DEF F, G
<1>6. Total(G, Places) = Total(F, Places) + G[q] - F[q]
  BY <1>3, <1>4, PlacesFinite, SumUpdated
<1>7. Total(F, Places) \in Int
  BY <1>3, PlacesFinite, SumType
<1>8. CountIn(b, A) = Total(F, Places) /\ CountIn(c, A) = Total(G, Places)
  BY <1>2, CountOverPlaces DEF F, G
<1>9. F[q] \in Int /\ G[q] \in Int
  BY <1>3
<1>10. CountIn(c, A) = CountIn(b, A) + (IF q \in A THEN 1 ELSE 0)
  BY <1>5, <1>6, <1>7, <1>8, <1>9
<1> QED BY <1>2, <1>10 DEF c

\* A position less counts no more anywhere.
LEMMA CountWithout ==
  ASSUME NEW b, BookType(b), NEW q \in DOMAIN b, NEW A
  PROVE  /\ BookType(b (-) SetToBag({q}))
         /\ CountIn(b (-) SetToBag({q}), A) <= CountIn(b, A)
<1> DEFINE c == b (-) SetToBag({q})
           F == Filled0(b, A)
           G == Filled0(c, A)
<1>1. /\ DOMAIN c \subseteq DOMAIN b
      /\ \A p \in DOMAIN c : c[p] > 0 /\ c[p] = b[p] - (IF p = q THEN 1 ELSE 0)
  BY DEF (-), SetToBag, BookType
<1> HIDE DEF c
<1>2. BookType(c)
  BY <1>1 DEF BookType
<1>3. \A p \in Places : F[p] \in Int /\ G[p] \in Int /\ G[p] <= F[p]
  BY <1>1, <1>2 DEF Filled0, BookType
<1> HIDE DEF F, G
<1>4. Total(G, Places) <= Total(F, Places)
  BY <1>3, PlacesFinite, SumAtMost
<1>5. CountIn(b, A) = Total(F, Places) /\ CountIn(c, A) = Total(G, Places)
  BY <1>2, CountOverPlaces DEF F, G
<1> QED BY <1>2, <1>4, <1>5 DEF c

\* The intents of an engine, and those of high leverage, on their way.
InFlight(e) == {i \in queue : i.engine = e}
HighFlight  == {i \in queue : i.lev >= HighLeverage}

HighCap == Max({EffectiveCaps(g).high : g \in Regimes})
\* What a limit leaves below it.
Spare(e) == Max({0, MaxConcurrent[e] - 1})
HighSpare == Max({0, HighCap - 1})
TickBatch == Max({MaxCandidates["acevault"], MaxCandidates["growi"] + MaxCandidates["mc"]})

\* Whose intents may be on their way at which turn of the tick.
QueueInv ==
  /\ BookType(book) /\ IsFiniteSet(queue)
  /\ turn \in {"refresh", "acevault", "drain", "growi", "mc", "execute"}
  /\ turn \in {"refresh", "acevault", "growi"} => queue = {}
  /\ turn = "drain" => \A i \in queue : i.engine = "acevault"
  /\ turn = "mc" => \A i \in queue : i.engine = "growi"
  /\ turn = "execute" => \A i \in queue : i.engine \in TrackA
  /\ \A e \in Engines : Cardinality(InFlight(e)) <= MaxCandidates[e]

\* What is open and what may yet be opened keep to the bounds together.
CapacityInv ==
  \A e \in Engines :
    CountIn(book, OfEngine(e)) + Cardinality(InFlight(e))
      <= Spare(e) + MaxCandidates[e]

HighInv ==
  HighLeverage > 1 =>
    CountIn(book, OfHigh) + Cardinality(HighFlight) <= HighSpare + TickBatch

LimitsInv == QueueInv /\ CapacityInv /\ HighInv

\* The three engines.
LEMMA EnginesAre == Engines = {"growi", "mc", "acevault"} /\ TrackA = {"growi", "mc"}
BY DEF Engines, TrackA

\* The numbers the bounds are made of.
LEMMA LimitTypes ==
  /\ \A e \in Engines : /\ MaxCandidates[e] \in Nat /\ MaxConcurrent[e] \in Nat
                        /\ Spare(e) \in Nat
                        /\ Spare(e) >= MaxConcurrent[e] - 1
  /\ TickBatch \in Nat /\ TickBatch >= MaxCandidates["acevault"]
  /\ TickBatch >= MaxCandidates["growi"] + MaxCandidates["mc"]
  /\ Engines = {"growi", "mc", "acevault"} /\ HighLeverage \in Nat
<1>1. Engines = {"growi", "mc", "acevault"}
  BY DEF Engines, TrackA
<1>2. \A e \in Engines : MaxCandidates[e] \in Nat /\ MaxConcurrent[e] \in Nat
  BY OpportunityConstants
<1>3. ASSUME NEW e \in Engines
      PROVE  /\ Spare(e) \in Nat
             /\ Spare(e) >= MaxConcurrent[e] - 1
  <2>1. MaxConcurrent[e] - 1 \in Int
    BY <1>2
  <2>2. Spare(e) = IF 0 >= MaxConcurrent[e] - 1 THEN 0 ELSE MaxConcurrent[e] - 1
    BY <2>1, MaxOfTwo DEF Spare
  <2> QED BY <2>1, <2>2
<1>4. /\ TickBatch \in Nat /\ TickBatch >= MaxCandidates["acevault"]
      /\ TickBatch >= MaxCandidates["growi"] + MaxCandidates["mc"]
  <2> DEFINE a == MaxCandidates["acevault"]
             b == MaxCandidates["growi"] + MaxCandidates["mc"]
  <2>1. a \in Nat /\ b \in Nat
    BY <1>1, <1>2
  <2> HIDE DEF a, b
  <2>2. Max({a, b}) = IF a >= b THEN a ELSE b
    BY <2>1, MaxOfTwo
  <2>3. Max({a, b}) \in Nat /\ Max({a, b}) >= a /\ Max({a, b}) >= b
    BY <2>1, <2>2
  <2> QED BY <2>3 DEF TickBatch, a, b
<1>5. HighLeverage \in Nat
  BY OpportunityConstants
<1> QED BY <1>1, <1>2, <1>3, <1>4, <1>5

\* A clamped number is a number.
LEMMA ClampType ==
  ASSUME NEW x \in Int, NEW range \in Nat \X Nat
  PROVE  Clamp(x, range) \in Int
<1>1. range[1] \in Int /\ range[2] \in Int
  OBVIOUS
<1>2. Max({x, range[1]}) \in Int
  BY <1>1, MaxOfTwo
<1>3. Min({Max({x, range[1]}), range[2]}) \in Int
  BY <1>1, <1>2, MinOfTwo
<1> QED BY <1>3 DEF Clamp

\* The cap of a regime is at most the greatest one.
LEMMA HighCapIsMost ==
  /\ \A g \in Regimes : EffectiveCaps(g).high \in Int /\ EffectiveCaps(g).high <= HighCap
  /\ HighCap \in Int /\ HighSpare \in Nat /\ HighSpare >= HighCap - 1
<1>1. ASSUME NEW g \in Regimes PROVE EffectiveCaps(g).high \in Int
  <2>1. CASE g \notin DOMAIN CapMult
    BY <2>1, OpportunityConstants DEF EffectiveCaps
  <2>2. CASE g \in DOMAIN CapMult
    <3>1. CapMult[g].high \in Nat /\ HighBase \in Nat /\ CapClamps.high \in Nat \X Nat
      BY <2>2, OpportunityConstants
    <3> DEFINE n == HighBase * CapMult[g].high
    <3>2. n \in Int
      BY <3>1
    <3> HIDE DEF n
    <3>3. n \div 10 \in Int
      BY <3>2, QuotientType
    <3>4. Clamp(n \div 10, CapClamps.high) \in Int
      BY <3>1, <3>3, ClampType
    <3>5. EffectiveCaps(g).high = Clamp(n \div 10, CapClamps.high)
      BY <2>2 DEF EffectiveCaps, n
    <3> QED BY <3>4, <3>5
  <2> QED BY <2>1, <2>2
<1> DEFINE f == [g \in Regimes |-> EffectiveCaps(g).high]
           S == {EffectiveCaps(g).high : g \in Regimes}
<1>2. f \in Surjection(Regimes, S)
  BY DEF Surjection
<1>3. IsFiniteSet(Regimes) /\ Regimes # {}
  BY OpportunityConstants
<1>4. IsFiniteSet(S)
  <2> HIDE DEF f, S
  <2> QED BY <1>2, <1>3, FS_Surjection
<1>5. S # {} /\ \A x \in S : x \in Int
  BY <1>1, <1>3
<1>6. \A g \in Regimes : EffectiveCaps(g).high \in S
  OBVIOUS
<1>7. HighCap = Max(S)
  BY DEF HighCap
<1> HIDE DEF S
<1>8. Max(S) \in S /\ \A x \in S : Max(S) >= x
  BY <1>4, <1>5, MaxOfSet
<1>9. HighCap \in Int
  BY <1>5, <1>7, <1>8
<1>10. HighSpare = IF 0 >= HighCap - 1 THEN 0 ELSE HighCap - 1
  BY <1>9, MaxOfTwo DEF HighSpare
<1> QED BY <1>1, <1>6, <1>7, <1>8, <1>9, <1>10

\* What a ranking submits: no more than max_candidates intents, all its own.
LEMMA SubmittedFew ==
  ASSUME NEW e \in Engines, NEW g, NEW found, DOMAIN found \subseteq Coins,
         NEW intents \in Submitted(e, g, found)
  PROVE  /\ IsFiniteSet(intents) /\ Cardinality(intents) <= MaxCandidates[e]
         /\ \A i \in intents : \E c : i = Intent(e, g, c, found[c])
<1> DEFINE K == Kept(e, g, found)
<1>1. PICK T \in kSubset(Min2(MaxCandidates[e], Cardinality(K)), K) :
        intents = {Intent(e, g, c, found[c]) : c \in T}
  BY DEF Submitted, Best
<1>2. IsFiniteSet(K)
  <2>1. K \subseteq Coins
    BY DEF Kept
  <2>2. IsFiniteSet(Coins)
    BY OpportunityConstants
  <2> QED BY <2>1, <2>2, FS_Subset
<1> HIDE DEF K
<1>3. T \in SUBSET K /\ Cardinality(T) = Min2(MaxCandidates[e], Cardinality(K))
  BY <1>1 DEF kSubset
<1>4. IsFiniteSet(T) /\ Cardinality(T) <= MaxCandidates[e]
  <2>1. IsFiniteSet(T) /\ Cardinality(T) \in Nat /\ Cardinality(K) \in Nat
    BY <1>2, <1>3, FS_Subset, FS_CardinalityType
  <2> QED BY <1>3, <2>1, LimitTypes DEF Min2
<1> DEFINE f == [c \in T |-> Intent(e, g, c, found[c])]
<1>5. f \in Surjection(T, intents)
  BY <1>1 DEF Surjection
<1>6. IsFiniteSet(intents) /\ Cardinality(intents) <= Cardinality(T)
  <2> HIDE DEF f
  <2> QED BY <1>4, <1>5, FS_Surjection
<1>7. Cardinality(intents) \in Nat /\ Cardinality(T) \in Nat
  BY <1>4, <1>6, FS_CardinalityType
<1>8. \A i \in intents : \E c : i = Intent(e, g, c, found[c])
  BY <1>1
<1> QED BY <1>4, <1>6, <1>7, <1>8, LimitTypes

\* An intent of high leverage was ranked against a book below the regime's cap.
LEMMA HighIntentsHaveRoom ==
  ASSUME HighLeverage > 1, BookType(book), NEW g \in Regimes, NEW e, NEW c, NEW setup,
         Intent(e, g, c, setup).lev >= HighLeverage
  PROVE  HighCount <= HighCap - 1
<1> DEFINE lev == Proposed(FinalScore(e, g, setup, rows[c]), rows[c])
<1>1. Capped(e, g, lev) >= HighLeverage
  BY DEF Intent, Leverage
<1> HIDE DEF lev
<1>2. Max({1, HighLeverage - 1}) \in Int /\ Max({1, HighLeverage - 1}) < HighLeverage
  <2>1. HighLeverage - 1 \in Int /\ HighLeverage \in Int
    BY LimitTypes
  <2>2. Max({1, HighLeverage - 1}) = IF 1 >= HighLeverage - 1 THEN 1 ELSE HighLeverage - 1
    BY <2>1, MaxOfTwo
  <2> QED BY <2>1, <2>2
<1>3. ~(HighCount >= EffectiveCaps(g).high)
  <2> SUFFICES ASSUME HighCount >= EffectiveCaps(g).high PROVE FALSE
    OBVIOUS
  <2>1. CASE lev >= HighLeverage
    <3>1. Capped(e, g, lev) = Max({1, HighLeverage - 1})
      BY <2>1 DEF Capped
    <3> QED BY <1>1, <1>2, <3>1, LimitTypes
  <2>2. CASE ~(lev >= HighLeverage)
    <3>1. Capped(e, g, lev) = lev
      BY <2>2 DEF Capped
    <3> QED BY <1>1, <2>2, <3>1
  <2> QED BY <2>1, <2>2
<1>4. HighCount \in Nat
  BY HighCountIsTotal, CountType
<1> QED BY <1>3, <1>4, HighCapIsMost

\* The intents under way are finitely many.
LEMMA FlightsFinite ==
  ASSUME QueueInv
  PROVE  /\ \A e : IsFiniteSet(InFlight(e)) /\ Cardinality(InFlight(e)) \in Nat
         /\ IsFiniteSet(HighFlight) /\ Cardinality(HighFlight) \in Nat
<1>1. \A e : InFlight(e) \in SUBSET queue
  BY DEF InFlight
<1>2. HighFlight \in SUBSET queue
  BY DEF HighFlight
<1> QED BY <1>1, <1>2, FS_Subset, FS_CardinalityType DEF QueueInv

\* Nothing is held or queued yet.
LEMMA InitLimitsInv == CyclesInit => LimitsInv
<1> SUFFICES ASSUME CyclesInit PROVE LimitsInv
  OBVIOUS
<1>1. queue = {} /\ turn = "refresh" /\ book = EmptyBag
  BY DEF CyclesInit
<1>2. /\ \A e : InFlight(e) = {}
      /\ HighFlight = {} /\ IsFiniteSet({}) /\ Cardinality({}) = 0
  BY <1>1, FS_EmptySet DEF InFlight, HighFlight
<1>3. BookType(book) /\ \A A : CountIn(book, A) = 0
  BY <1>1, CountOfEmpty
<1>4. QueueInv
  <2>1. \A e \in Engines : Cardinality(InFlight(e)) <= MaxCandidates[e]
    BY <1>2, LimitTypes
  <2>2. IsFiniteSet(queue)
    BY <1>1, <1>2
  <2> QED BY <1>1, <1>3, <2>1, <2>2 DEF QueueInv
<1>5. CapacityInv
  <2> SUFFICES ASSUME NEW e \in Engines
               PROVE  CountIn(book, OfEngine(e)) + Cardinality(InFlight(e)) <= Spare(e) + MaxCandidates[e]
    BY DEF CapacityInv
  <2>1. CountIn(book, OfEngine(e)) = 0 /\ Cardinality(InFlight(e)) = 0
    BY <1>2, <1>3
  <2> QED BY <2>1, LimitTypes
<1>6. HighInv
  <2>1. CountIn(book, OfHigh) = 0 /\ Cardinality(HighFlight) = 0
    BY <1>2, <1>3
  <2> QED BY <2>1, HighCapIsMost, LimitTypes DEF HighInv
<1> QED BY <1>4, <1>5, <1>6 DEF LimitsInv

\* A cycle adds at most max_candidates intents to what it found below the limits.
LEMMA CycleKeepsLimits ==
  ASSUME LimitsInv, NEW e \in Engines, turn = e, HasCapacity(e), NEW g \in Regimes,
         NEW found, DOMAIN found \subseteq Coins, NEW intents \in Submitted(e, g, found),
         NEW new \in SUBSET intents, queue' = queue \cup new, book' = book,
         turn' = IF e = "acevault" THEN "drain" ELSE NextTurn(e)
  PROVE  LimitsInv'
<1>1. /\ IsFiniteSet(new) /\ Cardinality(new) \in Nat /\ Cardinality(new) <= MaxCandidates[e]
      /\ \A i \in new : i.engine = e
  <2>1. /\ IsFiniteSet(intents) /\ Cardinality(intents) <= MaxCandidates[e]
        /\ \A i \in intents : i.engine = e
    BY SubmittedFew DEF Intent
  <2>2. IsFiniteSet(new) /\ Cardinality(new) <= Cardinality(intents)
    BY <2>1, FS_Subset
  <2>3. Cardinality(new) \in Nat /\ Cardinality(intents) \in Nat
    BY <2>1, <2>2, FS_CardinalityType
  <2> QED BY <2>1, <2>2, <2>3, LimitTypes
<1>2. QueueInv /\ CapacityInv /\ HighInv
  BY DEF LimitsInv
<1>3. \A i \in queue : i.engine # e
  BY <1>2, EnginesAre DEF QueueInv
<1>4. \A d \in Engines : InFlight(d)' = IF d = e THEN new ELSE InFlight(d)
  BY <1>1, <1>3 DEF InFlight
<1>5. QueueInv'
  <2>1. IsFiniteSet(queue')
    BY <1>1, <1>2, FS_Union DEF QueueInv
  <2>2. \A d \in Engines : Cardinality(InFlight(d)') <= MaxCandidates[d]
    BY <1>1, <1>2, <1>4 DEF QueueInv
  <2>3. CASE e = "acevault"
    <3>1. queue = {} /\ turn' = "drain"
      BY <1>2, <2>3 DEF QueueInv
    <3> QED BY <1>1, <1>2, <2>1, <2>2, <2>3, <3>1 DEF QueueInv
  <2>4. CASE e = "growi"
    <3>1. queue = {} /\ turn' = "mc"
      BY <1>2, <2>4 DEF QueueInv, NextTurn
    <3> QED BY <1>1, <1>2, <2>1, <2>2, <2>4, <3>1 DEF QueueInv
  <2>5. CASE e = "mc"
    <3>1. turn' = "execute" /\ \A i \in queue : i.engine = "growi"
      BY <1>2, <2>5 DEF QueueInv, NextTurn
    <3> QED BY <1>1, <1>2, <2>1, <2>2, <2>5, <3>1 DEF QueueInv, TrackA
  <2> QED BY <2>3, <2>4, <2>5, LimitTypes
<1>6. CapacityInv'
  <2>1. CountIn(book, OfEngine(e)) = OpenOf(e) /\ CountIn(book, OfEngine(e)) \in Nat
    BY <1>2, OpenOfIsTotal, CountType DEF QueueInv
  <2>2. CountIn(book, OfEngine(e)) <= Spare(e)
    <3>1. OpenOf(e) < MaxConcurrent[e]
      BY DEF HasCapacity
    <3>2. MaxConcurrent[e] \in Nat /\ Spare(e) \in Nat /\ Spare(e) >= MaxConcurrent[e] - 1
      BY LimitTypes
    <3> QED BY <2>1, <3>1, <3>2
  <2>3. ASSUME NEW d \in Engines
        PROVE  CountIn(book, OfEngine(d)) + Cardinality(InFlight(d)')
                 <= Spare(d) + MaxCandidates[d]
    <3>1. CASE d = e
      <4>1. InFlight(e)' = new
        BY <1>4
      <4>2. Spare(e) \in Nat /\ MaxCandidates[e] \in Nat
        BY LimitTypes
      <4>3. CountIn(book, OfEngine(e)) + Cardinality(new) <= Spare(e) + MaxCandidates[e]
        BY <1>1, <2>1, <2>2, <4>2
      <4> QED BY <3>1, <4>1, <4>3
    <3>2. CASE d # e
      BY <1>2, <1>4, <3>2 DEF CapacityInv
    <3> QED BY <3>1, <3>2
  <2> QED BY <2>3 DEF CapacityInv
<1>7. HighInv'
  <2> SUFFICES ASSUME HighLeverage > 1
               PROVE  CountIn(book, OfHigh) + Cardinality(HighFlight')
                        <= HighSpare + TickBatch
    BY DEF HighInv
  <2>1. CASE \A i \in new : ~(i.lev >= HighLeverage)
    <3>1. HighFlight' = HighFlight
      BY <2>1 DEF HighFlight
    <3> QED BY <1>2, <3>1 DEF HighInv
  <2>2. CASE \E i \in new : i.lev >= HighLeverage
    <3> DEFINE n == CountIn(book, OfHigh)
               m == HighSpare
    <3>1. n = HighCount /\ n \in Nat
      BY <1>2, HighCountIsTotal, CountType DEF QueueInv
    <3>2. n <= HighCap - 1
      <4>1. PICK i \in new : i.lev >= HighLeverage
        BY <2>2
      <4>2. PICK c : i = Intent(e, g, c, found[c])
        BY SubmittedFew
      <4>3. Intent(e, g, c, found[c]).lev >= HighLeverage
        BY <4>1, <4>2
      <4>4. HighCount <= HighCap - 1
        BY <1>2, <4>3, HighIntentsHaveRoom DEF QueueInv
      <4> QED BY <3>1, <4>4
    <3>3. m \in Int /\ n <= m
      BY <3>1, <3>2, HighCapIsMost
    <3>4. Cardinality(HighFlight') <= TickBatch /\ Cardinality(HighFlight') \in Nat
      <4>1. HighFlight' \in SUBSET (queue \cup new)
        BY DEF HighFlight
      <4>2. IsFiniteSet(queue \cup new) /\ Cardinality(queue \cup new) <= TickBatch
        <5>1. CASE e # "mc"
          <6>1. queue = {}
            BY <1>2, <5>1, EnginesAre DEF QueueInv
          <6>2. queue \cup new = new
            BY <6>1
          <6>3. MaxCandidates[e] \in Nat /\ TickBatch \in Nat /\ MaxCandidates[e] <= TickBatch
            <7>1. CASE e = "acevault"
              BY <7>1, LimitTypes
            <7>2. CASE e = "growi"
              <8>1. MaxCandidates["growi"] \in Nat /\ MaxCandidates["mc"] \in Nat
                BY LimitTypes
              <8> QED BY <7>2, <8>1, LimitTypes
            <7> QED BY <5>1, <7>1, <7>2, EnginesAre
          <6>4. Cardinality(new) <= TickBatch
            BY <1>1, <6>3
          <6> QED BY <1>1, <6>2, <6>4
        <5>2. CASE e = "mc"
          <6>1. queue = InFlight("growi")
            BY <1>2, <5>2 DEF QueueInv, InFlight
          <6>2. IsFiniteSet(queue) /\ Cardinality(queue) \in Nat /\ Cardinality(queue) <= MaxCandidates["growi"]
            BY <1>2, <6>1, FlightsFinite, LimitTypes DEF QueueInv
          <6>3. queue \cap new = {}
            BY <1>1, <1>3
          <6>4. Cardinality(queue \cup new) = Cardinality(queue) + Cardinality(new)
            <7>1. Cardinality(queue \cup new)
                    = Cardinality(queue) + Cardinality(new) - Cardinality(queue \cap new)
              BY <1>1, <6>2, FS_Union
            <7>2. Cardinality(queue \cap new) = 0
              BY <6>3, FS_EmptySet
            <7> QED BY <1>1, <6>2, <7>1, <7>2
          <6>5. IsFiniteSet(queue \cup new)
            BY <1>1, <6>2, FS_Union
          <6> QED BY <1>1, <5>2, <6>2, <6>4, <6>5, LimitTypes
        <5> QED BY <5>1, <5>2
      <4>3. IsFiniteSet(HighFlight') /\ Cardinality(HighFlight') <= Cardinality(queue \cup new)
        BY <4>1, <4>2, FS_Subset
      <4>4. Cardinality(HighFlight') \in Nat /\ Cardinality(queue \cup new) \in Nat
        BY <4>2, <4>3, FS_CardinalityType
      <4> QED BY <4>2, <4>3, <4>4, LimitTypes
    <3> HIDE DEF n, m
    <3>5. n + Cardinality(HighFlight') <= m + TickBatch
      BY <3>1, <3>3, <3>4, LimitTypes
    <3> QED BY <3>5 DEF n, m
  <2> QED BY <2>1, <2>2
<1> QED BY <1>5, <1>6, <1>7 DEF LimitsInv

\* An intent that fills is a position in its place, one that is rejected is gone.
LEMMA SettleKeepsLimits ==
  ASSUME LimitsInv, NEW i \in queue, Filled(i) \/ Rejected(i)
  PROVE  LimitsInv'
<1>1. QueueInv /\ CapacityInv /\ HighInv
  BY DEF LimitsInv
<1>2. turn' = turn /\ turn \in {"drain", "execute"} /\ queue' = queue \ {i}
  BY DEF Filled, Rejected, Settle
<1>3. i.engine \in Engines
  BY <1>1, <1>2 DEF QueueInv, Engines
<1>4. Position(i) \in Places /\ Position(i).engine = i.engine
      /\ Position(i).high = (i.lev >= HighLeverage)
  <2>1. (i.lev >= HighLeverage) \in BOOLEAN
    OBVIOUS
  <2> QED BY <1>3, <2>1 DEF Position, Places
<1>5. /\ BookType(book')
      /\ \A A : \/ CountIn(book', A) = CountIn(book, A)
                \/ CountIn(book', A) = CountIn(book, A) + (IF Position(i) \in A THEN 1 ELSE 0)
  <2>1. CASE Filled(i)
    <3>1. book' = book (+) SetToBag({Position(i)})
      BY <2>1 DEF Filled, Settle
    <3> QED BY <1>1, <1>4, <3>1, CountWith DEF QueueInv
  <2>2. CASE Rejected(i)
    BY <1>1, <2>2 DEF Rejected, Settle, QueueInv
  <2> QED BY <2>1, <2>2
<1>6. \A A : CountIn(book, A) \in Nat /\ CountIn(book', A) \in Nat
  BY <1>1, <1>5, CountType DEF QueueInv
<1>7. \A d : InFlight(d)' = InFlight(d) \ {i}
  BY <1>2 DEF InFlight
<1>8. \A d : Cardinality(InFlight(d)') =
            IF i.engine = d THEN Cardinality(InFlight(d)) - 1 ELSE Cardinality(InFlight(d))
  <2>1. \A d : i \in InFlight(d) <=> i.engine = d
    BY DEF InFlight
  <2> QED BY <1>1, <1>7, <2>1, FlightsFinite, FS_RemoveElement
<1>9. QueueInv'
  <2>1. IsFiniteSet(queue')
    BY <1>1, <1>2, FS_RemoveElement DEF QueueInv
  <2>2. \A d \in Engines : Cardinality(InFlight(d)') <= MaxCandidates[d]
    BY <1>1, <1>8, FlightsFinite, LimitTypes DEF QueueInv
  <2> QED BY <1>1, <1>2, <1>5, <2>1, <2>2 DEF QueueInv
<1>10. CapacityInv'
  <2> SUFFICES ASSUME NEW d \in Engines
               PROVE  CountIn(book', OfEngine(d)) + Cardinality(InFlight(d)')
                        <= Spare(d) + MaxCandidates[d]
    BY DEF CapacityInv
  <2>1. Position(i) \in OfEngine(d) <=> i.engine = d
    BY <1>4 DEF OfEngine
  <2>2. CountIn(book', OfEngine(d)) <= CountIn(book, OfEngine(d)) + (IF i.engine = d THEN 1 ELSE 0)
    BY <1>5, <1>6, <2>1
  <2>3. /\ CountIn(book, OfEngine(d)) \in Nat /\ CountIn(book', OfEngine(d)) \in Nat
        /\ Cardinality(InFlight(d)) \in Nat
    BY <1>1, <1>6, FlightsFinite
  <2>4. CountIn(book, OfEngine(d)) + Cardinality(InFlight(d))
          <= Spare(d) + MaxCandidates[d]
    BY <1>1 DEF CapacityInv
  <2>5. Spare(d) \in Nat /\ MaxCandidates[d] \in Nat
    BY LimitTypes
  <2>6. CASE i.engine = d
    <3>1. Cardinality(InFlight(d)') = Cardinality(InFlight(d)) - 1
      BY <1>8, <2>6
    <3> QED BY <2>2, <2>3, <2>4, <2>5, <2>6, <3>1
  <2>7. CASE i.engine # d
    <3>1. Cardinality(InFlight(d)') = Cardinality(InFlight(d))
      BY <1>8, <2>7
    <3> QED BY <2>2, <2>3, <2>4, <2>5, <2>7, <3>1
  <2> QED BY <2>6, <2>7
<1>11. HighInv'
  <2> SUFFICES ASSUME HighLeverage > 1
               PROVE  CountIn(book', OfHigh) + Cardinality(HighFlight')
                        <= HighSpare + TickBatch
    BY DEF HighInv
  <2>1. Position(i) \in OfHigh <=> i.lev >= HighLeverage
    BY <1>4 DEF OfHigh
  <2>2. CountIn(book', OfHigh) <= CountIn(book, OfHigh) + (IF i.lev >= HighLeverage THEN 1 ELSE 0)
    BY <1>5, <1>6, <2>1
  <2>3. HighFlight' = HighFlight \ {i} /\ (i \in HighFlight <=> i.lev >= HighLeverage)
    BY <1>2 DEF HighFlight
  <2>4. Cardinality(HighFlight') =
          IF i.lev >= HighLeverage THEN Cardinality(HighFlight) - 1 ELSE Cardinality(HighFlight)
    BY <1>1, <2>3, FlightsFinite, FS_RemoveElement
  <2>5. /\ CountIn(book, OfHigh) \in Nat /\ CountIn(book', OfHigh) \in Nat
        /\ Cardinality(HighFlight) \in Nat
    BY <1>1, <1>6, FlightsFinite
  <2>6. HighSpare \in Int
    BY HighCapIsMost
  <2>7. CountIn(book, OfHigh) + Cardinality(HighFlight) <= HighSpare + TickBatch
    BY <1>1 DEF HighInv
  <2> QED BY <2>2, <2>4, <2>5, <2>6, <2>7, LimitTypes
<1> QED BY <1>9, <1>10, <1>11 DEF LimitsInv

\* A position that closes makes room.
LEMMA ClosingKeepsLimits ==
  ASSUME LimitsInv, NEW p \in DOMAIN book, PositionCloses(p)
  PROVE  LimitsInv'
<1>1. QueueInv /\ CapacityInv /\ HighInv
  BY DEF LimitsInv
<1>2. turn' = turn /\ queue' = queue /\ book' = book (-) SetToBag({p})
  BY DEF PositionCloses
<1>3. BookType(book') /\ \A A : CountIn(book', A) <= CountIn(book, A)
  BY <1>1, <1>2, CountWithout DEF QueueInv
<1>4. \A A : CountIn(book, A) \in Nat /\ CountIn(book', A) \in Nat
  BY <1>1, <1>3, CountType DEF QueueInv
<1>5. HighFlight' = HighFlight /\ \A d : InFlight(d)' = InFlight(d)
  BY <1>2 DEF HighFlight, InFlight
<1>6. QueueInv'
  BY <1>1, <1>2, <1>3, <1>5 DEF QueueInv
<1>7. CapacityInv'
  <2> SUFFICES ASSUME NEW d \in Engines
               PROVE  CountIn(book', OfEngine(d)) + Cardinality(InFlight(d)) <= Spare(d) + MaxCandidates[d]
    BY <1>5 DEF CapacityInv
  <2>1. CountIn(book, OfEngine(d)) + Cardinality(InFlight(d)) <= Spare(d) + MaxCandidates[d]
    BY <1>1 DEF CapacityInv
  <2>2. Cardinality(InFlight(d)) \in Nat /\ Spare(d) \in Nat /\ MaxCandidates[d] \in Nat
    BY <1>1, FlightsFinite, LimitTypes
  <2> QED BY <1>3, <1>4, <2>1, <2>2
<1>8. HighInv'
  <2> SUFFICES ASSUME HighLeverage > 1
               PROVE  CountIn(book', OfHigh) + Cardinality(HighFlight) <= HighSpare + TickBatch
    BY <1>5 DEF HighInv
  <2>1. CountIn(book, OfHigh) + Cardinality(HighFlight) <= HighSpare + TickBatch
    BY <1>1 DEF HighInv
  <2>2. Cardinality(HighFlight) \in Nat
    BY <1>1, FlightsFinite
  <2>3. CountIn(book', OfHigh) <= CountIn(book, OfHigh)
        /\ CountIn(book, OfHigh) \in Nat /\ CountIn(book', OfHigh) \in Nat
    BY <1>3, <1>4
  <2> QED BY <2>1, <2>2, <2>3, HighCapIsMost, LimitTypes
<1> QED BY <1>6, <1>7, <1>8 DEF LimitsInv

\* A turn that passes without an intent changes no bound.
LEMMA WaitingKeepsLimits ==
  ASSUME LimitsInv, queue' = queue, book' = book,
         \/ turn' = turn
         \/ turn \in Engines /\ turn' = NextTurn(turn)
         \/ turn = "refresh" /\ turn' = "acevault"
         \/ queue = {} /\ turn' \in {"growi", "refresh"}
  PROVE  LimitsInv'
<1>1. QueueInv /\ CapacityInv /\ HighInv
  BY DEF LimitsInv
<1>2. HighFlight' = HighFlight /\ \A d : InFlight(d)' = InFlight(d)
  BY DEF HighFlight, InFlight
<1>3. CapacityInv' /\ HighInv'
  BY <1>1, <1>2 DEF CapacityInv, HighInv
<1>4. QueueInv'
  <2>1. /\ BookType(book') /\ IsFiniteSet(queue')
        /\ \A e \in Engines : Cardinality(InFlight(e)') <= MaxCandidates[e]
    BY <1>1, <1>2 DEF QueueInv
  <2>2. CASE turn' = turn
    BY <1>1, <2>1, <2>2 DEF QueueInv
  <2>3. CASE turn = "acevault" /\ turn' = NextTurn(turn)
    BY <1>1, <2>1, <2>3 DEF QueueInv, NextTurn
  <2>4. CASE turn = "growi" /\ turn' = NextTurn(turn)
    BY <1>1, <2>1, <2>4 DEF QueueInv, NextTurn
  <2>5. CASE turn = "mc" /\ turn' = NextTurn(turn)
    BY <1>1, <2>1, <2>5, EnginesAre DEF QueueInv, NextTurn
  <2>6. CASE turn = "refresh" /\ turn' = "acevault"
    BY <1>1, <2>1, <2>6 DEF QueueInv
  <2>7. CASE queue = {} /\ turn' \in {"growi", "refresh"}
    BY <2>1, <2>7 DEF QueueInv
  <2> QED BY <2>2, <2>3, <2>4, <2>5, <2>6, <2>7, EnginesAre
<1> QED BY <1>3, <1>4 DEF LimitsInv

\* The setups found are setups of coins the venue quotes.
LEMMA SetupsAreOfCoins ==
  /\ \A e : \A found \in TrackASetups(e) : DOMAIN found \subseteq Coins
  /\ \A found \in AceSetups : DOMAIN found \subseteq Coins
<1>1. ASSUME NEW S, NEW n, NEW V(_), NEW T \in Best(S, n, V) PROVE T \subseteq S
  BY DEF Best, kSubset
<1>2. ASSUME NEW e, NEW S, NEW top \in Evaluated(e, S) PROVE top \subseteq S
  BY DEF Evaluated, Best, kSubset
<1>3. ASSUME NEW e, NEW found \in TrackASetups(e) PROVE DOMAIN found \subseteq Coins
  <2>1. PICK top \in Evaluated(e, Coins) : DOMAIN found = top \ Disabled
    BY DEF TrackASetups
  <2> QED BY <1>2, <2>1
<1>4. ASSUME NEW found \in AceSetups PROVE DOMAIN found \subseteq Coins
  <2> DEFINE Pooled(top, shown) ==
               {[c \in pool |-> shown[c]] :
                  pool \in Best({c \in top : shown[c] # NoSetup}, AcePool, LAMBDA c : shown[c].raw)}
             Pools == {Pooled(top, shown) : top \in Evaluated("acevault", Coins \ Disabled),
                                            shown \in WeaknessScores}
  <2>1. PICK top \in Evaluated("acevault", Coins \ Disabled) : DOMAIN found \subseteq top
    <3>1. AceSetups = UNION Pools
      BY DEF AceSetups
    <3>2. ASSUME NEW top, NEW shown, found \in Pooled(top, shown) PROVE DOMAIN found \subseteq top
      BY <3>2 DEF Best, kSubset
    <3> HIDE DEF Pools, Pooled
    <3>3. PICK X \in Pools : found \in X
      BY <3>1
    <3>4. PICK top \in Evaluated("acevault", Coins \ Disabled), shown \in WeaknessScores :
            X = Pooled(top, shown)
      BY DEF Pools
    <3> QED BY <3>2, <3>3, <3>4
  <2>2. top \subseteq Coins \ Disabled
    BY <1>2
  <2> QED BY <2>1, <2>2
<1> QED BY <1>3, <1>4

\* Every step of the cycles keeps to the limits.
LEMMA NextLimitsInv ==
  ASSUME LimitsInv, [CyclesNext]_cyclesVars
  PROVE  LimitsInv'
<1>1. CASE RefreshIfNeeded
  BY <1>1, WaitingKeepsLimits DEF RefreshIfNeeded
<1>2. CASE AceCycle
  <2>1. turn = "acevault" /\ turn' = "drain" /\ HasCapacity("acevault") /\ book' = book
    BY <1>2 DEF AceCycle
  <2>2. PICK g \in Regimes, found \in AceSetups :
          \E intents \in Submitted("acevault", g, found) : \E new \in SUBSET intents : queue' = new
    BY <1>2 DEF AceCycle
  <2>3. PICK intents \in Submitted("acevault", g, found) : \E new \in SUBSET intents : queue' = new
    BY <2>2
  <2>4. queue = {}
    BY <2>1 DEF LimitsInv, QueueInv
  <2>5. PICK new \in SUBSET intents : queue' = queue \cup new
    BY <2>3, <2>4
  <2> QED BY <2>1, <2>5, EnginesAre, SetupsAreOfCoins, CycleKeepsLimits
<1>3. CASE Settled
  BY <1>3, WaitingKeepsLimits DEF Settled
<1>4. CASE ContextAges
  BY <1>4, WaitingKeepsLimits DEF ContextAges
<1>5. ASSUME NEW e \in TrackA, Cycle(e) PROVE LimitsInv'
  <2>1. turn = e /\ turn' = NextTurn(e) /\ HasCapacity(e) /\ book' = book
    BY <1>5 DEF Cycle
  <2>2. PICK g \in Allowed[e], found \in TrackASetups(e) :
          \E intents \in Submitted(e, g, found) : queue' = queue \cup intents
    BY <1>5 DEF Cycle
  <2>3. PICK intents \in Submitted(e, g, found) : queue' = queue \cup intents
    BY <2>2
  <2>4. g \in Regimes
    BY OpportunityConstants
  <2>5. e \in Engines /\ e # "acevault"
    BY EnginesAre
  <2> QED BY <2>1, <2>3, <2>4, <2>5, SetupsAreOfCoins, CycleKeepsLimits
<1>6. ASSUME NEW e \in Engines, SitOut(e) PROVE LimitsInv'
  BY <1>6, WaitingKeepsLimits DEF SitOut
<1>7. ASSUME NEW i \in queue, Filled(i) \/ Rejected(i) PROVE LimitsInv'
  BY <1>7, SettleKeepsLimits
<1>8. ASSUME NEW p \in DOMAIN book, PositionCloses(p) PROVE LimitsInv'
  BY <1>8, ClosingKeepsLimits
<1>9. CASE UNCHANGED cyclesVars
  BY <1>9, WaitingKeepsLimits DEF cyclesVars
<1> QED BY <1>1, <1>2, <1>3, <1>4, <1>5, <1>6, <1>7, <1>8, <1>9 DEF CyclesNext

\* What is open and on its way keeps to the limits at all times.
LEMMA LimitsHold == CyclesSpec => []LimitsInv
BY InitLimitsInv, NextLimitsInv, PTL DEF CyclesSpec

\* However intents are delayed and positions close, a strategy passes
\* max_concurrent_positions by the rest of one batch at most
\* (src/engines: run_cycle checks its capacity before it ranks).
THEOREM CapacityOvershootIsBounded == CyclesSpec => []CapacityOvershootBounded
<1>1. LimitsInv => CapacityOvershootBounded
  <2> SUFFICES ASSUME LimitsInv, NEW e \in Engines
               PROVE  OpenOf(e) <= Spare(e) + MaxCandidates[e]
    BY DEF CapacityOvershootBounded, Spare
  <2>1. QueueInv /\ CapacityInv
    BY DEF LimitsInv
  <2>2. OpenOf(e) = CountIn(book, OfEngine(e)) /\ CountIn(book, OfEngine(e)) \in Nat
    BY <2>1, OpenOfIsTotal, CountType DEF QueueInv
  <2>3. Cardinality(InFlight(e)) \in Nat /\ Spare(e) \in Nat /\ MaxCandidates[e] \in Nat
    BY <2>1, FlightsFinite, LimitTypes
  <2>4. CountIn(book, OfEngine(e)) + Cardinality(InFlight(e)) <= Spare(e) + MaxCandidates[e]
    BY <2>1 DEF CapacityInv
  <2> QED BY <2>2, <2>3, <2>4
<1> QED BY <1>1, LimitsHold, PTL

\* The high-leverage cap is read against the book alone, so one tick may pass
\* it by what it proposes and no more.  With a threshold of 1 even a capped
\* leverage is high (leverage_policy.py: max(1, thr - 1)), and no cap holds.
THEOREM HighLeverageIsBounded == HighLeverage > 1 => (CyclesSpec => []HighLeverageOvershootBounded)
<1> SUFFICES ASSUME HighLeverage > 1 PROVE CyclesSpec => []HighLeverageOvershootBounded
  OBVIOUS
<1>1. LimitsInv => HighLeverageOvershootBounded
  <2> SUFFICES ASSUME LimitsInv PROVE HighCount <= HighSpare + TickBatch
    BY DEF HighLeverageOvershootBounded, HighSpare, HighCap, TickBatch
  <2>1. QueueInv /\ HighInv
    BY DEF LimitsInv
  <2>2. HighCount = CountIn(book, OfHigh) /\ CountIn(book, OfHigh) \in Nat
    BY <2>1, HighCountIsTotal, CountType DEF QueueInv
  <2>3. Cardinality(HighFlight) \in Nat
    BY <2>1, FlightsFinite
  <2>4. CountIn(book, OfHigh) + Cardinality(HighFlight) <= HighSpare + TickBatch
    BY <2>1 DEF HighInv
  <2> QED BY <2>2, <2>3, <2>4, HighCapIsMost, LimitTypes
<1> QED BY <1>1, LimitsHold, PTL
=============================================================================
