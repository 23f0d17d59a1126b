---------------------------- MODULE TradingTick -----------------------------
(***************************************************************************)
(* One trading process: the main loop (src/main.py) runs                   *)
(* StrategyOrchestrator.run_tick again and again; a tick is                *)
(*                                                                         *)
(*   Track A exits -> AceVault cycle (exits, admission, Fathom advice,     *)
(*   submission) -> the Track A strategies in execution order -> conflict  *)
(*   policy -> TrackAExecutor -> idle.                                     *)
(*                                                                         *)
(* Everything runs on one asyncio loop, so an action is the code between   *)
(* two awaits; between them the retro task may hot-reload the config, the  *)
(* venue may act on its own, and the process may die.  The venue holds one *)
(* netted position per coin and is changed only through DegenClawAcp,      *)
(* whose answer need not agree with what the venue did.                    *)
(***************************************************************************)
EXTENDS UnifiedRisk, ConflictPolicy

CONSTANTS
  Coins,
  TrackA,          \* engine ids of the Track A strategies
  Ids,             \* bounds the uuid4 position ids in use at once
  AceSizes,        \* what PositionSizer may return for an AceVault signal
  TrackASize,      \* default_position_size_usd of the Track A strategies
  ReducedPct,      \* risk.safety_mode.position_multiplier, in percent
  FathomPcts,      \* Fathom size multipliers the clamp lets through, in percent
  AceCap0,         \* acevault.max_concurrent_positions at start
  AceCaps,         \* and what the retro loop and operators may make of it
  TrackACap,       \* max_concurrent_positions of a Track A strategy
  MaxCandidates,   \* acevault.max_candidates
  MaxIntents,      \* strategies.<key>.max_candidates
  Dollar,          \* sizes are counted in fractions of a dollar: this many to one
  MaxNotional,     \* what the account's margin lets the venue hold on one coin
  Faults,          \* which of the venue faults below may happen
  Events,          \* which of the events outside the tick may happen
  SyncOnStartup,   \* orchestration.hl_sync_on_startup
  KillCallers      \* engines whose losses some caller reports to KillSwitch.record_loss

Engines == {Acevault, Recovered} \cup TrackA

Outcomes == {"filled", "refused", "unfilled", "lost", "raised", "cut"}

OutsideEvents == {"reload", "external", "crash"}

ASSUME TickConstants ==
  /\ IsFiniteSet(Coins) /\ IsFiniteSet(TrackA)
  /\ Acevault \notin TrackA /\ Recovered \notin TrackA
  /\ \A e \in TrackA : \E k \in DOMAIN ExecutionOrder : ExecutionOrder[k] = e
  /\ AceSizes \subseteq Nat /\ TrackASize \in Nat
  /\ ReducedPct \in 1..100 /\ FathomPcts \subseteq Nat
  /\ AceCaps \subseteq Nat \ {0} /\ AceCap0 \in AceCaps /\ TrackACap \in Nat
  /\ Dollar \in Nat \ {0}
  /\ MaxCandidates \in Nat /\ MaxIntents \in Nat /\ MaxNotional \in Nat
  /\ Faults \subseteq Outcomes \ {"filled"}
  /\ Events \subseteq OutsideEvents
  /\ SyncOnStartup \in BOOLEAN
  /\ KillCallers \subseteq Engines

VARIABLES
  phase,      \* where the tick is suspended
  book,       \* PortfolioState._positions
  aceOpen,    \* AceVaultEngine._open_positions
  venue,      \* the signed notional per coin the exchange holds
  exits,      \* positions found due, still to be closed
  orders,     \* intents that survived the conflict policy, still to execute
  batch,      \* valid_signals of the AceVault cycle, not yet submitted
  inflight,   \* the AceVault position whose journal call is awaited
  scanned,    \* Track A strategies that already ran in this tick
  intents,    \* track_a_intents collected in this tick
  safety,     \* UnifiedRiskLayer._safety_position_multiplier, in percent
  aceCap,     \* the live acevault.max_concurrent_positions
  tripped,    \* engines for which KillSwitch.is_active answers True
  admittedAt, \* history: the capacity when AceVault last admitted a batch
  doubt       \* history: coins on which some answer or restart lost the truth

tickVars  == <<phase, exits, orders, batch, inflight, scanned, intents>>
bookVars  == <<book, aceOpen>>
cfgVars   == <<safety, aceCap, tripped, admittedAt>>
vars == <<tickVars, bookVars, venue, cfgVars, doubt>>

Phases == {"idle", "trackAExits", "aceExits", "aceExitLog", "fathom",
           "aceEntryLog", "trackAScan", "execute", "down"}

Position == [id : Ids, engine : Engines, coin : Coins, side : Sides, size : Nat]

\* An intent carries no id yet; the executor gives it one when it registers.
Intent == [engine : TrackA, coin : Coins, side : Sides]

-----------------------------------------------------------------------------
FreeIds == Ids \ {p.id : p \in book \cup inflight}

\* The exchange acts on "filled", on "lost" (DegenClawAcp timed out and answers
\* success=False) and on "cut" (the job was sent, then reading the answer
\* raised); the caller is told success on "filled" and on "unfilled" (the ACP
\* job was created but the provider never executed it).
VenueActs(o) == o \in {"filled", "lost", "cut"}
Accepted(o)  == o \in {"filled", "unfilled"}
Raises(o)    == o \in {"raised", "cut"}

\* submit_trade sends the size cut to whole dollars; the book keeps it uncut.
Delivered(p) == Signed([p EXCEPT !.size = (@ \div Dollar) * Dollar])

\* submit_trade refuses a size below the minimum before it calls the venue; what
\* the margin does not cover the venue never opens, whatever the caller is told.
Affordable(p) == venue[p.coin] + Delivered(p) \in -MaxNotional..MaxNotional

SubmitOutcomes(p) ==
  IF p.size < MinTrade THEN {"refused"}
  ELSE IF Affordable(p) THEN {"filled"} \cup Faults
       ELSE {"refused"} \cup {o \in Faults : ~VenueActs(o)}

CloseOutcomes == {"filled"} \cup Faults

VenueOpens(p, o) ==
  venue' = IF VenueActs(o) THEN [venue EXCEPT ![p.coin] = @ + Delivered(p)] ELSE venue

\* A close names only the coin: the venue flattens its whole net position.
VenueCloses(p, o) ==
  venue' = IF VenueActs(o) THEN [venue EXCEPT ![p.coin] = 0] ELSE venue

\* An answer leaves the book wrong about a coin when the caller and the venue
\* disagree, or when a close also flattened what another position holds there.
DoubtAfterOpen(p, o, registers) ==
  doubt' = IF registers = VenueActs(o) THEN doubt ELSE doubt \cup {p.coin}

DoubtAfterClose(p, o, drops) ==
  doubt' = IF /\ drops = VenueActs(o)
              /\ VenueActs(o) => \A q \in book \ {p} : q.coin # p.coin
           THEN doubt ELSE doubt \cup {p.coin}

Init ==
  /\ phase = "idle"
  /\ book = {} /\ aceOpen = {}
  /\ venue = [c \in Coins |-> 0]
  /\ exits = {} /\ orders = {} /\ batch = {} /\ inflight = {} /\ scanned = {} /\ intents = {}
  /\ safety = 100 /\ aceCap = AceCap0 /\ tripped = {} /\ admittedAt = AceCap0
  /\ doubt = {}

(***************************************************************************)
(* refresh_safety_mode, then the head of run_tick: LiveExitEngine decides  *)
(* which Track A positions are due.  It is asked about the Track A engines *)
(* only, never about "recovered".                                          *)
(***************************************************************************)
TickStart ==
  /\ phase = "idle"
  /\ safety' \in {ReducedPct, 100}
  /\ exits' \in SUBSET {p \in book : p.engine \in TrackA}
  /\ phase' = "trackAExits"
  /\ UNCHANGED <<bookVars, venue, orders, batch, inflight, scanned, intents, aceCap,
                 tripped, admittedAt, doubt>>

\* Mutant: a close that raises ends the pass over the others.
FailedCloseEndsPass(p, o) ==
  /\ phase = "trackAExits"
  /\ p \in exits
  /\ exits' = IF Raises(o) THEN {} ELSE exits \ {p}
  /\ VenueCloses(p, o)
  /\ book' = IF Raises(o) THEN book ELSE book \ {p}
  /\ DoubtAfterClose(p, o, ~Raises(o))
  /\ UNCHANGED <<phase, aceOpen, orders, batch, inflight, scanned, intents, cfgVars>>

\* _apply_close: the position is dropped unless submit_close raises.
TrackAClose(p, o) ==
  /\ phase = "trackAExits"
  /\ p \in exits
  /\ exits' = exits \ {p}
  /\ VenueCloses(p, o)
  /\ book' = IF Raises(o) THEN book ELSE book \ {p}
  /\ DoubtAfterClose(p, o, ~Raises(o))
  /\ UNCHANGED <<phase, aceOpen, orders, batch, inflight, scanned, intents, cfgVars>>

\* AceVault is not due, disabled, raises, or its regime weight is zero: then
\* the cycle returns before it looks at its open positions.
AceSkip ==
  /\ phase = "trackAExits" /\ exits = {}
  /\ phase' = "trackAScan"
  /\ UNCHANGED <<bookVars, venue, exits, orders, batch, inflight, scanned, intents,
                 cfgVars, doubt>>

\* check_exits picks the AceVault positions to close.
AceBegin ==
  /\ phase = "trackAExits" /\ exits = {}
  /\ phase' = "aceExits"
  /\ exits' \in SUBSET aceOpen
  /\ UNCHANGED <<bookVars, venue, orders, batch, inflight, scanned, intents, cfgVars, doubt>>

\* submit_close, up to the await of journal.log_exit.
AceClose(p, o) ==
  /\ phase = "aceExits" /\ p \in exits
  /\ exits' = exits \ {p}
  /\ inflight' = {p}
  /\ phase' = "aceExitLog"
  /\ VenueCloses(p, o)
  /\ DoubtAfterClose(p, o, TRUE)
  /\ UNCHANGED <<bookVars, orders, batch, scanned, intents, cfgVars>>

\* Mutant: the engine's own list keeps what PortfolioState dropped.
DropsFromPortfolioOnly ==
  /\ phase = "aceExitLog"
  /\ book' = book \ inflight
  /\ inflight' = {}
  /\ phase' = "aceExits"
  /\ UNCHANGED <<aceOpen, venue, exits, orders, batch, scanned, intents, cfgVars, doubt>>

\* After the journal call, failed or not: the position leaves both books.
AceDropClosed ==
  /\ phase = "aceExitLog"
  /\ book' = book \ inflight
  /\ aceOpen' = aceOpen \ inflight
  /\ inflight' = {}
  /\ phase' = "aceExits"
  /\ UNCHANGED <<venue, exits, orders, batch, scanned, intents, cfgVars, doubt>>

\* The kill switch stops new AceVault entries; the exits have already run.
AceKilled ==
  /\ phase = "aceExits" /\ exits = {}
  /\ Acevault \in tripped
  /\ phase' = "trackAScan"
  /\ UNCHANGED <<bookVars, venue, exits, orders, batch, inflight, scanned, intents,
                 cfgVars, doubt>>

\* The scan or a gate raises: run_tick catches it and goes on to Track A.
AceScanFails ==
  /\ phase = "aceExits" /\ exits = {}
  /\ Acevault \notin tripped
  /\ phase' = "trackAScan"
  /\ UNCHANGED <<bookVars, venue, exits, orders, batch, inflight, scanned, intents,
                 cfgVars, doubt>>

AceSignal(coin, size) ==
  [engine |-> Acevault, coin |-> coin, side |-> "short", size |-> size]

\* Mutants: the capacity off by one; the duplicate check dropped.
EntersAtCapacity(coin) ==
  /\ \A p \in OpenPositions(book, Acevault) : p.coin # coin
  /\ Cardinality(OpenPositions(book, Acevault)) <= aceCap

EntersTwice(coin) == Cardinality(OpenPositions(book, Acevault)) < aceCap

\* should_enter's gates that read the portfolio: duplicate and capacity.
ShouldEnter(coin) ==
  /\ \A p \in OpenPositions(book, Acevault) : p.coin # coin
  /\ Cardinality(OpenPositions(book, Acevault)) < aceCap

(***************************************************************************)
(* The scan and the candidate loop, one synchronous stretch of code: every *)
(* candidate is gated and validated against the same book, because none is *)
(* registered until all of them have been looked at.                       *)
(***************************************************************************)
AceAdmit ==
  /\ phase = "aceExits" /\ exits = {}
  /\ Acevault \notin tripped
  /\ \E cands \in SUBSET Coins :
       /\ Cardinality(cands) <= MaxCandidates
       /\ Cardinality(cands) <= Cardinality(FreeIds)
       /\ \E size \in [cands -> AceSizes] :
            batch' = {s \in {AceSignal(c, SafetySized(size[c], safety)) : c \in cands} :
                        ShouldEnter(s.coin) /\ Approves(book, tripped, s)}
  /\ admittedAt' = IF batch' = {} THEN admittedAt ELSE aceCap
  /\ phase' = "fathom"
  /\ UNCHANGED <<bookVars, venue, exits, orders, inflight, scanned, intents, safety,
                 aceCap, tripped, doubt>>

\* The position an accepted signal becomes: its uuid and its final size.
Identified(s, size, id) ==
  [id |-> id, engine |-> s.engine, coin |-> s.coin, side |-> s.side, size |-> size]

\* Mutant: the position registered keeps the size from before Fathom.
RegistersUnscaledSize(s, pct, o, id) ==
  LET sent == Identified(s, (s.size * pct) \div 100, id)
  IN /\ phase = "fathom" /\ s \in batch
     /\ o \in SubmitOutcomes(sent) /\ ~Raises(o)
     /\ batch' = batch \ {s}
     /\ inflight' = {Identified(s, s.size, id)}
     /\ phase' = "aceEntryLog"
     /\ VenueOpens(sent, o)
     /\ DoubtAfterOpen(sent, o, TRUE)
     /\ UNCHANGED <<bookVars, exits, orders, scanned, intents, cfgVars>>

\* Fathom's multiplier rescales a validated signal; a raising submit_trade
\* drops it, any other answer, success or not, goes on to the journal.
AceSubmit(s, pct, o, id) ==
  LET p == Identified(s, (s.size * pct) \div 100, id)
  IN /\ phase = "fathom" /\ s \in batch
     /\ o \in SubmitOutcomes(p)
     /\ batch' = batch \ {s}
     /\ VenueOpens(p, o)
     /\ DoubtAfterOpen(p, o, ~Raises(o))
     /\ \/ Raises(o) /\ UNCHANGED <<phase, inflight>>
        \/ ~Raises(o) /\ inflight' = {p} /\ phase' = "aceEntryLog"
     /\ UNCHANGED <<bookVars, exits, orders, scanned, intents, cfgVars>>

\* After journal.log_entry: append to _open_positions and register_position.
AceRegister ==
  /\ phase = "aceEntryLog"
  /\ book' = book \cup inflight
  /\ aceOpen' = aceOpen \cup inflight
  /\ inflight' = {}
  /\ phase' = "fathom"
  /\ UNCHANGED <<venue, exits, orders, batch, scanned, intents, cfgVars, doubt>>

AceEnd ==
  /\ phase = "fathom" /\ batch = {}
  /\ phase' = "trackAScan"
  /\ UNCHANGED <<bookVars, venue, exits, orders, batch, inflight, scanned, intents,
                 cfgVars, doubt>>

(***************************************************************************)
(* One Track A strategy's run_cycle.  It checks its kill switch and its    *)
(* capacity once, then returns at most MaxIntents intents, one per coin;   *)
(* a strategy that is not due, is disabled or raises returns none.         *)
(***************************************************************************)
NextToScan(e) ==
  /\ e \in TrackA \ scanned
  /\ \A f \in TrackA \ scanned :
       IndexIn(ExecutionOrder, e) <= IndexIn(ExecutionOrder, f)

MayPropose(e) ==
  /\ e \notin tripped
  /\ Cardinality(OpenPositions(book, e)) < TrackACap

TrackAScan(e) ==
  /\ phase = "trackAScan" /\ NextToScan(e)
  /\ scanned' = scanned \cup {e}
  /\ \E cs \in SUBSET Coins :
       /\ Cardinality(cs) <= MaxIntents
       /\ Cardinality(cs) + Cardinality(intents) <= Cardinality(FreeIds)
       /\ cs # {} => MayPropose(e)
       /\ \E side \in [cs -> Sides] :
            intents' = intents \cup
              {[engine |-> e, coin |-> c, side |-> side[c]] : c \in cs}
  /\ UNCHANGED <<phase, bookVars, venue, exits, orders, batch, inflight, cfgVars, doubt>>

Resolve ==
  /\ phase = "trackAScan" /\ scanned = TrackA
  /\ orders' = ApplyConflictPolicy(intents)
  /\ phase' = "execute"
  /\ UNCHANGED <<bookVars, venue, exits, batch, inflight, scanned, intents, cfgVars, doubt>>

\* The TrackARiskSignal of an intent, as validate leaves it.
TrackASignal(i) ==
  [engine |-> i.engine, coin |-> i.coin, side |-> i.side,
   size |-> SafetySized(TrackASize, safety)]

\* One iteration of TrackAExecutor.execute that ends before the submission: the
\* risk layer rejects the intent, or no reference price is known for its coin.
ExecuteSkip(i, priced) ==
  /\ phase = "execute" /\ i \in orders
  /\ ~(Approves(book, tripped, TrackASignal(i)) /\ priced)
  /\ orders' = orders \ {i}
  /\ UNCHANGED <<phase, bookVars, venue, exits, batch, inflight, scanned, intents,
                 cfgVars, doubt>>

\* One that it approves: validate, submit and register without an await.
ExecuteSubmit(i, o, id) ==
  LET s == TrackASignal(i)
      p == Identified(s, s.size, id)
  IN /\ phase = "execute" /\ i \in orders
     /\ Approves(book, tripped, p)
     /\ o \in SubmitOutcomes(p)
     /\ orders' = orders \ {i}
     /\ VenueOpens(p, o)
     /\ book' = IF Accepted(o) THEN book \cup {p} ELSE book
     /\ DoubtAfterOpen(p, o, Accepted(o))
     /\ UNCHANGED <<phase, aceOpen, exits, batch, inflight, scanned, intents, cfgVars>>

TickEnd ==
  /\ phase = "execute" /\ orders = {}
  /\ phase' = "idle"
  /\ scanned' = {} /\ intents' = {}
  /\ UNCHANGED <<bookVars, venue, exits, orders, batch, inflight, cfgVars, doubt>>

-----------------------------------------------------------------------------
\* What may happen while the tick awaits.

\* The retro task merges the YAML file into the live config: the capacity one
\* lower, put back by a rollback, or whatever an operator wrote there; while
\* the process is down an edit waits in the file for the restart.
HotReload ==
  /\ "reload" \in Events
  /\ aceCap' \in AceCaps \ {aceCap}
  /\ UNCHANGED <<tickVars, bookVars, venue, safety, tripped, admittedAt, doubt>>

\* A caller of record_loss trips an engine's switch.
KillTrip(e) ==
  /\ phase # "down" /\ e \in KillCallers \ tripped
  /\ tripped' = tripped \cup {e}
  /\ UNCHANGED <<tickVars, bookVars, venue, safety, aceCap, admittedAt, doubt>>

\* The cooldown is over: is_active resets the switch.
KillReset(e) ==
  /\ phase # "down" /\ e \in tripped
  /\ tripped' = tripped \ {e}
  /\ UNCHANGED <<tickVars, bookVars, venue, safety, aceCap, admittedAt, doubt>>

\* A liquidation, or a close by hand, that the process is not told of.
ExternalClose(c) ==
  /\ "external" \in Events
  /\ venue[c] # 0
  /\ venue' = [venue EXCEPT ![c] = 0]
  /\ doubt' = doubt \cup {c}
  /\ UNCHANGED <<tickVars, bookVars, cfgVars>>

\* The process dies: everything but the venue and the YAML file is memory.
Crash ==
  /\ "crash" \in Events
  /\ phase # "down"
  /\ phase' = "down"
  /\ book' = {} /\ aceOpen' = {}
  /\ exits' = {} /\ orders' = {} /\ batch' = {} /\ inflight' = {} /\ scanned' = {} /\ intents' = {}
  /\ tripped' = {} /\ safety' = 100
  /\ UNCHANGED <<venue, aceCap, admittedAt, doubt>>

HeldCoins == {c \in Coins : venue[c] # 0}

\* Mutant: the sign of szi is lost.
RecoveredAsLong(c, id) ==
  [id |-> id, engine |-> Recovered, coin |-> c, side |-> "long",
   size |-> IF venue[c] > 0 THEN venue[c] ELSE -venue[c]]

RecoveredPosition(c, id) ==
  [id |-> id, engine |-> Recovered, coin |-> c,
   side |-> IF venue[c] > 0 THEN "long" ELSE "short",
   size |-> IF venue[c] > 0 THEN venue[c] ELSE -venue[c]]

\* build_context, then sync_from_hl when the config asks for it: one position
\* of engine "recovered" per coin the venue holds.
RestartSynced ==
  /\ phase = "down" /\ SyncOnStartup
  /\ phase' = "idle"
  /\ \E id \in [HeldCoins -> Ids] :
       /\ \A c, d \in HeldCoins : id[c] = id[d] => c = d
       /\ book' = {RecoveredPosition(c, id[c]) : c \in HeldCoins}
  /\ doubt' = {}
  /\ UNCHANGED <<aceOpen, venue, exits, orders, batch, inflight, scanned, intents,
                 cfgVars>>

\* Without hl_sync_on_startup, or when user_state fails, the book starts empty.
RestartBlank ==
  /\ phase = "down"
  /\ phase' = "idle"
  /\ doubt' = HeldCoins
  /\ UNCHANGED <<bookVars, venue, exits, orders, batch, inflight, scanned, intents,
                 cfgVars>>

-----------------------------------------------------------------------------
TickStep ==
  \/ TickStart
  \/ \E p \in exits, o \in CloseOutcomes : TrackAClose(p, o)
  \/ AceSkip
  \/ AceBegin
  \/ \E p \in exits, o \in CloseOutcomes : AceClose(p, o)
  \/ AceDropClosed
  \/ AceKilled
  \/ AceScanFails
  \/ AceAdmit
  \/ \E s \in batch, pct \in FathomPcts, o \in Outcomes, id \in FreeIds :
       AceSubmit(s, pct, o, id)
  \/ AceRegister
  \/ AceEnd
  \/ \E e \in TrackA : TrackAScan(e)
  \/ Resolve
  \/ \E i \in orders, priced \in BOOLEAN : ExecuteSkip(i, priced)
  \/ \E i \in orders, o \in Outcomes, id \in FreeIds : ExecuteSubmit(i, o, id)
  \/ TickEnd

Environment ==
  \/ HotReload
  \/ \E e \in Engines : KillTrip(e) \/ KillReset(e)
  \/ \E c \in Coins : ExternalClose(c)
  \/ Crash
  \/ RestartSynced
  \/ RestartBlank

Next == TickStep \/ Environment

Spec == Init /\ [][Next]_vars

-----------------------------------------------------------------------------
\* The values of the variables.
TypeOK ==
  /\ phase \in Phases
  /\ book \subseteq Position /\ aceOpen \subseteq Position
  /\ venue \in [Coins -> Int]
  /\ exits \subseteq Position /\ orders \subseteq Intent
  /\ batch \subseteq [engine : {Acevault}, coin : Coins, side : {"short"}, size : Nat]
  /\ inflight \subseteq Position
  /\ scanned \subseteq TrackA /\ intents \subseteq Intent
  /\ safety \in 1..100 /\ aceCap \in AceCaps /\ tripped \subseteq Engines
  /\ admittedAt \in AceCaps
  /\ doubt \subseteq Coins

\* AceVault keeps its positions twice, in its own _open_positions and in
\* PortfolioState; each code path that changes one changes the other before
\* the next await, so nobody ever sees them differ.
AceMirrorsPortfolio == aceOpen = OpenPositions(book, Acevault)

\* AceVault's positions, the one just submitted included.
AceHeld == aceOpen \cup (IF phase = "aceEntryLog" THEN inflight ELSE {})

\* AceVault never holds, or is about to hold, two positions on one coin: the
\* duplicate gate sees only the registered positions, so this rests on the
\* batch having one signal per coin and on cycles never overlapping.
AceOnePerCoin ==
  /\ \A p, q \in AceHeld : p.coin = q.coin => p = q
  /\ \A s, t \in batch : s.coin = t.coin => s = t
  /\ \A p \in AceHeld, s \in batch : p.coin # s.coin

\* The capacity gate counts registered positions while a whole batch is
\* admitted, and the capacity may be lowered or raised between two cycles.
\* AceVault may pass it, but what it holds and is about to hold never exceeds
\* the capacity its last batch was admitted under by more than the rest of
\* that batch.
AceOvershootBounded ==
  Cardinality(AceHeld) + Cardinality(batch) <= admittedAt - 1 + MaxCandidates

\* The positions the process believes in, a submission or a close whose
\* journal call is still awaited included.
Believed ==
  CASE phase = "aceEntryLog" -> book \cup inflight
    [] phase = "aceExitLog"  -> book \ inflight
    [] OTHER                 -> book

\* On every coin where no answer was lost, refused after the fact or shared
\* with another position, the book nets to what the venue holds but for the
\* cents cut off each order, whatever resizing by the safety mode and by
\* Fathom came in between.
BookMatchesVenue ==
  phase # "down" =>
    \A c \in Coins \ doubt :
      LET cut == Cardinality({p \in Believed : p.coin = c}) * (Dollar - 1)
      IN venue[c] - NetOn(Believed, c) \in -cut..cut

\* Track A validates, submits and registers one intent at a time: whatever
\* AceVault opened before in the tick, a Track A registration leaves the gross
\* exposure under the cap and its side within the correlated-position limit.
TrackAOpensWithinLimits ==
  [][\A p \in book' \ book : p.engine \in TrackA =>
       /\ GrossExposure(book') < GrossCap
       /\ SideCount(book', p.side) <= SideLimit(p.side)
       /\ p.engine \notin tripped]_vars

\* Strategies that disagree on the side of a coin cancel each other there: no
\* intent of that coin reaches the executor in this tick.
ContestedCoinsSitOut ==
  \A i, j \in intents :
    i.coin = j.coin /\ i.side # j.side => \A k \in orders : k.coin # i.coin

\* How far a tick is, and what is left to do where it is: two for each one
\* still to have a turn, one for a turn whose journal call is awaited.
Stage ==
  CASE phase = "trackAExits" -> 5
    [] phase \in {"aceExits", "aceExitLog"} -> 4
    [] phase \in {"fathom", "aceEntryLog"} -> 3
    [] phase = "trackAScan" -> 2
    [] phase = "execute" -> 1
    [] OTHER -> 0
Waiting ==
  CASE phase \in {"trackAExits", "aceExits", "aceExitLog"} -> exits
    [] phase \in {"fathom", "aceEntryLog"} -> batch
    [] phase = "trackAScan" -> TrackA \ scanned
    [] OTHER -> orders
Left == 2 * Cardinality(Waiting) + Cardinality(inflight)

\* Whatever a close, an open, a scan or a journal call answers or raises, each
\* position due, candidate, strategy and order has its own turn: a step of a
\* tick under way takes one of them, and the tick leaves a stage only when
\* nobody waits there.  So one failure stops nobody else, and a tick ends.
TickAdvances ==
  [][phase \notin {"idle", "down"} /\ phase' # "down" =>
       \/ Stage' < Stage /\ Left = 0
       \/ Stage' = Stage /\ Left - Left' \in {1, 2}]_tickVars
=============================================================================
