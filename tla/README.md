# nxfh01: specifications, model checking and proofs

nxfh01 is an autonomous trading agent for Hyperliquid perpetuals, one Python
process on one asyncio loop. It decides what to open and what to close, and asks
another agent (Degen Claw, over the ACP protocol) to act on the exchange. What it
believes to hold is a book in memory.

This directory holds TLA+ modules of the parts that decide, keep the book and
keep the records, the configurations that model-check them with TLC, and
theorems about them whose proofs TLAPS checks. `PROJECT.json` is the index: which
definition models which lines, which run checks what, which mutation of the code
each property would catch, and which hazard of the code each property is for.

Paths below are relative to the repository; the Python packages live in `src/`
inside it.

## 1. Inventory

### What runs

`src/main.py` builds the context (`nxfh01/runtime.py`), starts the retrospective
task and then loops: `refresh_safety_mode`, `StrategyOrchestrator.run_tick`,
wait. A tick is one long coroutine:

    universe, metadata, BTC context
      -> Track A exits -> AceVault cycle -> Track A strategies in execution order
      -> conflict policy -> TrackAExecutor -> wait

No threads share this state. Interleaving comes from the awaits: whenever the
tick awaits the journal, a language model or the venue, the retrospective task
may run, the venue moves on its own, and the process may be killed. Between two
awaits the code is atomic, and that is how the actions of the models are cut.

Two older systems live in the same repository and are not started by `main.py`:
the skill agent with its signal ingress (two threads on one executor), and the
DEX pair pipeline (agents on an in-process bus). Their packages import
`src.config` and `src.feature_flags`, which the repository does not hold. They
are modelled as written.

### Components

| Component | State | Operations | Interacts with | Hard behaviour | Correct when |
|---|---|---|---|---|---|
| Orchestrator (`nxfh01/orchestration/strategy_orchestrator.py`) | next run per strategy | `run_tick` | every strategy, exits, executor | one failing step must not stop the others | every tick ends; disagreeing strategies cancel |
| Conflict policy (`conflict_policy.py`) | none | `apply_conflict_policy` | orchestrator | three strategies on one coin, two of them agreeing | at most one intent per coin, none where sides differ |
| Track A executor (`track_a_executor.py`) | none | `execute` | risk layer, ACP, book, journal | orders of one tick consume each other's room; answers that are wrong | what it registers is within the limits at that moment |
| Track A exits (`track_a_exits.py`) | none | `run_track_a_exits`, `_apply_close` | exit engine, ACP, book, journal | a close that raises is tried again, one that is refused is not | a position past its stop does not stay |
| AceVault engine (`engines/acevault/engine.py`) | `_open_positions`, a second copy of its part of the book | `run_cycle` | all of the above, Fathom, journal | a batch validated before any of it is registered; two records kept in step across awaits | both agree; one position per coin; overshoot bounded |
| AceVault scanner and entries (`scanner.py`, `entry.py`) | re-entry memory through the book | `scan`, `should_enter` | book, candles | re-entry after a loss | a loss waits out its cooldown and earns its edge |
| Mass-exit gate (`exits/manager.py`, `engines/acevault/exit.py`) | streak start, count, last exit | `regime_exit_all_trending_up` | regime detector | suppressed for four reasons; asked only in one regime | exits spaced, never suppressed for ever |
| Exit engine (`exits/`) | working stop, extremes and peak per position | `evaluate_portfolio_positions` | both exit callers | rules in an order that differs per route; state forgotten before the close is tried | stops only tighten, break-even and trailing promises kept |
| Risk layer (`risk/unified_risk.py`) | safety multiplier | `validate` | book, kill switch, BTC context, universe | resizes the signal in place; later resized again | no approval past a limit |
| Portfolio state (`risk/portfolio_state.py`) | the book, re-entry watch | register, close, sync, exposure, beta | everyone | rebuilt from netted venue positions after a restart | nets to what the venue holds |
| Kill switch (`risk/engine_killswitch.py`) | loss window, trip time | `record_loss`, `is_active`, `reset` | risk layer, strategies | reset happens only when somebody asks | trading engines are below their limit; a trip lasts its cooldown |
| Safety mode (`risk/safety_mode.py`) | multiplier | `refresh_safety_mode` | journal, risk layer | a refresh that fails keeps the old one | a poor record reduces the sizes |
| ACP client (`acp/degen_claw.py`) | none | `submit_trade`, `submit_close` | venue | answers need not be what the venue did | environment of the rest |
| Universe, BTC context, metadata (`market_universe`, `market`, `market_context`) | cached lists, contexts, last attempt | refreshes | risk layer, ranker | data missing or failing | dark entries are exempt ones; failures do not block for ever |
| Opportunity layer (`opportunity/`) with Growi and MC recovery | none beyond the metadata | `run_cycle`, ranking, leverage | book, metadata | every candidate is judged against the same book | overshoot bounded |
| BTC lanes (`engines/btc_lanes`, `regime/btc`, `strategies`, `risk/btc_lane_limits.py`) | debounced regime, daily and session counters | `run_cycle` | kill switch, executor | counts proposals rather than fills; gaps in data | the regime traded on is a debounce of the market's |
| Regime detector (`regime/detector.py`) | held regime and time | `detect` | four callers | the confidence of a new classification goes with a held regime | held exits only within the cooldown |
| Decision journal (`db/decision_journal.py`) | four records per trade | `log_entry`, `log_exit`, stamps, attribution | engines, safety mode, retrospective | no transaction spans the records | they tell one story |
| Retrospective (`retro/`, `fathom/retrospective.py`, `intelligence/`, `config_intelligence/`) | schedule, config file, live settings, active version, pending changes | `run_six_hour_retrospective`, `maybe_apply_retro_analysis`, evaluation and rollback | journal, model, live config | file, settings, registry and record changed one after the other | one bounded step at a time, a cooldown apart |
| Signal ingress (`signals/http_ingress.py`, `state/`) | claims in SQLite, queue | request threads, worker | skill agent | duplicates, a full queue, crashes | tried at most once |
| Skill agent (`skill/`, `execution/`, `risk/supervisor.py`, `risk/constraints.py`) | counts of fills, snapshot | orders of two threads | venue, fallback executor | check and count apart; time-outs that filled | fills bounded |
| DEX pipeline (`events`, `agents`, `services`, `workers`, `persistence`) | seen pairs, locks, tracked positions, tables | handlers on a bus, sentinel loop | venue, tables | repeated warnings, crashes, expiring locks | one buy per pair; one full sale; a hit stop is sold |
| Task tracker, profit protection, position manager | task and risk states | ladders | nothing that runs | - | - |
| Dashboard, notifications, research, ingestion | - | I/O and reports | - | - | - |

Where this goes wrong is listed per line under `hazards` in `PROJECT.json`.

## 2. The modules

| Module | Models | Uses |
|---|---|---|
| `PortfolioState` | exposure and side counts of a book | |
| `UnifiedRisk` | `UnifiedRiskLayer.validate` as the predicate `Approves` | `PortfolioState` |
| `ConflictPolicy` | `apply_conflict_policy` as an operator on a set of intents | |
| `TradingTick` | one process: tick, both executors, ACP answers, venue, retro reload, kill switch trips, crash, restart | the three above |
| `ExitEngine` | one position under `LiveExitEngine`: state, rules, both routes, the close that follows | |
| `ReentryGate` | closed records, re-entry watch and every gate of `should_enter`, for one coin | |
| `KillSwitch` | `engine_killswitch.py` over time | |
| `RegimeDetector` | `detect` with its classifier, ranging refinement and cooldown | |
| `MassExitGate` | `TrendingUpMassExitGate` as `ExitManager.check_exits` calls it, fed by the detector | `RegimeDetector` |
| `MarketGate` | universe, BTC context, the risk layer's overlay and beta cap, Fathom's multiplier, recovery | `UnifiedRisk` |
| `Opportunity` | metadata, ranker, leverage policy, scanner; the cycles of Growi, MC recovery and AceVault up to their intents | |
| `BtcLanes` | BTC detector, supervisor, both lanes' setups, lane limits, `run_cycle` | `KillSwitch` |
| `Debounce` | abstract: a label that changes only after equal readings in a row | implemented by `BtcLanes` |
| `Journal` | the four records of a trade, their writers, the safety mode that reads them | |
| `Retro` | both retrospective loops, a run, the applier, evaluation and rollback, the registry | |
| `SteppedSettings` | abstract: settings that move by one guarded step at a time | implemented by `Retro` |
| `SignalIngress` | claims, queue, worker, status of a delivered signal | |
| `SkillAgent` | two threads on one order executor, its counters and its fallback | `SignalIngress` |
| `OnceOnly` | abstract: a signal is tried at most once and its outcome stays | implemented by `SkillAgent` |
| `DexPipeline` | watcher to exit agent over the bus, with the tables that are read back | |
| `Sums` | lemmas on sums, least and greatest members, for the proofs | |
| `TradingTick_proofs`, `Retro_proofs`, `SkillAgent_proofs` | the theorems about the module of that name | TLAPS |
| `BtcLanes_proofs` | of `KillSwitch` and `BtcLanes` | TLAPS |
| `Market_proofs` | of `ExitEngine`, `MassExitGate` and `MarketGate` | TLAPS |
| `Entries_proofs` | of `ReentryGate` and `Opportunity` | TLAPS |
| `Records_proofs` | of `Journal` and `DexPipeline` | TLAPS |
| `MC...` | small instances for TLC | |

### TradingTick

`phase` is the await at which the tick is suspended. The other variables are the
program's: `book` is `PortfolioState._positions`, `aceOpen` is
`AceVaultEngine._open_positions`, `batch` is `valid_signals`, `inflight` is the
local variable of the loop whose journal call is awaited, `exits`, `orders`,
`intents` are the lists the coroutine still has to work through. `venue` is the
signed notional per coin the exchange holds. `doubt` and `admittedAt` are
history: the coins on which some answer was false, so that "the book is right" can
be said of the others, and the capacity the last batch was admitted under.

| Action | Code |
|---|---|
| `TickStart`, `TrackAClose` | `run_tick` up to the exits, `_apply_close` |
| `AceSkip`, `AceBegin`, `AceClose`, `AceDropClosed`, `AceKilled` | `_run_cycle_inner`: early returns, exits, the journal await in their middle, the kill switch |
| `AceAdmit` | the scan and the whole candidate loop (no await in it): safety sizing, duplicate, capacity, risk layer, each against the same book |
| `AceScanFails` | a scan or a gate that raises: `run_tick` catches it and goes on to Track A |
| `AceSubmit`, `AceRegister`, `AceEnd` | Fathom's multiplier, `submit_trade`, the journal await, the two registrations |
| `TrackAScan`, `Resolve` | a strategy's `run_cycle`; `apply_conflict_policy` |
| `ExecuteSkip`, `ExecuteSubmit`, `TickEnd` | an iteration of `TrackAExecutor.execute` |
| `HotReload`, `KillTrip`, `KillReset`, `ExternalClose`, `Crash`, the restarts | what may happen during an await; a reload sets any other capacity, lower (the applier) or higher (a rollback, an operator) |

A submission has one of six outcomes: `filled`; `refused` (told no, nothing
happened); `unfilled` (told yes, nothing happened: the ACP job was created and
never executed); `lost` (told no after a timeout, yet executed); `raised` (before
the job was sent); `cut` (raised after it was sent, reading the answer,
`acp/degen_claw.py:192-198`). An order the account cannot pay is refused, or
accepted and never executed. The venue nets positions per coin, and a close names
only the coin.

Abstracted: prices (a notional is a number), which coins are candidates (any set
of at most `max_candidates`; `Opportunity` and `ReentryGate` say which), the side
a strategy proposes, the record behind the safety mode (`Journal`), the due times
of strategies (any may sit a tick out).

### ExitEngine and ReentryGate

`ExitEngine` is one position, since positions do not influence each other there.
`policy` is what `resolve_exit_policy` gives for its engine and entry regime, and
the code asks for it at every evaluation: `Reload` puts another of `Policies` in
force under an open position. Its stop and target are its own and stay.
`st` is its `PositionExitState`, `price` the mid, `age` the time since
`opened_at`. R multiples are in price steps of the initial risk, so nothing is
rounded. `Applying` is the set of rules whose condition holds, `Rank` the order
in which the code tests them, `Reported` the one that returns. `Survive` and
`Exit` are one evaluation; `Exit` includes the close, which in Track A may raise
and leave the position with its exit state already gone. `best` and `promised` are
history: the best progress any evaluation of this position saw, and the highest
level a break-even rule then in force had promised.

`ReentryGate` is one coin, since coins do not influence each other there. A cycle
is cut in two: its head marks the price on the watch and may close the position
(`Keep`, `Close`); the scan may make the coin a candidate, with a range and a
look at the market, and `MayEnter` takes the gates of `should_enter` in turn
(weakness, liquidity, regime, structure, geometry, cost, adaptive policy, both
cooldowns, reset). `closed` is the latest closed record, the only one the
cooldown gates read; `watch` is the `low_since` of the coin's watch (AceVault
only shorts). `Signal` clears the watch whether or not the signal opens anything.
`lossAge`, `stopAge`, `lowest` and `owed` are history, over all closes and not
only the latest. Which reason an exit reports is a free choice here; `ExitEngine`
checks it.

### KillSwitch, RegimeDetector, MassExitGate

All are modelled over time. Time stamps are kept as ages, capped at the
largest limit the code compares them with, which makes the state finite and
loses nothing: past the cap the code tells no two ages apart.

A `market` is what the classifier's comparisons make of the BTC figures, not the
figures. `Detect` is one call of `detect`; it returns the held regime, with the
confidence of the new classification. `StartupPicture` is the made-up market the
start-up sequence passes, so every process starts in RANGING and holds it for a
cooldown. `Elsewhere` is a call by another strategy or by the retrospective (or
the market moving); the three `Cycle...` actions are AceVault's call and what
`check_exits` then does: `CycleInOtherRegime` does not ask the gate at all,
`CycleSwitchedOff` makes it start over because `close_all_on_trending_up` is off
(`ConfigReloads` is the operator's edit of it), `CycleSuppressed` counts,
`CycleFires` closes.

History, so that the properties do not read the very state they are about: in
`MassExitGate`, `exitAge` and `waived` (when the last mass exit was, and whether a
cycle has found them switched off since), `seen` and `runAge` (the unbroken run of
cycles that saw TRENDING_UP with mass exits on), `fired`. In `KillSwitch`, `lost`:
what an engine lost while it was free to trade, which the reset at the end of a
cooldown, emptying the window, does not touch.

### MarketGate, Opportunity, BtcLanes

`MarketGate` is the market's side of an admission. `TickBegin` refreshes the
universe when due and stores a context, the fallback of short candles, or none;
`Validates` is `validate` with the universe, the vetoes, the size multipliers and
the beta cap; AceVault's batch waits in `batch` until each signal has Fathom's
multiplier (`Advised`, clamped, or the size as it is). `Restart` rebuilds the book
with sizes netted and engines, hence weights, new. `unvetted` is history: who
entered without the cap being held to.

`Opportunity` is a tick's order of cycles (`turn`) over one book that none of the
intents has entered yet (`queue`). An asset's `row` is what `parse_meta` keeps; the
logarithms and exponentials of the liquidity and cost multipliers are fields of
the row, scores are integers. Admission, submit floor by regime, leverage by tier
and band, and the high-leverage caps with their overrides are the code's.

`BtcLanes`: a reading is integers the code compares with thresholds, with the
swing bars themselves. `CycleDeclines` and `CycleProposes` are one `run_cycle`:
kill switch, detection, session, permission, gates, setup, limits. What is
counted is the proposal. Its regime is shown to implement `Debounce`.

### Journal and Retro

`Journal`: a trade leaves its row, stamps on it, an attribution row and, for
AceVault, an analysis; `call` is the statement awaited. A statement commits or
not, and answers or raises, so that "committed and raised" is a behaviour. The
safety mode reads the same rows (`RecentPnls`, `Multiplier`).

`Retro`: `pc` is the await of the task. `file`, `live`, `holder` are config.yaml,
the settings in the process and the version trades are stamped with: three places
that `Apply`, `RegisterReload` and `Record` change one after the other. Settings
are counted in notches, one per application of the applier's factor. The
operator's hand edits (`PutBack`), closing trades and the clock are the
environment. `Stepped` maps the whole task to `SteppedSettings`.

### SignalIngress, SkillAgent, DexPipeline

`SkillAgent` adds to the ingress what its worker does with a signal, and the agent
thread that shares executor and supervisor. A claim that fails in SQLite is answered
as a duplicate with nothing queued (`Claim`); a signal may be settled as failed after
its order was accepted; `CheckRegime` changes the executor's regime between scans. A
thread's `job` says where it stands
between the check of a limit and the count of a fill. `fills` is what the venue
did; `cleared` and `unseen` are history: counts dropped while the venue held the
coin, fills answered as failures.

`DexPipeline`: `queue` is the bus, which takes one event at a time and waits for
all its handlers; `busy` is the suspended ones. The sentinel's loop (`todo`,
`eval`) runs beside it; a statement that fails ends its sweep (`EvalAborts`), and the
positions behind wait for the next. A crash loses everything but `rows` and the
wallet; one that falls into a full sale is recorded in `cut`.

## 3. The runs

Every property of a run has a mutant in `PROJECT.json`: a mutation of a modelled
definition, as a plausible bug would make it, that the run refutes. State counts
and times are of two workers on a small machine.

| Run | Instance | Shows | States | Time |
|---|---|---|---|---|
| `MCTickLimits` | 3 coins, 3 ids, AceVault and 2 Track A strategies, caps reached after two positions, scans, opens and closes that raise, trips, a capacity reloaded between 1 and 2 | `AceOvershootBounded`, `ContestedCoinsSitOut`, `TrackAOpensWithinLimits`, `TickAdvances` | 1.5 M | 140 s |
| `MCTickFaults` | 2 coins, all six outcomes, external closes, crash and both restarts, safety mode at 50 %, half dollars, Fathom at 150 % | `AceMirrorsPortfolio`, `AceOnePerCoin`, `BookMatchesVenue` | 1.8 M | 70 s |
| `MCMassExitGate` | 8 markets, regime cooldown 2, exit cooldown 6, 2 time steps, 3 observations, mass exits switched off and on; fairness | `NeverUndercounts`, `ExitsSpaced`, `HeldExitsAreRecent`, `StayingUpExits` | 43 k | 6 s |
| `MCExitEngine` | one position after another, on 11 prices: of Track A's default policy with closes that raise, or AceVault's route under a ranging or a trending policy, reloaded while it is open; fairness | `SurvivorsEarnTheirPlace`, `AceProfitLockedIn`, `AceGiveBackBounded`, `StopRatchets`, `LossesCoolDown`, `StopLossRetried` | 158 k | 50 s |
| `MCReentryGate` | 4 prices, all ranges over them, four looks, cooldowns of 3 and 2 ages, restarts | `LossesWaitOut`, `EdgeEarned` | 4 k | 1 s |
| `MCRetro` | 2 strategies, three kinds of proposals, both loops, faults, crashes; fairness | `StampsAreCurrent`, `ImplementsSteppedSettings`, `DeepRunsRecur` | 613 k | 90 s |
| `MCBtcLanes` | 6 readings, hysteresis 2, swing of 3 bars, caps of 1 and 2, kill switch with losses; fairness | `TradingBelowThreshold`, `TripLastsCooldown`, `DebouncesRegime`, `LastingMarketIsCommitted` | 81 k | 30 s |
| `MCOpportunity` | 2 tradable markets and an excluded one, three strategies, high-leverage limits that differ by regime | `HighLeverageOvershootBounded`, `CapacityOvershootBounded` | 194 k | 15 s |
| `MCMarketGate` | 2 coins, 2 engines of different weight, 4 readings, multipliers clamped to 50 and 150 %; fairness | `BetaHeld`, `DarkEntriesAreExempt`, `Unblocked` | 152 k | 60 s |
| `MCJournal` | 3 trades, gains and losses, two faults; fairness | `RecordsAgree`, `OpenRowsAreHeld`, `PoorRecordReducesSize` | 496 k | 55 s |
| `MCSkillAgent` | 2 signals, queue of 1, one coin, two threads, one fault, two regimes; fairness | `FillsBounded`, `ImplementsOnceOnly`, `QueuedAreTried` | 714 k | 130 s |
| `MCDexPipeline` | 1 pair, 1 position, 3 gains, one upset (a failed statement or a crash); fairness | `OneBuyPerPair`, `SoldInFullOnce`, `HitStopsAreSold` | 465 k | 120 s |

### What the properties say

- `BookMatchesVenue`: on every coin where no answer was false and no close hit
  somebody else's position, the book nets to the venue, however often sizes were
  cut by the safety mode, enlarged by Fathom and truncated to dollars, with
  submissions and closes under way, and after a restart that recovered positions.
  The tolerance is the part of a dollar cut off each order. The coins it sets aside
  (`doubt`) are wrong because of what the code does with a false answer; a coin stays
  in doubt until a restart recovers the book from the venue.
- `AceOvershootBounded`, `CapacityOvershootBounded`,
  `HighLeverageOvershootBounded`: a batch is admitted against one count, so a
  configured maximum is not a maximum. Each is passed by less than what one tick
  can propose. AceVault's is checked with registration in the tick, the others
  with intents that fill late while positions close.
- `TrackAOpensWithinLimits`: Track A validates and registers one by one, so its
  registrations do respect the caps, whatever AceVault did before in the tick.
- `ContestedCoinsSitOut`: a coin on which strategies disagree is not traded.
- `AceOnePerCoin` rests on three things nobody states together: the gate sees
  registered positions only, a batch has one signal per coin, cycles do not
  overlap.
- `TickAdvances`: a tick is a descent. Whatever a close, an open, a scan or a
  journal call answers or raises, a step takes one turn, and the tick leaves a stage
  only when nobody waits there: one failure stops nobody else. Termination, once
  calls return, follows.
- `SurvivorsEarnTheirPlace`, `StopRatchets` for both routes, `AceProfitLockedIn`
  and `AceGiveBackBounded` for AceVault: what the exit policies promise about a
  position that is still open, over its whole life, whatever policies are reloaded
  meanwhile: a level promised under one policy is kept under the next. The last two
  are not true of Track A, whose evaluations start over after a close that raised.
- `LossesCoolDown`: which losses start the re-entry cooldown. All but those the
  regime forces, unless one of the two rules of the ranging policy is due: then the
  loss is reported as `stale_invalidation` or `range_stall`, even past the stop,
  and the cooldown does not know it. Stated both ways, so the gap is neither smaller
  nor larger than that.
- `StopLossRetried`: the exit state is gone before the close is tried. What
  protects a position whose close raised is that the state is rebuilt with the
  initial stop.
- `LossesWaitOut`: the gates read the latest close only, and a later close might
  hide a loss whose cooldown still runs. It cannot, because nothing is entered,
  hence closed, meanwhile. `EdgeEarned`: the watch is cleared early, by signals
  that open nothing; still a loss is never forgotten before its edge was reached,
  but for a candidate that has no range.
- `NeverUndercounts`, `ExitsSpaced`, `StayingUpExits`: the mass-exit gate may fire
  early, never late, never twice within the cooldown unless a cycle found it switched
  off in between, never never. That it leaves other regimes unasked is what the
  second rests on: asked there, it would forget the last exit.
  `HeldExitsAreRecent`: the confidence it compares may belong to another
  classification than the regime it comes with; what bounds the harm is that
  `detect` runs in the same cycle and the hold is limited.
- `TradingBelowThreshold`, `TripLastsCooldown`: the kill switch, whose reset
  happens only when somebody asks, under the lanes' calls. The reset empties the
  window; the first says that this forgets nothing too early, by an account of losses
  of its own. What a tripped engine goes on to lose is not in that account: the code
  forgets it when the trip ends.
- `DebouncesRegime`: the lanes' regime is a debounce of the raw one, across gaps
  in the data. `LastingMarketIsCommitted`: a market that keeps its face is
  recognised, whatever came before.
- `BetaHeld`: what a side weighs beyond its cap has entered by a way that does not
  ask. `DarkEntriesAreExempt`: a tick that could not read the market opens only
  for those the policy exempts, never on yesterday's context. `Unblocked`: an
  empty universe blocks every entry, but not for ever.
- `StampsAreCurrent`, `ImplementsSteppedSettings`, `DeepRunsRecur`: the three
  places of a setting agree; the file moves by single guarded steps a cooldown
  apart unless the record of a change was lost; deep runs recur unless an
  exception ended the unified loop.
- `RecordsAgree`, `OpenRowsAreHeld`, `PoorRecordReducesSize`: no stamp of an exit
  without its outcome, no attribution the row does not carry; an open row belongs
  to a held position unless a call of the trade's own failed; a poor record comes
  to reduce sizes however often a refresh fails.
- `FillsBounded`: the cap on fills is enforced by a count read before an order and
  written after it. What is left of it is one order per count, one count per
  dropped one, and the fills that were answered as failures.
  `ImplementsOnceOnly`, `QueuedAreTried`: at most once, and once queued, tried
  unless the process dies.
- `OneBuyPerPair`, `SoldInFullOnce`, `HitStopsAreSold`: the arbiter's lock expires
  and the sentinel repeats itself, so the first two rest on the watcher's memory
  and on the bus waiting for its handlers; the third on the rows being read back.

### What the properties leave aside

Some properties set aside the case in which the code does what a hazard warns of,
so that they can say that nothing else goes wrong. They do not catch that hazard,
and `PROJECT.json` names no property for it, or says in its note what is left:

- `doubt` (`BookMatchesVenue`): orders refused or accepted without effect and
  registered, closes refused and dropped, timeouts that filled, a close that flattens
  another engine's position on the coin.
- `StopLossRetried` is about closes that raise; one answered success=False drops the
  position.
- `NeverUndercounts` does not say that separate runs are not added up: they are, and
  the gate fires early.
- `StampsAreCurrent` does not speak of a version whose registration failed
  (`registered`), `ImplementsSteppedSettings` lets a change follow too early when the
  record of the one before was lost (`noted`) and does not say which strategy or
  direction a step has, `DeepRunsRecur` ends with the loop (`dead`).
- `Debounce` ignores gaps in the data as the code does.
- `BetaHeld`: recovered positions and entries without a context were not asked.
- `OpenRowsAreHeld`: a trade whose own call failed (`faulted`).
- `FillsBounded`: fills answered as failures (`unseen`). `QueuedAreTried` sees the
  queue in memory, not the claims that stay `queued` after a crash.
- `HitStopsAreSold` assumes that a price comes, also where the token address is
  empty.

### Bounds, and why they are enough

- `MCTickLimits`, `MCTickFaults`: three concurrent positions. The limits (gross,
  side, capacity) are reached with one or two, so that every gate both approves
  and rejects, and a third position can come from another engine. Two coins make
  both a contested and an uncontested one and netting of two engines on one coin;
  three let a batch of two meet an open position. Ticks are not bounded.
  `MaxNotional` bounds what the venue holds per coin; it stands for margin, and
  leaves room for two netted positions. The fault run's odd size in half dollars
  and its 150 % make truncation and rescaling both bite. Coins and ids are
  symmetric: no definition tells them apart, and no liveness is checked there. The
  limits run reloads the capacity between 1 and 2 (`AceCaps`) and its only fault is
  `raised`; the fault run has them all (`Faults`).
- `MCExitEngine`: an initial risk of 3 and a target of 6 (7) leave room on both
  sides of the stop, the break-even line, the trail and the target. `AgeLimit` of 4
  is the longest time any rule waits.
- `MCMassExitGate`: the eight markets produce every regime, every confidence, and
  one that meets half the conditions of two regimes. Unlike `config.yaml`, where the
  regime is held longer (15 min) than exits are spaced (5 min), the run holds it 2
  steps and spaces exits by 6: a run of another regime and the three observations
  after it then fit into one exit cooldown, the case in which forgetting the last
  exit would show. With the deployed order it could not, so the run is the harder
  one.
- `MCReentryGate`: four prices leave room below, at and above an edge; the
  cooldowns differ, so that each gate is the last to open in some behaviour.
- `MCRetro`: a step of the clock is the shallow interval; two changes
  (`MaxChanges`) make a cooldown between them and a rollback of the first after
  the second; one window row separates "enough trades" from "too few".
- `MCBtcLanes`: hysteresis of two needs a streak to be broken and resumed; one
  trend opening a day and one a session make each cap the binding one.
- `MCOpportunity`: two admissible coins per batch against a high-leverage cap of
  one to three by regime; Track A's two strategies propose in one tick without
  seeing each other.
- `MCMarketGate`: the beta caps are passed by the second position at full size and
  met by one; the universe lists one of two coins.
- `MCJournal`: two AceVault trades (one record to be judged on, one to be sized by
  it) and one of Track A; `MaxFaults` of two allow a failure and a restart.
- `MCSkillAgent`: a queue of one and two ids make "full" happen; one coin is traded
  by both threads; `MaxClears` of one count dropped, `MaxFaults` of one.
- `MCDexPipeline`: `MaxQueue` three events hold a sweep's repeated warning behind
  the sale they repeat; one upset (`MaxUpsets`), a failed statement or a crash, falls
  anywhere. `EntryMin` is
  lowered to 600 thousandths: with the fields enrichment sets, the score never
  passes 655, and the 900 of the code buys nothing.

Deadlock is checked in every run.

### Fairness

- `MassExitGate.GateFairSpec`: time passes and AceVault's cycle recurs. Nothing is
  assumed of the market or of the other callers.
- `ExitEngine.FairSpec`: an evaluation that finds a reason to exit and whose
  close does not raise recurs. A venue client that raises for ever keeps the
  position, which the code cannot help.
- `Retro.FairSpec`: the clock, a restart, and the task itself: all its awaits carry
  timeouts. Nothing is assumed of faults, crashes or edits.
- `BtcLanes.LanesFairSpec`: the clock and the executor, and strongly the cycle that
  gets its data: the candle feed works again and again, also between two trips.
- `MarketGate.MarketFairSpec`: the tick's own steps, and strongly a refresh that
  succeeds: the venue does not fail every attempt. `Unblocked` says nothing of a
  process that restarts for ever.
- `Journal.FairSpec`: a statement answers or raises, a tick ends, and strongly the
  refresh that succeeds.
- `SkillAgent.FairSpec`: the worker thread only.
- `DexPipeline.DexFairSpec`: the bus, suspended calls and the sentinel's loop; strongly
  for each position a price that answers and a sale that goes through.

## 4. The proofs

Each theorem holds for every value of the constants that satisfies the named
assumptions of its module. All safety properties that the runs check, invariants
and action properties alike, and the three refinements are proved.

| Module | Theorem | Property |
|---|---|---|
| `TradingTick_proofs` | `RecordsAgree`, `OnePerCoin` | `AceMirrorsPortfolio`, `AceOnePerCoin` |
| | `OvershootIsBounded` | `AceOvershootBounded` |
| | `ConflictsCancel` | `ContestedCoinsSitOut` |
| | `OrdersAreOnePerCoin`, `AgreedCoinsAreOrdered` | at most one order per coin, one where nobody disagrees |
| | `TrackAEntriesAreWithinLimits` | `TrackAOpensWithinLimits` |
| | `TicksAdvance` | `TickAdvances` |
| | `BookMatches` | `BookMatchesVenue` |
| `Market_proofs` | `SurvivorsAreSound`, `StopsRatchet` | `SurvivorsEarnTheirPlace`, `StopRatchets` |
| | `AceKeepsItsProfit`, `AceGivesLittleBack` | `AceProfitLockedIn`, `AceGiveBackBounded` |
| | `LossesAreNamed` | `LossesCoolDown` |
| | `CooldownSpacesExits`, `HeldExitsAreBounded`, `NeverLate` | `ExitsSpaced`, `HeldExitsAreRecent`, `NeverUndercounts` |
| | `VettedExposureIsCapped`, `DarkTicksOpenTheExempt` | `BetaHeld`, `DarkEntriesAreExempt` |
| `BtcLanes_proofs` | `LimitHolds`, `TripsLast` | `TradingBelowThreshold`, `TripLastsCooldown` |
| | `LanesUseTheSwitch`, `LanesTradeBelowLimit` | that `BtcLanes` implements `KillSwitch`; that a lane which proposes an order has lost less than its limit (`ProposesBelowLimit`, checked by no run) |
| | `LanesDebounce` | `DebouncesRegime` |
| `Entries_proofs` | `NoEarlyReentry`, `LossesEarnTheirEdge` | `LossesWaitOut`, `EdgeEarned` |
| | `CapacityOvershootIsBounded`, `HighLeverageIsBounded` | `CapacityOvershootBounded`, `HighLeverageOvershootBounded` |
| `Records_proofs` | `RecordsStayTogether`, `OpenRowsStayHeld` | `RecordsAgree`, `OpenRowsAreHeld` |
| | `SoldOnce`, `BoughtOnce` | `SoldInFullOnce`, `OneBuyPerPair` |
| `Retro_proofs` | `StampsStayCurrent`, `SettingsAreStepped` | `StampsAreCurrent`, `ImplementsSteppedSettings` |
| `SkillAgent_proofs` | `FillsStayBounded`, `IngressIsOnceOnly` | `FillsBounded`, `ImplementsOnceOnly` |

### The arguments

- `TradingTick`. Nothing is inductive without `TickShape`, which says what each
  phase leaves empty and what is under way, and `TickFacts`: what the process keeps
  is finite, one journal call is awaited at most. `AceInv`: positions under way
  belong to AceVault in the phases that register or drop them; AceVault's
  positions, the one in flight and the batch have distinct coins; ids are fresh.
  `AceOvershootBounded` counts AceVault's positions together with the signals still to
  be submitted, against the capacity at admission (`admittedAt`) and not the one a
  reload has put in force since, and is inductive as it stands. `Matched` is `BookMatchesVenue` coin by coin over the positions the
  process believes in: an order moves the venue by what it delivers, which is less
  than a dollar from what the book registers, and a position more allows a dollar
  more. `TicksAdvance` needs the finiteness of what is
  counted, and what each phase leaves empty.
  `OrdersAreOnePerCoin`: a strategy has its turn once and names a coin once, so two
  intents of one coin are of two strategies; the one with the least priority index,
  then the least scanning index, is the only first. Scanning indexes differ because
  every strategy that is run stands in `execution_order`; priorities may tie.
- `ExitEngine`. A working stop is at least as tight as the initial one, which is why
  not having hit it says something of the initial stop. For AceVault, `AceInv` adds
  that the state's peak is the best any evaluation saw and its extremes reach it,
  which a close that raises breaks for Track A only; and that the working stop keeps
  what any policy promised. A reload leaves the position's risk and target
  alone, so what was said of the stop stays true of the next policy; what it promises
  is counted from its first evaluation. `LossesAreNamed`: among the rules that can
  apply to a loss the two ranging ones are asked first, so a due one is the one
  reported, and without them only reasons remain that the cooldown knows.
- `MassExitGate`: `NeverUndercounts` is inductive together with the types. Spacing
  rests on `RemembersExit`: unless waived, the track's last exit and the history's
  are the same age, which every regime that is not asked must preserve.
- `MarketGate`. `MarketInv`: a signal of AceVault's batch is `Approved` when its turn
  comes, as the context is still the tick's own and the book has only lost
  positions since, except that of a whole batch only the first is weighed against
  the book it enters (`BatchInv`); the context is what the tick's fetch left
  (`DarkInv`); the vetted positions of a side keep to its cap (`VettedInv`). A
  smaller size weighs less, and a percentage up to 100 makes it smaller. Ids are
  distinct because there are more of them than positions, so a fresh one exists.
- `KillSwitch`, `BtcLanes`: a window is a sum over ages; what leaves it is not
  negative. `SwitchInv` ties the account of losses to the window: of an engine free
  to trade, what it lost within the last cooldown is still in the window, since the
  reset that empties the window comes a whole window after the trip; of a tripped
  one, all its losses are at least as old as its trip. A streak of the debounced regime is the number of last readings that
  agree; one more reading continues it or starts a new one.
- `ReentryGate`. `CooldownInv`: an unfinished cooldown belongs to the very record the
  gates see, and none is unfinished while a position is open. `WatchInv`: a loss
  that still owes its edge is watched at the lowest price seen.
- `Opportunity`. `QueueInv`: intents of one cycle are in the queue only in that
  tick's turns, no more of them than candidates. `CapacityInv` and `HighInv` count
  open positions together with the intents under way. `HighLeverageIsBounded` is
  for thresholds above 1: with 1 a capped leverage, which is 1 at least
  (`opportunity/leverage_policy.py:122`), counts as high, and nothing caps.
- `Journal`: the invariant follows a call statement by statement: what it has written
  so far is what its place says, for the trade of the call and, finished, for every
  other.
- `DexPipeline`. `SaleInv`: the handlers of one event at a time, a sale under way is of
  an open row, an open row was never sold in full but where the answer was lost.
  `OneBuyInv`: a pair has one chance, as an event, as a suspended handler or as a
  buy, and none before the watcher saw it. The arbiter's lock is not needed. The
  premise `EntryMin > 505` is about the one pair with a second chance: a rug
  deployer's, which is published and scored again when Nansen has named it. With a
  deployer score of zero it scores 505 thousandths at best, so any threshold above
  that rejects it: the code's 900 (`domain/risk.py:31`), which rejects every pair, and
  the lower ones under which pairs are bought.
- `Retro`. `RowTellsRest` is what makes the refinement go through: the age of the
  newest record, which the gate reads, is the age of the last change whenever that
  change has its record.
- `SkillAgent`. `CountsInv` accounts for every fill: counted, in flight in one of two
  threads, dropped with a count, or unseen.

### Sums, counts and what they assume

Exposure, net positions, beta, loss windows and open positions are sums over finite
sets (`MapThenSumSet`) or cardinalities. An induction theorem with an operator as
parameter cannot be used by the provers, so `Sums` argues by a minimal
counterexample: among the subsets of a finite set on which two sums differ there is a
smallest one (the strict subset relation on finite sets is well-founded), and taking
an element from it contradicts its minimality. From that come the lemmas the proofs
cite: a sum of one element more, over two disjoint sets, of naturals, never larger
for a smaller set.

The sets that are summed over must be finite, so the modules' assumptions say that
coins, engines and the like are finite, which every configuration is. Every
Track A strategy stands in `execution_order`, as `run_tick` runs no other
(`strategy_orchestrator.py:144`). The constants'
other assumptions type the configuration (percentages and limits are naturals, the
regime overrides at most 100).

### Only model-checked

The liveness properties, since fairness and ENABLED are out of the prover's reach:
`StayingUpExits`, `StopLossRetried`, `DeepRunsRecur`, `LastingMarketIsCommitted`,
`Unblocked`, `QueuedAreTried`, `HitStopsAreSold`, `PoorRecordReducesSize`.

## 5. What was met on the way

The models follow the code; where a document, a comment or a test says otherwise,
the difference is noted here.

Book, limits, exits:

- `max_correlated_shorts` is documented as a hard cap across all engines
  (`config.yaml:648`); a batch of AceVault signals passes it
  (`engines/acevault/engine.py:635`).
- The rollout guide relies on loss-based trips of the kill switch
  (`docs/nxfh01-production-rollout.md:227`). Nothing calls `record_loss`; the runs
  give it the callers it lacks. Likewise nothing records equity, so the drawdown the
  risk layer reads is always zero.
- `test_mass_exit_gate_reset_on_regime_exit` expects the hysteresis to start over
  when the regime leaves TRENDING_UP. The gate does so when it is asked, and
  `check_exits` does not ask it then (`engines/acevault/exit.py:66`).
- `exits/manager.py:331` calls the exit state the only source of truth of the peak.
  It is removed before the close is tried (line 382), and a close that raises starts
  the peak again at zero.
- Track A cuts the universe before it removes disabled coins, so a disabled coin uses
  a place; the AceVault scanner removes them first. AceVault's geometry gate takes
  the mid for its dead zone and the last close for the edge distance.
- `btc_lanes` counts proposals rather than fills against its caps
  (`engines/btc_lanes/engine.py:121`), and a restart resets them. Two separate BTC
  detectors (lanes and context) may disagree. `shock_size_mult` is read by no code.
- The universe list gates entries only without the opportunity layer or under
  `strict_allowlist`; the run sets the latter.

Retrospective and journal:

- A numeric value of `reduce_position_size` redirects the change to `mc_recovery`
  (`retro/applier.py:173-180`); `raise_min_signal_score` may lower (191-199); a hot
  reload merges the whole file, hand edits included (250). Keys at
  `config.yaml:497-498` are read by no code.
- A de-duplicated version keeps its old `applied_at` row
  (`config_intelligence/registry.py:150-183`). A change with too few trades never
  times out of evaluation (`intelligence/rollback.py:76`). A healthy skip inserts no
  run row, so a restart runs again (`fathom/retrospective.py:531-535`). Windows are
  cut by `created_at` and miss outcomes that come late.

Older systems:

- The skill agent draws a fresh idempotency key per call; `max_concurrent` is judged
  on a snapshot that only scans refresh (`risk/constraints.py:155`);
  `short_concentration` lets shorts reach longs + 2 in a bullish regime, where its
  comment says "by more than 1" (264).
- DEX pipeline: advisories never escalate, although `exit_decision.py:6` counts three
  consecutive confirmations, because each evaluation publishes "intact" first. A
  restart forgets that a target was hit, though snapshots hold it. `position_opened`
  handled after an evaluation overwrites its stop (`agents/position_sentinel.py:64`).
  Polled pairs carry no token, are rejected and remembered. Partial sales never reduce
  `size_tokens`. Buys approved since the last refresh are not counted against the
  limits, and a failed fetch counts zero positions
  (`services/unified_portfolio.py:42-60`). `hard_stop` only logs.

## 6. Not modelled

- Position manager, profit protection, task tracker: ladders that nothing calls but
  tests (`check_positions` has no caller, no wait is ever recorded).
- `reconcile_open_positions_vs_hl`, the acp adapter of AceVault: no caller.
- Indicators, scores, research, calibration, enrichment: numeric, without control a
  property tells apart; their comparisons' outcomes are inputs of the models.
- Fathom's and the advisor's prompts and parsing: what a clamped or validated answer
  may be is a set. The shadow review of AceVault's candidates changes nothing.
- Dashboard, notifications, ingestion, reports, read-only journal queries: pure I/O.
- Parts of the DEX pipeline that feed nothing back: provider health, wallet profiles,
  the tables of events that nothing reads.

Next, should the work go on: `ReentryGate` fed by `ExitEngine`'s reasons, as one path
from a price to the next entry; the safety halves of the liveness properties (that a
measure falls with every fair step) as theorems of their own.

## 7. Running

    tlc -config MCTickLimits.cfg MCTradingTick.tla
    tlapm TradingTick_proofs.tla

The module of a run is in `PROJECT.json`; runs take from a second to about two
minutes, proofs up to ten minutes each.
