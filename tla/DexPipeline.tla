---------------------------- MODULE DexPipeline -----------------------------
(***************************************************************************)
(* The DEX pair pipeline: agents and services that pass events to one      *)
(* another over an in-process bus (src/events, src/agents, src/services),  *)
(* wired by src/workers, with their tables (src/persistence/dex_store.py). *)
(*                                                                         *)
(* The bus hands one event at a time to all its handlers and waits for     *)
(* them.  Handlers without an external await are one step; busy is the one *)
(* that is suspended.  The watcher, the sentinel's loop and the portfolio  *)
(* refresh are tasks of their own.  Publishing never suspends: the queue   *)
(* has no limit.  Events that nobody handles, or only the tables of events *)
(* that nothing here reads back, are left out.                             *)
(*                                                                         *)
(* Prices are gains on the entry in percent, scores are in thousandths.    *)
(***************************************************************************)
EXTENDS Integers, Sequences, FiniteSets, FiniteSetsExt

CONSTANTS
  Pairs,
  Onchain,        \* what the four enrichment calls may come to
  Gains,          \* the gains the price feed may show after the entry
  EntryMin,       \* entry_score_hard_min
  MaxConcurrent,  \* max_concurrent_positions
  ExposureCap,    \* max_dex_exposure_pct
  Perps,          \* perps equity, in position sizes
  NansenOn,       \* NANSEN_DEX_ENRICHMENT_ENABLED
  MaxPositions, MaxQueue, MaxUpsets   \* bounds of the model

Positions == 1 .. MaxPositions

ASSUME DexConstants ==
  /\ Onchain \subseteq [approvals : BOOLEAN, removal : BOOLEAN, top10 : 0..100,
                        single : 0..100, age : Nat, buyers : Nat]
  /\ Gains \subseteq Int
  /\ EntryMin \in Nat /\ MaxConcurrent \in Nat /\ ExposureCap \in Nat
  /\ Perps \in Nat \ {0} /\ NansenOn \in BOOLEAN
  /\ MaxPositions \in Nat /\ MaxQueue \in Nat /\ MaxUpsets \in Nat

VARIABLES
  seen,     \* _seen_pair_ids
  queue,    \* the bus
  busy,     \* the suspended handlers of the event being dispatched
  locked,   \* _locked_pairs that have not expired
  view,     \* UnifiedPortfolioView.state, NoView before the first refresh
  wallet,   \* pairs whose token the wallet holds
  rows,     \* dex_open_positions: each position's pair and status
  tracked,  \* PositionSentinel._positions
  todo,     \* rows the monitoring loop has yet to look at
  eval,     \* the evaluation that awaits its price
  advised,  \* _advisory_counts
  gain,     \* what the venue shows for each position
  buys,     \* history: buys of each pair in this life of the process
  full,     \* history: full sells of each position
  cut,      \* history: positions whose full sell was cut short by a crash
  upsets    \* how many of MaxUpsets have happened: crashes, failed statements

risk      == <<locked, view>>
sentinel  == <<tracked, todo, eval>>
history   == <<buys, full, cut, upsets>>
dexVars == <<seen, queue, busy, risk, wallet, rows, sentinel, advised, gain, history>>

NoView  == [count |-> -1, dex |-> 0]
NoState == [stop |-> -100, tp1 |-> FALSE, shown |-> -100]
NoEval  == [of |-> 0, own |-> FALSE, state |-> NoState]
NoRow   == [status |-> "none"]

DexInit ==
  /\ seen = {} /\ queue = <<>> /\ busy = {}
  /\ locked = {} /\ view = NoView /\ wallet = {}
  /\ rows = [i \in Positions |-> NoRow] /\ tracked = [i \in Positions |-> NoState]
  /\ todo = {} /\ eval = NoEval /\ advised = [i \in Positions |-> 0]
  /\ gain = [i \in Positions |-> 0]
  /\ buys = [p \in Pairs |-> 0] /\ full = [i \in Positions |-> 0] /\ cut = {}
  /\ upsets = 0

-----------------------------------------------------------------------------
(* The bus.                                                                *)

PairEvent(type, p)        == [type |-> type, pair |-> p]
Scored(type, p, score)    == [type |-> type, pair |-> p, score |-> score]
PosEvent(type, i)         == [type |-> type, of |-> i]
Sell(type, i, pct)        == [type |-> type, of |-> i, pct |-> pct]

Publish(events) == queue' = queue \o events

\* The tasks outside the bus publish while there is room in the model.
Room(n) == Len(queue) + n <= MaxQueue

\* The dispatch loop takes the next event once all handlers of the one before
\* have returned.
Takes(type) == busy = {} /\ queue # <<>> /\ Head(queue).type = type

\* All handlers return without an await, having published these.
Handled(events) == queue' = Tail(queue) \o events /\ UNCHANGED busy

\* A handler awaits an answer from outside.
Suspends(handler) == queue' = Tail(queue) /\ busy' = busy \cup {handler}

Suspended(doing) == {h \in busy : h.doing = doing}

Returns(handler) == busy' = busy \ {handler}

-----------------------------------------------------------------------------
(* PairWatcher.                                                            *)

\* Mutant: pairs that streamed in are not remembered.
RemembersPolled(p, streamed) == seen' = IF streamed THEN seen ELSE seen \cup {p}

Remembers(p, streamed) == seen' = seen \cup {p}

\* run alternates between the stream and, while that fails, polling; each may
\* find a pair at any time.

\* _run_streaming: a pair of enough liquidity, with its tokens and deployer; one
\* below the floor may come again.
StreamPair(p) ==
  /\ p \notin seen /\ Room(1)
  /\ Remembers(p, TRUE)
  /\ Publish(<<[type |-> "new_pair_detected", pair |-> p, token |-> TRUE]>>)
  /\ UNCHANGED <<busy, risk, wallet, rows, sentinel, advised, gain, history>>

\* _run_polling: a PairCreated log names the pair's address and nothing else.
PollPair(p) ==
  /\ p \notin seen /\ Room(1)
  /\ Remembers(p, FALSE)
  /\ Publish(<<[type |-> "new_pair_detected", pair |-> p, token |-> FALSE]>>)
  /\ UNCHANGED <<busy, risk, wallet, rows, sentinel, advised, gain, history>>

-----------------------------------------------------------------------------
(* EnrichmentAgent and NansenIntelligenceAgent.                            *)

\* A pair without its token's address or deployer goes no further; the others
\* wait for the four calls.
TakeNewPair ==
  /\ Takes("new_pair_detected")
  /\ IF Head(queue).token
     THEN Suspends([doing |-> "enrich", pair |-> Head(queue).pair])
     ELSE Handled(<<>>)
  /\ UNCHANGED <<seen, risk, wallet, rows, sentinel, advised, gain, history>>

\* The hard filters.  A call that failed leaves zeros, which pass.
Rejected(o) ==
  \/ o.approvals \/ o.top10 > 90 \/ o.single > 50 \/ o.removal
  \/ o.age > 0 /\ o.age < 7
  \/ o.buyers > 0 /\ o.buyers < 3

Enriched(p, o, stage, rug) ==
  [type |-> "pair_enriched", pair |-> p, onchain |-> o, stage |-> stage, rug |-> rug]

EnrichDone(o) ==
  /\ \E h \in Suspended("enrich") :
       /\ Returns(h)
       /\ Publish(IF Rejected(o) THEN <<>> ELSE <<Enriched(h.pair, o, "onchain", FALSE)>>)
  /\ UNCHANGED <<seen, risk, wallet, rows, sentinel, advised, gain, history>>

Clamped(x, lo, hi) == IF x < lo THEN lo ELSE IF x > hi THEN hi ELSE x

\* The scorer's dimensions, in thousandths, on the fields that enrichment
\* fills.  It never fills the volume, the price change, the lock and the
\* smart-money count, which therefore score 300, 300, 700 and 300.
DeployerScore(o, rug) ==
  IF rug THEN 0 ELSE IF o.age = 0 THEN 300 ELSE Clamped((o.age * 1000) \div 90, 100, 1000)

HolderScore(o) ==
  IF o.top10 = 0 THEN 300
  ELSE IF o.top10 <= 60 THEN 1000
  ELSE IF o.top10 >= 90 THEN 100
  ELSE Max({100, ((90 - o.top10) * 1000) \div 30 - (Max({0, o.single - 30}) * 300) \div 70})

FlowScore(o) == IF o.buyers = 0 THEN 100 ELSE Clamped(o.buyers * 20, 0, 1000)

\* handle_pair_enriched of the scorer, without the decay that sets in when the
\* event waited for more than half an hour.
Score(o, rug) ==
  (200 * 300 + 150 * DeployerScore(o, rug) + 150 * HolderScore(o) + 150 * FlowScore(o)
     + 150 * 300 + 100 * 700 + 100 * 300) \div 1000

\* The handlers of one event run in the order they subscribed: without Nansen,
\* or when its answer is at hand, the scorer sees the finished event; a rug
\* deployer's is published again all the same.
TakeEnriched(rug, atHand) ==
  /\ Takes("pair_enriched")
  /\ rug => NansenOn
  /\ LET e == Head(queue)
         scored == Scored("pair_scored", e.pair, Score(e.onchain, e.rug \/ rug))
     IN IF e.stage = "complete" THEN ~rug /\ Handled(<<scored>>)
        ELSE IF ~NansenOn THEN Handled(<<scored>>)
        ELSE IF atHand
        THEN Handled((IF rug THEN <<Enriched(e.pair, e.onchain, "complete", TRUE)>> ELSE <<>>)
                       \o <<scored>>)
        ELSE Suspends([doing |-> "label", event |-> e, rug |-> rug])
  /\ UNCHANGED <<seen, risk, wallet, rows, sentinel, advised, gain, history>>

\* Nansen's answer comes after the scorer passed the unfinished event over:
\* only a rug deployer's is published again, and scored.
LabelDone ==
  /\ \E h \in Suspended("label") :
       /\ Returns(h)
       /\ Publish(IF h.rug
                  THEN <<Enriched(h.event.pair, h.event.onchain, "complete", TRUE)>>
                  ELSE <<>>)
  /\ UNCHANGED <<seen, risk, wallet, rows, sentinel, advised, gain, history>>

-----------------------------------------------------------------------------
(* UnifiedPortfolioView, DecisionEngine and RiskArbiter.                   *)

\* refresh: a balance that cannot be fetched keeps the value of the last one
\* and counts no positions.
Refresh(ok) ==
  /\ view' = IF ok THEN [count |-> Cardinality(wallet), dex |-> Cardinality(wallet)]
             ELSE [count |-> 0, dex |-> view.dex]
  /\ UNCHANGED <<seen, queue, busy, locked, wallet, rows, sentinel, advised, gain, history>>

\* Below the watch threshold and the entry threshold, or before the equity is
\* known, nothing is requested.
Worthwhile(score) == score >= 500 /\ score >= EntryMin /\ view # NoView

TakeScored ==
  /\ Takes("pair_scored")
  /\ LET e == Head(queue)
     IN Handled(IF Worthwhile(e.score)
                THEN <<Scored("buy_requested", e.pair, e.score)>> ELSE <<>>)
  /\ UNCHANGED <<seen, risk, wallet, rows, sentinel, advised, gain, history>>

\* _check_all, against the last refresh: buys approved since are not counted.
Violates(p, score) ==
  \/ view.dex * 100 >= ExposureCap * (Perps + view.dex)
  \/ view.count >= MaxConcurrent
  \/ score < EntryMin
  \/ p \in locked

\* deep: the drawdown of the equity seen so far is 30 percent or more.
TakeRequested(deep) ==
  /\ Takes("buy_requested")
  /\ LET e == Head(queue)
     IN IF deep \/ Violates(e.pair, e.score)
        THEN Handled(<<>>) /\ UNCHANGED locked
        ELSE /\ Handled(<<PairEvent("buy_approved", e.pair)>>)
             /\ locked' = locked \cup {e.pair}
  /\ UNCHANGED <<seen, view, wallet, rows, sentinel, advised, gain, history>>

\* duplicate_lock_s passes; nothing unlocks a pair earlier.
LockExpires(p) ==
  /\ p \in locked /\ locked' = locked \ {p}
  /\ UNCHANGED <<seen, queue, busy, view, wallet, rows, sentinel, advised, gain, history>>

-----------------------------------------------------------------------------
(* DexExecutionService, with a router that may suspend, refuse or raise.   *)

\* Mutant: positions are looked up without asking whether they were closed.
KnownRows == {i \in Positions : rows[i].status # "none"}

\* get_open_positions.
OpenRows == {i \in Positions : rows[i].status = "open"}

FreeRows == {i \in Positions : rows[i].status = "none"}

TakeBuyApproved ==
  /\ Takes("buy_approved")
  /\ Suspends([doing |-> "buy", pair |-> Head(queue).pair])
  /\ UNCHANGED <<seen, risk, wallet, rows, sentinel, advised, gain, history>>

\* The swap went through: the opening is announced and then recorded, without an
\* await in between.
BuyDone ==
  /\ FreeRows # {}
  /\ \E h \in Suspended("buy") :
       LET i == Min(FreeRows)
       IN /\ Returns(h)
          /\ Publish(<<PosEvent("position_opened", i)>>)
          /\ wallet' = wallet \cup {h.pair}
          /\ rows' = [rows EXCEPT ![i] = [status |-> "open", pair |-> h.pair]]
          /\ buys' = [buys EXCEPT ![h.pair] = @ + 1]
  /\ UNCHANGED <<seen, risk, sentinel, advised, gain, full, cut, upsets>>

\* Too much price impact, refused, or raised; what raised may have executed.
BuyFails(executed) ==
  /\ \E h \in Suspended("buy") :
       /\ Returns(h)
       /\ wallet' = IF executed THEN wallet \cup {h.pair} ELSE wallet
       /\ buys' = IF executed THEN [buys EXCEPT ![h.pair] = @ + 1] ELSE buys
  /\ UNCHANGED <<seen, queue, risk, rows, sentinel, advised, gain, full, cut, upsets>>

\* A position that the table does not hold as open is not sold.
TakeSellApproved ==
  /\ Takes("sell_approved")
  /\ LET e == Head(queue)
     IN IF e.of \in OpenRows
        THEN Suspends([doing |-> "sell", of |-> e.of, pct |-> e.pct])
        ELSE Handled(<<>>)
  /\ UNCHANGED <<seen, risk, wallet, rows, sentinel, advised, gain, history>>

\* Counted to two, a bound of the model.
Counted(n) == Min({n + 1, 2})

\* A part sold leaves the row as it was, its size included.
SellDone(i) ==
  /\ \E h \in Suspended("sell") :
       /\ h.of = i
       /\ Returns(h)
       /\ Publish(<<Sell("sell_executed", i, h.pct)>>)
       /\ IF h.pct >= 100
          THEN /\ rows' = [rows EXCEPT ![i].status = "closed"]
               /\ full' = [full EXCEPT ![i] = Counted(@)]
               /\ wallet' = wallet \ {rows[i].pair}
          ELSE UNCHANGED <<rows, full, wallet>>
  /\ UNCHANGED <<seen, risk, sentinel, advised, gain, buys, cut, upsets>>

\* Refused or raised: the sentinel will warn again.  A full sale that raised may
\* have executed.
SellFails(executed) ==
  /\ \E h \in Suspended("sell") :
       /\ Returns(h)
       /\ IF executed /\ h.pct >= 100
          THEN /\ full' = [full EXCEPT ![h.of] = Counted(@)] /\ cut' = cut \cup {h.of}
               /\ wallet' = wallet \ {rows[h.of].pair}
          ELSE UNCHANGED <<full, cut, wallet>>
  /\ UNCHANGED <<seen, queue, risk, rows, sentinel, advised, gain, buys, upsets>>

-----------------------------------------------------------------------------
(* PositionSentinel and ExitDecisionAgent.                                 *)

FreshState(shown) == [stop |-> -15, tp1 |-> FALSE, shown |-> shown]

\* The evaluation that awaits a price of i keeps an object the dictionary no
\* longer holds.
Detach(i) == eval' = IF eval.of = i THEN [eval EXCEPT !.own = FALSE] ELSE eval

\* handle_position_opened: whatever was known of the position is replaced.
TakeOpened ==
  /\ Takes("position_opened") /\ Handled(<<>>)
  /\ LET i == Head(queue).of
     IN tracked' = [tracked EXCEPT ![i] = FreshState(0)] /\ Detach(i)
  /\ UNCHANGED <<seen, risk, wallet, rows, todo, advised, gain, history>>

TakeSold ==
  /\ Takes("sell_executed") /\ Handled(<<>>)
  /\ LET e == Head(queue)
     IN IF e.pct >= 100
        THEN tracked' = [tracked EXCEPT ![e.of] = NoState] /\ Detach(e.of)
        ELSE UNCHANGED <<tracked, eval>>
  /\ UNCHANGED <<seen, risk, wallet, rows, todo, advised, gain, history>>

\* The loop goes on to the next row of its snapshot, open or not by now; one it
\* does not know yet enters from the row, without a price.
GoOn(left, known) ==
  IF left = {}
  THEN eval' = NoEval /\ todo' = {} /\ tracked' = known
  ELSE LET i == Min(left)
           s == IF known[i] = NoState THEN FreshState(-100) ELSE known[i]
       IN /\ eval' = [of |-> i, own |-> TRUE, state |-> s]
          /\ todo' = left \ {i} /\ tracked' = [known EXCEPT ![i] = s]

\* Mutant: the loop goes over the positions it tracks.
WatchedInMemory == {i \in OpenRows : tracked[i] # NoState}

Watched == OpenRows

SweepStart ==
  /\ eval = NoEval /\ Watched # {}
  /\ GoOn(Watched, tracked)
  /\ UNCHANGED <<seen, queue, busy, risk, wallet, rows, advised, gain, history>>

\* _update_trailing_stop.
Ratcheted(s) ==
  [s EXCEPT !.stop = IF s.tp1 THEN Max({@, 15})
                     ELSE IF s.shown >= 20 THEN Max({@, 8})
                     ELSE IF s.shown >= 10 THEN Max({@, 0}) ELSE @]

Warning(i, severity) == [type |-> "exit_warning", of |-> i, severity |-> severity]

Stopped(s)  == s.shown > -100 /\ s.shown <= s.stop
Tp1Hit(s)   == ~Stopped(s) /\ ~s.tp1 /\ s.shown >= 25
Tp2Hit(s)   == ~Stopped(s) /\ s.shown >= 50

\* What _evaluate_position publishes.  No trend of the volume is ever set, so the
\* thesis is intact, which the update says before any advisory.
Warnings(i, s) ==
  (IF Stopped(s) \/ Tp2Hit(s) THEN <<Warning(i, "critical")>>
   ELSE <<PosEvent("thesis_intact", i)>>
          \o IF s.shown > -100 /\ s.shown < -10 THEN <<Warning(i, "advisory")>> ELSE <<>>)

\* The price arrives, or does not.
Looked(i, ok) ==
  Ratcheted(IF ok THEN [eval.state EXCEPT !.shown = gain[i]] ELSE eval.state)

Said(i, s) == (IF Tp1Hit(s) THEN <<Warning(i, "urgent")>> ELSE <<>>) \o Warnings(i, s)

Kept(i, s) ==
  IF eval.own THEN [tracked EXCEPT ![i] = [s EXCEPT !.tp1 = @ \/ Tp1Hit(s)]] ELSE tracked

\* The evaluation runs to its end.
EvalEnd(i, ok) ==
  /\ eval.of = i /\ eval # NoEval /\ Room(2)
  /\ LET s == Looked(i, ok) IN Publish(Said(i, s)) /\ GoOn(todo, Kept(i, s))
  /\ UNCHANGED <<seen, busy, risk, wallet, rows, advised, gain, history>>

\* A statement after one of the events fails: the events before it are out, and
\* the rest of the sweep is given up until the next one.
EvalAborts(i, ok) ==
  /\ eval.of = i /\ eval # NoEval /\ Room(2)
  /\ LET s == Looked(i, ok)
     IN /\ \E n \in 1 .. Len(Said(i, s)) : Publish(SubSeq(Said(i, s), 1, n))
        /\ tracked' = Kept(i, s) /\ todo' = {} /\ eval' = NoEval
  /\ upsets < MaxUpsets /\ upsets' = upsets + 1
  /\ UNCHANGED <<seen, busy, risk, wallet, rows, advised, gain, buys, full, cut>>

\* handle_thesis_update.
TakeThesis ==
  /\ Takes("thesis_intact") /\ Handled(<<>>)
  /\ advised' = [advised EXCEPT ![Head(queue).of] = 0]
  /\ UNCHANGED <<seen, risk, wallet, rows, sentinel, gain, history>>

\* handle_exit_warning: the third advisory in a row sells half.
TakeWarning ==
  /\ Takes("exit_warning")
  /\ LET e == Head(queue)
         third == e.severity = "advisory" /\ advised[e.of] >= 2
     IN /\ Handled(IF e.severity = "critical" THEN <<Sell("sell_candidate", e.of, 100)>>
                   ELSE IF e.severity = "urgent" \/ third
                   THEN <<Sell("sell_candidate", e.of, 50)>>
                   ELSE <<>>)
        /\ advised' = [advised EXCEPT ![e.of] =
                         IF e.severity = "advisory" /\ ~third THEN @ + 1 ELSE 0]
  /\ UNCHANGED <<seen, risk, wallet, rows, sentinel, gain, history>>

\* RiskArbiter approves every sale.
TakeCandidate ==
  /\ Takes("sell_candidate")
  /\ Handled(<<[Head(queue) EXCEPT !.type = "sell_approved"]>>)
  /\ UNCHANGED <<seen, risk, wallet, rows, sentinel, advised, gain, history>>

-----------------------------------------------------------------------------
(* The market, the process and the specification.                          *)

Market(i, g) ==
  /\ i \in OpenRows /\ g # gain[i]
  /\ gain' = [gain EXCEPT ![i] = g]
  /\ UNCHANGED <<seen, queue, busy, risk, wallet, rows, sentinel, advised, history>>

\* The process dies and starts again: tables and wallet stay, and what a
\* suspended handler had asked of the venue may or may not have executed.
Crash(executed) ==
  /\ upsets < MaxUpsets /\ upsets' = upsets + 1
  /\ LET bought == IF executed THEN {h.pair : h \in Suspended("buy")} ELSE {}
         sold   == IF executed
                   THEN {h.of : h \in {x \in Suspended("sell") : x.pct >= 100}} ELSE {}
     IN /\ wallet' = (wallet \cup bought) \ {rows[i].pair : i \in sold}
        /\ full' = [i \in Positions |-> IF i \in sold THEN Counted(full[i]) ELSE full[i]]
        /\ cut' = cut \cup sold
  /\ seen' = {} /\ queue' = <<>> /\ busy' = {}
  /\ locked' = {} /\ view' = NoView
  /\ tracked' = [i \in Positions |-> NoState] /\ todo' = {} /\ eval' = NoEval
  /\ advised' = [i \in Positions |-> 0] /\ buys' = [p \in Pairs |-> 0]
  /\ UNCHANGED <<rows, gain>>

Dispatch ==
  \/ TakeNewPair \/ \E rug, atHand \in BOOLEAN : TakeEnriched(rug, atHand)
  \/ TakeScored \/ (\E deep \in BOOLEAN : TakeRequested(deep)) \/ TakeBuyApproved \/ TakeSellApproved
  \/ TakeOpened \/ TakeSold \/ TakeThesis \/ TakeWarning \/ TakeCandidate

Answer ==
  \/ \E o \in Onchain : EnrichDone(o)
  \/ LabelDone \/ BuyDone
  \/ \E executed \in BOOLEAN : BuyFails(executed) \/ SellFails(executed)
  \/ \E i \in Positions : SellDone(i)

Monitor == SweepStart \/ \E i \in Positions, ok \in BOOLEAN : EvalEnd(i, ok) \/ EvalAborts(i, ok)

DexNext ==
  \/ \E p \in Pairs : StreamPair(p) \/ PollPair(p) \/ LockExpires(p)
  \/ \E ok \in BOOLEAN : Refresh(ok)
  \/ Dispatch \/ Answer \/ Monitor
  \/ \E i \in Positions, g \in Gains : Market(i, g)
  \/ \E executed \in BOOLEAN : Crash(executed)

DexSpec == DexInit /\ [][DexNext]_dexVars

\* The loops run and every awaited call returns in the end; a price that is asked
\* for again and again arrives some time, and so does a sale go through.
\* (decision.py:94 passes an empty token address on, under which prices are asked
\* for: nothing is sold at a stop unless that call answers.)
DexFairSpec ==
  /\ DexSpec /\ WF_dexVars(Dispatch) /\ WF_dexVars(Answer) /\ WF_dexVars(Monitor)
  /\ \A i \in Positions : SF_dexVars(EvalEnd(i, TRUE)) /\ SF_dexVars(SellDone(i))

-----------------------------------------------------------------------------
(* What must hold.                                                         *)

\* A pair is bought once in a life of the process: locks expire, the stream and
\* the polling find the same pair, and Nansen publishes an event again, but the
\* watcher remembers (pair_watcher.py, risk_arbiter.py).
OneBuyPerPair == \A p \in Pairs : buys[p] <= 1

\* The sentinel warns in every sweep until a sale is recorded, and a row it read
\* before may be sold by then; still no position is sold in full twice, unless
\* the answer to its sale was lost (execution_dex.py, bus.py).
SoldInFullOnce == \A i \in Positions : full[i] <= 1 \/ i \in cut

\* A position that stays at or below its hard stop is sold, after a restart too
\* (position_sentinel.py, exit_decision.py, execution_dex.py).
HitStopsAreSold == \A i \in Positions : []<>~(rows[i].status = "open" /\ gain[i] <= -15)
=============================================================================
