------------------------------- MODULE Journal -------------------------------
(***************************************************************************)
(* The decision journal (src/db/decision_journal.py), its callers in the   *)
(* AceVault engine and the Track A executor and exits, and the safety mode *)
(* that reads the journal to size new entries (src/risk/safety_mode.py).   *)
(*                                                                         *)
(* One trade leaves up to four records: its row, the configuration stamps  *)
(* on the row, its trade_attribution row and its post-trade analysis.  No  *)
(* transaction spans them.  Every statement may fail, before or after the  *)
(* database commits it, and the process may stop at every await.  The      *)
(* outcome file, whose errors are swallowed and which nothing here reads   *)
(* back, is left out.                                                      *)
(* Which trades are entered and closed, and when, is free: TradingTick and *)
(* ExitEngine say how the engines choose.                                  *)
(***************************************************************************)
EXTENDS Integers, Sequences, SequencesExt, FiniteSets, TLC

CONSTANTS
  Ace,          \* trades of the AceVault engine: rows of acevault_decisions
  TrackA,       \* trades of the other engines: rows of strategy_decisions
  Pnls,         \* what a trade may make, in dollars
  MinClosed,    \* risk.safety_mode.min_closed_trades
  MinFactor,    \* min_profit_factor_before_leaving_safety_mode, in hundredths
  MinRatio,     \* min_avg_win_loss_ratio, in hundredths
  None, Open,   \* no row, and a row without an outcome
  MaxFaults     \* bound on the statements that raise and the process stops

Trades == Ace \cup TrackA
Moments == {"entry", "exit"}

\* A call of the journal stands at the next statement it will send.
Calls == [trade : Trades, moment : Moments, at : {"row", "stamp", "attribute"}, pnl : Pnls]

ASSUME JournalTrades ==
  /\ Ace \cap TrackA = {} /\ Pnls \subseteq Int /\ Pnls # {}
  /\ None # Open /\ None \notin Pnls /\ Open \notin Pnls
  /\ None \notin Calls /\ \A m \in SUBSET Moments : m # None
ASSUME JournalLimits ==
  /\ MinClosed \in Nat /\ MinFactor \in Nat /\ MinRatio \in Nat
  /\ MaxFaults \in Nat

VARIABLES
  connected,  \* build_context connected a journal in this process
  phase,      \* main's loop: "refresh" the safety multiplier, then the "tick"
  mult,       \* the risk layer's safety multiplier: "full" or "reduced"
  sent,       \* trades sent to the venue so far
  book,       \* trades whose engine holds the position
  linked,     \* AceVault positions that carry the id of their row
  row,        \* each trade's row: None, Open, or the pnl_usd recorded on it
  closed,     \* AceVault rows in the order of outcome_recorded_at
  stamped,    \* configuration stamps on each row
  attributed, \* each trade's trade_attribution row: None or its stamps
  analyses,   \* Fathom post-trade analyses under way
  reviewed,   \* rows that carry an analysis
  call,       \* the journal call being awaited, or None
  faulted,    \* trades one of whose database calls failed or was cut short
  faults      \* statements that raised and process stops so far

vars == <<connected, phase, mult, sent, book, linked, row, closed, stamped,
          attributed, analyses, reviewed, call, faulted, faults>>

records == <<row, closed, stamped, attributed, reviewed>>
process == <<connected, phase, mult, sent>>

TypeOK ==
  /\ connected \in BOOLEAN /\ phase \in {"refresh", "tick"}
  /\ mult \in {"full", "reduced"}
  /\ sent \subseteq Trades /\ book \subseteq Trades /\ linked \subseteq Trades
  /\ row \in [Trades -> {None, Open} \cup Pnls]
  /\ closed \in Seq(Ace)
  /\ stamped \in [Trades -> SUBSET Moments]
  /\ attributed \in [Trades -> {None} \cup SUBSET Moments]
  /\ analyses \subseteq Ace /\ reviewed \subseteq Ace /\ faulted \subseteq Trades
  /\ call \in Calls \cup {None}
  /\ faults \in 0 .. MaxFaults

Init ==
  /\ connected \in BOOLEAN /\ phase = "refresh" /\ mult = "full"
  /\ sent = {} /\ book = {} /\ linked = {} /\ row = [t \in Trades |-> None] /\ closed = <<>>
  /\ stamped = [t \in Trades |-> {}] /\ attributed = [t \in Trades |-> None]
  /\ analyses = {} /\ reviewed = {}
  /\ call = None /\ faulted = {} /\ faults = 0

-----------------------------------------------------------------------------
(* Safety mode.                                                            *)

Wins(pnls) == SelectSeq(pnls, LAMBDA x : x > 0)
Losses(pnls) == SelectSeq(pnls, LAMBDA x : x < 0)
NetOf(pnls) == FoldLeft(LAMBDA a, x : a + x, 0, pnls)
Abs(x) == IF x < 0 THEN -x ELSE x

\* _profit_factor(pnls) >= MinFactor: infinite with wins and no loss, zero
\* with neither.
FactorClears(pnls) ==
  IF Losses(pnls) = <<>>
  THEN Wins(pnls) # <<>> \/ MinFactor = 0
  ELSE 100 * NetOf(Wins(pnls)) >= MinFactor * Abs(NetOf(Losses(pnls)))

\* _avg_win_loss_ratio(pnls) >= MinRatio, cross-multiplied.
RatioClears(pnls) ==
  IF Losses(pnls) = <<>>
  THEN Wins(pnls) # <<>> \/ MinRatio = 0
  ELSE 100 * NetOf(Wins(pnls)) * Len(Losses(pnls))
         >= MinRatio * Abs(NetOf(Losses(pnls))) * Len(Wins(pnls))
       /\ (Wins(pnls) # <<>> \/ MinRatio = 0)

\* fetch_closed_decisions_for_metrics(min_n): the last outcomes recorded on
\* AceVault rows; the trades of the other engines are not among them.
RecentPnls ==
  LET first == IF Len(closed) > MinClosed THEN Len(closed) - MinClosed + 1 ELSE 1
  IN  [i \in 1 .. Len(closed) - first + 1 |-> row[closed[first + i - 1]]]

\* Mutant: a strategy that once left the safety mode never returns to it.
MultiplierLatched(pnls) ==
  IF \/ mult = "full" /\ Len(pnls) >= MinClosed
     \/ Len(pnls) >= MinClosed /\ FactorClears(pnls) /\ RatioClears(pnls)
  THEN "full" ELSE "reduced"

\* compute_safety_multiplier_from_pnls.
Multiplier(pnls) ==
  IF Len(pnls) >= MinClosed /\ FactorClears(pnls) /\ RatioClears(pnls)
  THEN "full" ELSE "reduced"

\* main: refresh_safety_mode before each tick.  Without a journal the size is
\* reduced; a query that raises is logged and the multiplier stays.
RefreshSafetyMode ==
  /\ phase = "refresh" /\ phase' = "tick"
  /\ mult' = IF connected THEN Multiplier(RecentPnls) ELSE "reduced"
  /\ UNCHANGED <<connected, sent, book, linked, records, analyses, call, faulted, faults>>

RefreshFails ==
  /\ phase = "refresh" /\ phase' = "tick" /\ connected
  /\ UNCHANGED <<connected, mult, sent, book, linked, records, analyses, call, faulted,
                 faults>>

TickEnds ==
  /\ phase = "tick" /\ call = None /\ phase' = "refresh"
  /\ UNCHANGED <<connected, mult, sent, book, linked, records, analyses, call, faulted,
                 faults>>

-----------------------------------------------------------------------------
(* The calls.                                                              *)

At(t, moment, at, pnl) == [trade |-> t, moment |-> moment, at |-> at, pnl |-> pnl]
AnyPnl == CHOOSE x \in Pnls : TRUE

\* A statement that raises may have been committed all the same.
Results == {r \in [committed : BOOLEAN, raised : BOOLEAN] : r.committed \/ r.raised}

\* What result r of a statement of trade t leaves of the fault budget.
Noted(t, r) ==
  /\ r.raised => faults < MaxFaults
  /\ faults' = IF r.raised THEN faults + 1 ELSE faults
  /\ faulted' = IF r.raised THEN faulted \cup {t} ELSE faulted

\* AceVaultEngine after submit_trade: the position exists only once log_entry
\* has returned; without a journal it gets an id of its own at once.
AceEnters(t) ==
  /\ phase = "tick" /\ call = None /\ t \in Ace /\ t \notin sent
  /\ sent' = sent \cup {t}
  /\ call' = IF connected THEN At(t, "entry", "row", AnyPnl) ELSE None
  /\ book' = IF connected THEN book ELSE book \cup {t}
  /\ UNCHANGED <<connected, phase, mult, linked, records, analyses, faulted, faults>>

\* TrackAExecutor.execute: the position is registered, then journalled.
TrackAEnters(t) ==
  /\ phase = "tick" /\ call = None /\ t \in TrackA /\ t \notin sent
  /\ sent' = sent \cup {t}
  /\ book' = book \cup {t} /\ linked' = linked \cup {t}
  /\ call' = IF connected THEN At(t, "entry", "row", AnyPnl) ELSE None
  /\ UNCHANGED <<connected, phase, mult, records, analyses, faulted, faults>>

\* AceVaultEngine on an exit: submit_close, whose failure is swallowed, then
\* log_exit; the position is dropped after it.
AceExits(t, pnl) ==
  /\ phase = "tick" /\ call = None /\ t \in Ace \cap book
  /\ call' = IF connected THEN At(t, "exit", "row", pnl) ELSE None
  /\ book' = IF connected THEN book ELSE book \ {t}
  /\ UNCHANGED <<process, linked, records, analyses, faulted, faults>>

\* _apply_close: the position is closed and dropped, then journalled.
TrackAExits(t, pnl) ==
  /\ phase = "tick" /\ call = None /\ t \in TrackA \cap book
  /\ book' = book \ {t}
  /\ call' = IF connected THEN At(t, "exit", "row", pnl) ELSE None
  /\ UNCHANGED <<process, linked, records, analyses, faulted, faults>>

\* Mutant: the position keeps the id the engine drew, whatever log_entry returned.
AceRegistersOwnId(t, id) == book' = book \cup {t} /\ UNCHANGED linked

\* AceVaultEngine when log_entry is over: the position carries the row's id if
\* the call returned one, and an id of its own if it raised.
AceRegisters(t, id) == book' = book \cup {t} /\ linked' = linked \cup id

\* AceVaultEngine when log_exit is over, whether or not it raised.
AceDrops(t) == book' = book \ {t} /\ UNCHANGED linked

\* A statement WHERE id = the position's id finds the row or nothing.
RowFound(t) == t \in linked /\ row[t] # None

Awaits(moment, at) == call # None /\ call.moment = moment /\ call.at = at

\* log_entry: the INSERT that draws the row's id.
AceEntryRow(r) ==
  LET t == call.trade IN
  /\ Awaits("entry", "row") /\ t \in Ace
  /\ row' = IF r.committed THEN [row EXCEPT ![t] = Open] ELSE row
  /\ IF r.raised
     THEN call' = None /\ AceRegisters(t, {})
     ELSE call' = [call EXCEPT !.at = "stamp"] /\ UNCHANGED <<book, linked>>
  /\ Noted(t, r)
  /\ UNCHANGED <<process, closed, stamped, attributed, reviewed, analyses>>

\* log_track_a_entry: the INSERT under the position's id.
TrackAEntryRow(r) ==
  LET t == call.trade IN
  /\ Awaits("entry", "row") /\ t \in TrackA
  /\ row' = IF r.committed THEN [row EXCEPT ![t] = Open] ELSE row
  /\ call' = IF r.raised THEN None ELSE [call EXCEPT !.at = "stamp"]
  /\ Noted(t, r)
  /\ UNCHANGED <<process, book, linked, closed, stamped, attributed, reviewed, analyses>>

\* log_exit: the UPDATE of the outcome.  If it raises, the position is dropped
\* all the same and nothing retries it: a row gets its outcome once.
AceExitRow(r) ==
  LET t == call.trade  found == r.committed /\ RowFound(t) IN
  /\ Awaits("exit", "row") /\ t \in Ace
  /\ row' = IF found THEN [row EXCEPT ![t] = call.pnl] ELSE row
  /\ closed' = IF found THEN Append(closed, t) ELSE closed
  /\ IF r.raised
     THEN call' = None /\ AceDrops(t)
     ELSE call' = [call EXCEPT !.at = "stamp"] /\ UNCHANGED <<book, linked>>
  /\ Noted(t, r)
  /\ UNCHANGED <<process, stamped, attributed, reviewed, analyses>>

\* log_track_a_exit: the UPDATE of the outcome.
TrackAExitRow(r) ==
  LET t == call.trade IN
  /\ Awaits("exit", "row") /\ t \in TrackA
  /\ row' = IF r.committed /\ RowFound(t) THEN [row EXCEPT ![t] = call.pnl] ELSE row
  /\ call' = IF r.raised THEN None ELSE [call EXCEPT !.at = "stamp"]
  /\ Noted(t, r)
  /\ UNCHANGED <<process, book, linked, closed, stamped, attributed, reviewed, analyses>>

\* What follows the attribution, whether or not it failed: the engine's own step
\* and, after an AceVault exit, the background analysis.
EntryReturns(t) ==
  /\ call' = None /\ UNCHANGED analyses
  /\ IF t \in Ace THEN AceRegisters(t, {t}) ELSE UNCHANGED <<book, linked>>

ExitReturns(t) ==
  /\ call' = None
  /\ IF t \in Ace THEN AceDrops(t) /\ analyses' = analyses \cup {t}
     ELSE UNCHANGED <<book, linked, analyses>>

\* _apply_*_entry_attribution: the UPDATE of the row's entry stamp.  A failure
\* is swallowed and skips the trade_attribution row.
StampEntry(r) ==
  LET t == call.trade IN
  /\ Awaits("entry", "stamp")
  /\ stamped' = IF r.committed THEN [stamped EXCEPT ![t] = @ \cup {"entry"}] ELSE stamped
  /\ IF r.raised
     THEN EntryReturns(t)
     ELSE call' = [call EXCEPT !.at = "attribute"] /\ UNCHANGED <<book, linked, analyses>>
  /\ Noted(t, r)
  /\ UNCHANGED <<process, row, closed, attributed, reviewed>>

\* _apply_*_entry_attribution: the upsert of the trade_attribution row.
AttributeEntry(r) ==
  LET t == call.trade IN
  /\ Awaits("entry", "attribute")
  /\ attributed' = IF r.committed THEN [attributed EXCEPT ![t] = {"entry"}] ELSE attributed
  /\ EntryReturns(t)
  /\ Noted(t, r)
  /\ UNCHANGED <<process, row, closed, stamped, reviewed>>

\* Mutant: the two writes of an exit's attribution fail independently.
StampExitPressesOn(r) ==
  LET t == call.trade IN
  /\ Awaits("exit", "stamp")
  /\ stamped' = IF r.committed /\ RowFound(t)
                THEN [stamped EXCEPT ![t] = @ \cup {"exit"}] ELSE stamped
  /\ call' = [call EXCEPT !.at = "attribute"] /\ UNCHANGED <<book, linked, analyses>>
  /\ Noted(t, r)
  /\ UNCHANGED <<process, row, closed, attributed, reviewed>>

\* _apply_*_exit_attribution: the UPDATE of the row's exit stamp.
StampExit(r) ==
  LET t == call.trade IN
  /\ Awaits("exit", "stamp")
  /\ stamped' = IF r.committed /\ RowFound(t)
                THEN [stamped EXCEPT ![t] = @ \cup {"exit"}] ELSE stamped
  /\ IF r.raised
     THEN ExitReturns(t)
     ELSE call' = [call EXCEPT !.at = "attribute"] /\ UNCHANGED <<book, linked, analyses>>
  /\ Noted(t, r)
  /\ UNCHANGED <<process, row, closed, attributed, reviewed>>

\* _apply_*_exit_attribution: the UPDATE of the trade_attribution row, if the
\* position's id finds one.
AttributeExit(r) ==
  LET t == call.trade IN
  /\ Awaits("exit", "attribute")
  /\ attributed' = IF r.committed /\ t \in linked /\ attributed[t] # None
                   THEN [attributed EXCEPT ![t] = @ \cup {"exit"}] ELSE attributed
  /\ ExitReturns(t)
  /\ Noted(t, r)
  /\ UNCHANGED <<process, row, closed, stamped, reviewed>>

\* FathomAdvisor.analyse_trade, a background task: it may fail at the model or
\* at the database, and finds the row by the position's id.
Analyse(t, ok) ==
  /\ t \in analyses /\ analyses' = analyses \ {t}
  /\ reviewed' = IF ok /\ RowFound(t) THEN reviewed \cup {t} ELSE reviewed
  /\ UNCHANGED <<process, book, linked, row, closed, stamped, attributed,
                 call, faulted, faults>>

\* The process stops and starts again: the tables and the file remain.  The
\* open positions come back under the engine "recovered", outside the journal.
Restart ==
  /\ faults < MaxFaults /\ faults' = faults + 1
  /\ faulted' = faulted \cup book \cup (IF call = None THEN {} ELSE {call.trade})
  /\ connected' \in BOOLEAN /\ phase' = "refresh" /\ mult' = "full"
  /\ book' = {} /\ call' = None /\ analyses' = {}
  /\ UNCHANGED <<sent, linked, records>>

Enters == \E t \in Trades : AceEnters(t) \/ TrackAEnters(t)
Exits == \E t \in Trades, pnl \in Pnls : AceExits(t, pnl) \/ TrackAExits(t, pnl)
Sends == \E r \in Results :
           \/ AceEntryRow(r) \/ TrackAEntryRow(r) \/ AceExitRow(r) \/ TrackAExitRow(r)
           \/ StampEntry(r) \/ AttributeEntry(r) \/ StampExit(r) \/ AttributeExit(r)
Analyses == \E t \in Ace, ok \in BOOLEAN : Analyse(t, ok)

Next == RefreshSafetyMode \/ RefreshFails \/ TickEnds \/ Enters \/ Exits \/ Sends
        \/ Analyses \/ Restart

Spec == Init /\ [][Next]_vars

\* A statement answers or raises, a tick ends, and the database answers the
\* refresh again and again.
FairSpec ==
  Spec /\ WF_vars(Sends) /\ WF_vars(TickEnds) /\ SF_vars(RefreshSafetyMode)

-----------------------------------------------------------------------------
\* The four records of a trade agree whatever failed between them: no stamp
\* without its row, none of an exit before the outcome, none attributed that
\* the row does not carry, no analysis of a trade still open.
RecordsAgree ==
  \A t \in Trades :
    /\ stamped[t] # {} => row[t] # None
    /\ "exit" \in stamped[t] => row[t] # Open
    /\ attributed[t] # None => attributed[t] \subseteq stamped[t]
    /\ t \in reviewed => row[t] \notin {None, Open}

\* A row stays open only as long as an engine holds its position or a call is
\* about it, unless one of the trade's own database calls failed or the process
\* stopped: no trade that went well is missing from the statistics.
OpenRowsAreHeld ==
  \A t \in Trades :
    row[t] = Open => \/ t \in book \cup faulted
                     \/ call # None /\ call.trade = t

\* While the record does not clear the thresholds the safety mode reduces the
\* size of the entries to come, however many refreshes fail on the way.
RecordClears ==
  Len(closed) >= MinClosed /\ FactorClears(RecentPnls) /\ RatioClears(RecentPnls)
PoorRecordReducesSize == [](~RecordClears => <>(mult = "reduced" \/ RecordClears))
=============================================================================
