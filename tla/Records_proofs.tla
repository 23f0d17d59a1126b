---------------------------- MODULE Records_proofs ----------------------------
(***************************************************************************)
(* Theorems about what is written down once.                               *)
(*                                                                         *)
(* Journal, for every set of trades and of results, and any number of      *)
(* failing statements and restarts: the four records of a trade agree, and *)
(* no open row is forgotten without a fault.                               *)
(*                                                                         *)
(* DexPipeline, for every set of pairs and any number of positions, events *)
(* and crashes: a position is sold in full once, and a pair is bought once *)
(* in a life of the process.                                               *)
(***************************************************************************)
EXTENDS Journal, DexPipeline, Sums

\* The trade a call is about has not had its row yet, or was never sent.
Unborn(t) == t \notin sent \/ (Awaits("entry", "row") /\ call.trade = t)

\* Only sent trades are held or written about, and before its first INSERT a
\* trade has neither row nor analysis.
SentFirst ==
  /\ book \subseteq sent
  /\ call # None => call.trade \in sent
  /\ \A t \in Trades : Unborn(t) => row[t] = None /\ t \notin analyses

\* What the statements of an entry leave behind them.
EntryProgress ==
  call # None /\ call.moment = "entry" =>
    /\ call.trade \notin analyses
    /\ call.trade \in TrackA => call.trade \in book \cap linked
    /\ call.at # "row" => row[call.trade] # None
    /\ call.at = "attribute" => "entry" \in stamped[call.trade]

\* What the statements of an exit leave behind them, if the position's id is
\* the row's.
ExitProgress ==
  call # None /\ call.moment = "exit" =>
    /\ call.at # "row" /\ call.trade \in linked => row[call.trade] # Open
    /\ call.at = "attribute" /\ RowFound(call.trade) => "exit" \in stamped[call.trade]

\* An analysis is about a closed trade, and an attribution about one with a row.
LaterRecords ==
  /\ \A t \in analyses \cap linked : row[t] # Open
  /\ \A t \in Trades : attributed[t] # None => row[t] # None

\* Without a journal nothing is written and nothing on record is held; an open
\* row whose id the position does not carry comes from a failed call.
Orphans ==
  /\ ~connected => call = None /\ \A t \in book : row[t] = None
  /\ \A t \in Trades :
       row[t] = Open /\ t \notin linked =>
         t \in faulted \/ (call # None /\ call.trade = t /\ call.moment = "entry")

IInv ==
  /\ TypeOK /\ SentFirst /\ EntryProgress /\ ExitProgress /\ LaterRecords /\ Orphans
  /\ RecordsAgree /\ OpenRowsAreHeld

\* The stand-in for a result before there is one is a result.
LEMMA AnyPnlIsOne == AnyPnl \in Pnls
BY JournalTrades DEF AnyPnl

\* An AceVault trade is sent.
LEMMA AceEntersKeeps ==
  ASSUME IInv, NEW t \in Trades, AceEnters(t)
  PROVE  IInv'
<1> USE JournalTrades, AnyPnlIsOne DEF IInv, Trades, Calls, Moments, At, Results, Awaits, RowFound, Noted, AceEnters, process, records
<1>1. TypeOK'
  BY DEF TypeOK
<1>2. SentFirst'
  BY DEF SentFirst, Unborn
<1>3. EntryProgress'
  BY DEF SentFirst, EntryProgress, Unborn
<1>4. ExitProgress'
  BY DEF ExitProgress
<1>5. LaterRecords'
  BY DEF LaterRecords
<1>6. Orphans'
  BY DEF SentFirst, Orphans, Unborn
<1>7. RecordsAgree'
  BY DEF RecordsAgree
<1>8. OpenRowsAreHeld'
  BY DEF OpenRowsAreHeld
<1> QED BY <1>1, <1>2, <1>3, <1>4, <1>5, <1>6, <1>7, <1>8

\* A Track A trade is sent and registered.
LEMMA TrackAEntersKeeps ==
  ASSUME IInv, NEW t \in Trades, TrackAEnters(t)
  PROVE  IInv'
<1> USE JournalTrades, AnyPnlIsOne DEF IInv, Trades, Calls, Moments, At, Results, Awaits, RowFound, Noted, TrackAEnters, process, records
<1>1. TypeOK'
  BY DEF TypeOK
<1>2. SentFirst'
  BY DEF SentFirst, Unborn
<1>3. EntryProgress'
  BY DEF TypeOK, EntryProgress
<1>4. ExitProgress'
  BY DEF ExitProgress
<1>5. LaterRecords'
  BY DEF TypeOK, LaterRecords
<1>6. Orphans'
  BY DEF SentFirst, Orphans, Unborn
<1>7. RecordsAgree'
  BY DEF RecordsAgree
<1>8. OpenRowsAreHeld'
  BY DEF OpenRowsAreHeld
<1> QED BY <1>1, <1>2, <1>3, <1>4, <1>5, <1>6, <1>7, <1>8

\* An AceVault position is closed at the venue.
LEMMA AceExitsKeeps ==
  ASSUME IInv, NEW t \in Trades, NEW pnl \in Pnls, AceExits(t, pnl)
  PROVE  IInv'
<1> USE JournalTrades DEF IInv, Trades, Calls, Moments, At, Results, Awaits, RowFound, Noted, AceExits, process, records
<1>1. TypeOK'
  BY JournalLimits DEF TypeOK
<1>2. SentFirst'
  BY DEF SentFirst, Unborn
<1>3. EntryProgress'
  BY DEF EntryProgress
<1>4. ExitProgress'
  BY DEF ExitProgress
<1>5. LaterRecords'
  BY DEF LaterRecords
<1>6. Orphans'
  BY DEF Orphans
<1>7. RecordsAgree'
  BY DEF RecordsAgree
<1>8. OpenRowsAreHeld'
  BY DEF Orphans, OpenRowsAreHeld
<1> QED BY <1>1, <1>2, <1>3, <1>4, <1>5, <1>6, <1>7, <1>8

\* A Track A position is closed and dropped.
LEMMA TrackAExitsKeeps ==
  ASSUME IInv, NEW t \in Trades, NEW pnl \in Pnls, TrackAExits(t, pnl)
  PROVE  IInv'
<1> USE JournalTrades DEF IInv, Trades, Calls, Moments, At, Results, Awaits, RowFound, Noted, TrackAExits, process, records
<1>1. TypeOK'
  BY JournalLimits DEF TypeOK
<1>2. SentFirst'
  BY DEF SentFirst, Unborn
<1>3. EntryProgress'
  BY DEF EntryProgress
<1>4. ExitProgress'
  BY DEF ExitProgress
<1>5. LaterRecords'
  BY DEF LaterRecords
<1>6. Orphans'
  BY DEF Orphans
<1>7. RecordsAgree'
  BY DEF RecordsAgree
<1>8. OpenRowsAreHeld'
  BY DEF Orphans, OpenRowsAreHeld
<1> QED BY <1>1, <1>2, <1>3, <1>4, <1>5, <1>6, <1>7, <1>8

\* The row of an AceVault trade is inserted.
LEMMA AceEntryRowKeeps ==
  ASSUME IInv, NEW r \in Results, AceEntryRow(r)
  PROVE  IInv'
<1> USE JournalTrades DEF IInv, Trades, Calls, Moments, At, Results, Awaits, RowFound, Noted, AceEntryRow, AceRegisters, process
<1>1. TypeOK'
  <2>1. call \in Calls /\ call.trade \in Ace
    BY DEF TypeOK
  <2>2. [call EXCEPT !.at = "stamp"] \in Calls
    BY <2>1
  <2>3. call' \in Calls \cup {None} /\ book' \subseteq Trades /\ linked' \subseteq Trades
    BY <2>1, <2>2 DEF TypeOK
  <2>4. faults' \in 0 .. MaxFaults /\ faulted' \subseteq Trades
    BY <2>1, JournalLimits DEF TypeOK
  <2>5. row' \in [Trades -> {None, Open} \cup Pnls] /\ closed' \in Seq(Ace)
    BY <2>1 DEF TypeOK
  <2> QED BY <2>3, <2>4, <2>5 DEF TypeOK
<1>2. SentFirst'
  <2>1. call' = None \/ call' = [call EXCEPT !.at = "stamp"]
    OBVIOUS
  <2>2. call \in Calls
    BY DEF TypeOK
  <2>3. \A t \in Trades : Unborn(t)' => Unborn(t) /\ t # call.trade
    BY <2>1, <2>2 DEF SentFirst, Unborn
  <2>4. \A t \in Trades : Unborn(t)' => row'[t] = None /\ t \notin analyses'
    BY <2>2, <2>3 DEF SentFirst
  <2>5. book' \subseteq sent' /\ (call' # None => call'.trade \in sent')
    BY <2>1, <2>2 DEF SentFirst
  <2> QED BY <2>4, <2>5 DEF SentFirst
<1>3. EntryProgress'
  BY DEF TypeOK, EntryProgress
<1>4. ExitProgress'
  BY DEF TypeOK, ExitProgress
<1>5. LaterRecords'
  BY DEF EntryProgress, LaterRecords
<1>6. Orphans'
  BY DEF TypeOK, Orphans
<1>7. RecordsAgree'
  BY DEF SentFirst, RecordsAgree, Unborn
<1>8. OpenRowsAreHeld'
  BY DEF TypeOK, OpenRowsAreHeld
<1> QED BY <1>1, <1>2, <1>3, <1>4, <1>5, <1>6, <1>7, <1>8

\* The row of a Track A trade is inserted.
LEMMA TrackAEntryRowKeeps ==
  ASSUME IInv, NEW r \in Results, TrackAEntryRow(r)
  PROVE  IInv'
<1> USE JournalTrades DEF IInv, Trades, Calls, Moments, At, Results, Awaits, RowFound, Noted, TrackAEntryRow, process
<1>1. TypeOK'
  BY JournalLimits DEF TypeOK
<1>2. SentFirst'
  BY DEF SentFirst, Unborn
<1>3. EntryProgress'
  BY DEF TypeOK, EntryProgress
<1>4. ExitProgress'
  BY DEF ExitProgress
<1>5. LaterRecords'
  BY DEF TypeOK, LaterRecords
<1>6. Orphans'
  BY DEF TypeOK, Orphans
<1>7. RecordsAgree'
  BY DEF SentFirst, RecordsAgree, Unborn
<1>8. OpenRowsAreHeld'
  BY DEF TypeOK, OpenRowsAreHeld
<1> QED BY <1>1, <1>2, <1>3, <1>4, <1>5, <1>6, <1>7, <1>8

\* The outcome of an AceVault trade is written.
LEMMA AceExitRowKeeps ==
  ASSUME IInv, NEW r \in Results, AceExitRow(r)
  PROVE  IInv'
<1> USE JournalTrades DEF IInv, Trades, Calls, Moments, At, Results, Awaits, RowFound, Noted, AceExitRow, AceDrops, process
<1>1. TypeOK'
  <2>1. call \in Calls /\ call.trade \in Ace
    BY DEF TypeOK
  <2>2. [call EXCEPT !.at = "stamp"] \in Calls
    BY <2>1
  <2>3. call' \in Calls \cup {None} /\ book' \subseteq Trades /\ linked' \subseteq Trades
    BY <2>1, <2>2 DEF TypeOK
  <2>4. faults' \in 0 .. MaxFaults /\ faulted' \subseteq Trades
    BY <2>1, JournalLimits DEF TypeOK
  <2>5. row' \in [Trades -> {None, Open} \cup Pnls] /\ closed' \in Seq(Ace)
    BY <2>1 DEF TypeOK
  <2> QED BY <2>3, <2>4, <2>5 DEF TypeOK
<1>2. SentFirst'
  BY DEF TypeOK, SentFirst, EntryProgress, ExitProgress, Unborn
<1>3. EntryProgress'
  BY DEF TypeOK, EntryProgress
<1>4. ExitProgress'
  BY DEF TypeOK, ExitProgress
<1>5. LaterRecords'
  BY DEF TypeOK, LaterRecords
<1>6. Orphans'
  BY DEF Orphans
<1>7. RecordsAgree'
  BY DEF TypeOK, RecordsAgree
<1>8. OpenRowsAreHeld'
  BY DEF TypeOK, OpenRowsAreHeld
<1> QED BY <1>1, <1>2, <1>3, <1>4, <1>5, <1>6, <1>7, <1>8

\* The outcome of a Track A trade is written.
LEMMA TrackAExitRowKeeps ==
  ASSUME IInv, NEW r \in Results, TrackAExitRow(r)
  PROVE  IInv'
<1> USE JournalTrades DEF IInv, Trades, Calls, Moments, At, Results, Awaits, RowFound, Noted, TrackAExitRow, process
<1>1. TypeOK'
  BY JournalLimits DEF TypeOK
<1>2. SentFirst'
  BY DEF SentFirst, Unborn
<1>3. EntryProgress'
  BY DEF EntryProgress
<1>4. ExitProgress'
  BY DEF TypeOK, ExitProgress
<1>5. LaterRecords'
  BY DEF TypeOK, LaterRecords
<1>6. Orphans'
  BY DEF Orphans
<1>7. RecordsAgree'
  BY DEF TypeOK, RecordsAgree
<1>8. OpenRowsAreHeld'
  BY DEF TypeOK, OpenRowsAreHeld
<1> QED BY <1>1, <1>2, <1>3, <1>4, <1>5, <1>6, <1>7, <1>8

\* The entry stamp.
LEMMA StampEntryKeeps ==
  ASSUME IInv, NEW r \in Results, StampEntry(r)
  PROVE  IInv'
<1> USE JournalTrades DEF IInv, Trades, Calls, Moments, At, Results, Awaits, RowFound, Noted, StampEntry, EntryReturns, AceRegisters, process
<1>1. TypeOK'
  BY JournalLimits DEF TypeOK
<1>2. SentFirst'
  BY DEF TypeOK, SentFirst, Unborn
<1>3. EntryProgress'
  BY DEF TypeOK, EntryProgress
<1>4. ExitProgress'
  BY DEF TypeOK, ExitProgress
<1>5. LaterRecords'
  BY DEF EntryProgress, LaterRecords
<1>6. Orphans'
  BY DEF TypeOK, Orphans
<1>7. RecordsAgree'
  BY DEF EntryProgress, RecordsAgree
<1>8. OpenRowsAreHeld'
  BY DEF TypeOK, OpenRowsAreHeld
<1> QED BY <1>1, <1>2, <1>3, <1>4, <1>5, <1>6, <1>7, <1>8

\* The attribution of an entry.
LEMMA AttributeEntryKeeps ==
  ASSUME IInv, NEW r \in Results, AttributeEntry(r)
  PROVE  IInv'
<1> USE JournalTrades DEF IInv, Trades, Calls, Moments, At, Results, Awaits, RowFound, Noted, AttributeEntry, EntryReturns, AceRegisters, process
<1>1. TypeOK'
  BY JournalLimits DEF TypeOK
<1>2. SentFirst'
  BY DEF SentFirst, Unborn
<1>3. EntryProgress'
  BY DEF EntryProgress
<1>4. ExitProgress'
  BY DEF ExitProgress
<1>5. LaterRecords'
  BY DEF EntryProgress, LaterRecords
<1>6. Orphans'
  BY DEF EntryProgress, Orphans
<1>7. RecordsAgree'
  BY DEF EntryProgress, RecordsAgree
<1>8. OpenRowsAreHeld'
  BY DEF EntryProgress, OpenRowsAreHeld
<1> QED BY <1>1, <1>2, <1>3, <1>4, <1>5, <1>6, <1>7, <1>8

\* The exit stamp.
LEMMA StampExitKeeps ==
  ASSUME IInv, NEW r \in Results, StampExit(r)
  PROVE  IInv'
<1> USE JournalTrades DEF IInv, Trades, Calls, Moments, At, Results, Awaits, RowFound, Noted, StampExit, ExitReturns, AceDrops, process
<1>1. TypeOK'
  BY JournalLimits DEF TypeOK
<1>2. SentFirst'
  BY DEF TypeOK, SentFirst, Unborn
<1>3. EntryProgress'
  BY DEF TypeOK, EntryProgress
<1>4. ExitProgress'
  BY DEF TypeOK, ExitProgress
<1>5. LaterRecords'
  BY DEF ExitProgress, LaterRecords
<1>6. Orphans'
  BY DEF Orphans
<1>7. RecordsAgree'
  BY DEF ExitProgress, RecordsAgree
<1>8. OpenRowsAreHeld'
  BY DEF TypeOK, OpenRowsAreHeld
<1> QED BY <1>1, <1>2, <1>3, <1>4, <1>5, <1>6, <1>7, <1>8

\* The attribution of an exit.
LEMMA AttributeExitKeeps ==
  ASSUME IInv, NEW r \in Results, AttributeExit(r)
  PROVE  IInv'
<1> USE JournalTrades DEF IInv, Trades, Calls, Moments, At, Results, Awaits, RowFound, Noted, AttributeExit, ExitReturns, AceDrops, process
<1>1. TypeOK'
  BY JournalLimits DEF TypeOK
<1>2. SentFirst'
  BY DEF SentFirst, Unborn
<1>3. EntryProgress'
  BY DEF EntryProgress
<1>4. ExitProgress'
  BY DEF ExitProgress
<1>5. LaterRecords'
  BY DEF ExitProgress, LaterRecords
<1>6. Orphans'
  BY DEF Orphans
<1>7. RecordsAgree'
  BY DEF ExitProgress, LaterRecords, RecordsAgree
<1>8. OpenRowsAreHeld'
  BY DEF ExitProgress, Orphans, OpenRowsAreHeld
<1> QED BY <1>1, <1>2, <1>3, <1>4, <1>5, <1>6, <1>7, <1>8

\* A post-trade analysis ends.
LEMMA AnalyseKeeps ==
  ASSUME IInv, NEW t \in Ace, NEW ok \in BOOLEAN, Analyse(t, ok)
  PROVE  IInv'
<1> USE JournalTrades DEF IInv, Trades, Calls, Moments, At, Results, Awaits, RowFound, Noted, Analyse, process
<1>1. TypeOK'
  BY JournalLimits DEF TypeOK
<1>2. SentFirst'
  BY DEF SentFirst, Unborn
<1>3. EntryProgress'
  BY DEF EntryProgress
<1>4. ExitProgress'
  BY DEF ExitProgress
<1>5. LaterRecords'
  BY DEF LaterRecords
<1>6. Orphans'
  BY DEF Orphans
<1>7. RecordsAgree'
  BY DEF LaterRecords, RecordsAgree
<1>8. OpenRowsAreHeld'
  BY DEF OpenRowsAreHeld
<1> QED BY <1>1, <1>2, <1>3, <1>4, <1>5, <1>6, <1>7, <1>8

\* The process stops and starts again.
LEMMA RestartKeeps ==
  ASSUME IInv, Restart
  PROVE  IInv'
<1> USE JournalTrades DEF IInv, Trades, Calls, Moments, At, Results, Awaits, RowFound, Noted, Restart, records
<1>1. TypeOK'
  BY JournalLimits DEF TypeOK
<1>2. SentFirst'
  BY DEF SentFirst, Unborn
<1>3. EntryProgress'
  BY DEF EntryProgress
<1>4. ExitProgress'
  BY DEF ExitProgress
<1>5. LaterRecords'
  BY DEF LaterRecords
<1>6. Orphans'
  BY DEF Orphans
<1>7. RecordsAgree'
  BY DEF RecordsAgree
<1>8. OpenRowsAreHeld'
  BY DEF OpenRowsAreHeld
<1> QED BY <1>1, <1>2, <1>3, <1>4, <1>5, <1>6, <1>7, <1>8

\* The loop and the refresh of the safety mode touch no record.
LEMMA IdleKeeps ==
  ASSUME IInv, RefreshSafetyMode \/ RefreshFails \/ TickEnds \/ UNCHANGED vars
  PROVE  IInv'
<1> USE JournalTrades DEF IInv, Trades, Calls, Moments, At, Results, Awaits, RowFound, Noted, RefreshSafetyMode, RefreshFails, TickEnds, vars, records, Multiplier
<1>1. TypeOK'
  BY JournalLimits DEF TypeOK
<1>2. SentFirst'
  BY DEF SentFirst, Unborn
<1>3. EntryProgress'
  BY DEF EntryProgress
<1>4. ExitProgress'
  BY DEF ExitProgress
<1>5. LaterRecords'
  BY DEF LaterRecords
<1>6. Orphans'
  BY DEF Orphans
<1>7. RecordsAgree'
  BY DEF RecordsAgree
<1>8. OpenRowsAreHeld'
  BY DEF OpenRowsAreHeld
<1> QED BY <1>1, <1>2, <1>3, <1>4, <1>5, <1>6, <1>7, <1>8

-----------------------------------------------------------------------------
(* The theorems *)

\* Nothing is on record at the start.
LEMMA InitIInv == Init => IInv
<1> SUFFICES ASSUME Init PROVE IInv
  OBVIOUS
<1> USE JournalTrades, JournalLimits DEF Init, IInv
<1>1. TypeOK
  BY DEF TypeOK, Moments
<1>2. SentFirst /\ EntryProgress /\ ExitProgress
  BY DEF SentFirst, EntryProgress, ExitProgress, Unborn, Trades
<1>3. LaterRecords /\ Orphans
  BY DEF LaterRecords, Orphans
<1>4. RecordsAgree /\ OpenRowsAreHeld
  BY DEF RecordsAgree, OpenRowsAreHeld
<1> QED BY <1>1, <1>2, <1>3, <1>4

\* Every step keeps the invariant.
LEMMA NextIInv ==
  ASSUME IInv, [Next]_vars
  PROVE  IInv'
<1>1. CASE Enters
  BY <1>1, AceEntersKeeps, TrackAEntersKeeps DEF Enters
<1>2. CASE Exits
  BY <1>2, AceExitsKeeps, TrackAExitsKeeps DEF Exits
<1>3. CASE Sends
  BY <1>3, AceEntryRowKeeps, TrackAEntryRowKeeps, AceExitRowKeeps, TrackAExitRowKeeps,
     StampEntryKeeps, AttributeEntryKeeps, StampExitKeeps, AttributeExitKeeps DEF Sends
<1>4. CASE Analyses
  BY <1>4, AnalyseKeeps DEF Analyses
<1>5. CASE Restart
  BY <1>5, RestartKeeps
<1>6. CASE RefreshSafetyMode \/ RefreshFails \/ TickEnds \/ UNCHANGED vars
  BY <1>6, IdleKeeps
<1> QED BY <1>1, <1>2, <1>3, <1>4, <1>5, <1>6 DEF Next

\* The invariant, in every state that can be reached.
LEMMA Invariant == Spec => []IInv
BY InitIInv, NextIInv, PTL DEF Spec

\* The values of the variables: the book, the rows and what hangs on them, and
\* the journal call under way.
THEOREM TypeCorrect == Spec => []TypeOK
<1>1. IInv => TypeOK
  BY DEF IInv
<1> QED BY <1>1, Invariant, PTL

\* The four records of a trade agree, whichever of the statements that write
\* them, each in a transaction of its own, raises or is cut off by a restart
\* (decision_journal.py: log_entry, log_exit, the stamps and attributions).
THEOREM RecordsStayTogether == Spec => []RecordsAgree
<1>1. IInv => RecordsAgree
  BY DEF IInv
<1> QED BY <1>1, Invariant, PTL

\* A row stays open only while its position is held or its call is under way,
\* unless a statement of the trade's own failed or the process stopped: the
\* engines' drop and the journal's update cannot part otherwise.
THEOREM OpenRowsStayHeld == Spec => []OpenRowsAreHeld
<1>1. IInv => OpenRowsAreHeld
  BY DEF IInv
<1> QED BY <1>1, Invariant, PTL

-----------------------------------------------------------------------------
(* The DEX pair pipeline.                                                  *)

\* The bus suspends the handlers of one event at a time; a sale that is under
\* way is of a row still open; and a row that was never closed has not been
\* sold in full, or the answer to that sale was lost.
SaleInv ==
  /\ \A g, h \in busy : g = h
  /\ \A h \in Suspended("sell") : h.of \in OpenRows
  /\ full \in [Positions -> Nat]
  /\ \A i \in Positions : rows[i].status # "closed" => full[i] = 0 \/ i \in cut
  /\ \A i \in Positions : full[i] <= 1 \/ i \in cut
  /\ DOMAIN rows = Positions

\* Nothing is queued, held or sold yet.
LEMMA InitSaleInv == DexInit => SaleInv
BY DEF DexInit, SaleInv, Suspended, OpenRows, NoRow

\* Counting to two.
LEMMA CountedOnce == \A n \in Nat : Counted(n) \in Nat /\ (n = 0 => Counted(n) = 1)
<1>1. ASSUME NEW n \in Nat PROVE Counted(n) = IF n + 1 <= 2 THEN n + 1 ELSE 2
  <2> DEFINE m == IF n + 1 <= 2 THEN n + 1 ELSE 2
  <2>1. m \in {n + 1, 2} /\ \A y \in {n + 1, 2} : m <= y
    OBVIOUS
  <2>2. \A x \in {n + 1, 2} : (\A y \in {n + 1, 2} : x <= y) => x = m
    OBVIOUS
  <2> QED BY <2>1, <2>2 DEF Counted, Min
<1> QED BY <1>1

\* What the bus does while it hands an event on: at most one handler of it
\* suspends, and a sale only for an open row.
LEMMA DispatchKeepsSaleInv ==
  ASSUME SaleInv, Dispatch
  PROVE  SaleInv'
<1> USE DEF risk, sentinel, history
<1>1. UNCHANGED <<rows, full, cut>>
  BY DEF Dispatch, TakeNewPair, TakeEnriched, TakeScored, TakeRequested, TakeBuyApproved,
         TakeSellApproved, TakeOpened, TakeSold, TakeThesis, TakeWarning, TakeCandidate
<1>2. /\ busy = {}
      /\ \/ busy' = {}
         \/ \E h : busy' = {h} /\ (h.doing = "sell" => h.of \in OpenRows)
  <2>1. CASE TakeNewPair
    BY <2>1 DEF TakeNewPair, Takes, Handled, Suspends
  <2>2. CASE \E rug, atHand \in BOOLEAN : TakeEnriched(rug, atHand)
    <3>1. busy = {} /\ (busy' = busy \/ \E e, rug : busy' = busy \cup {[doing |-> "label", event |-> e, rug |-> rug]})
      BY <2>2 DEF TakeEnriched, Takes, Handled, Suspends
    <3> QED BY <3>1
  <2>3. CASE TakeBuyApproved
    BY <2>3 DEF TakeBuyApproved, Takes, Handled, Suspends
  <2>4. CASE TakeSellApproved
    BY <2>4 DEF TakeSellApproved, Takes, Handled, Suspends
  <2>5. CASE \/ TakeScored \/ (\E deep \in BOOLEAN : TakeRequested(deep))
             \/ TakeOpened \/ TakeSold \/ TakeThesis \/ TakeWarning \/ TakeCandidate
    BY <2>5 DEF TakeScored, TakeRequested, TakeOpened, TakeSold, TakeThesis, TakeWarning,
                TakeCandidate, Takes, Handled
  <2> QED BY <2>1, <2>2, <2>3, <2>4, <2>5 DEF Dispatch
<1> QED BY <1>1, <1>2 DEF SaleInv, Suspended, OpenRows

\* A sale that returns closes its row in the step that counts it; one whose
\* answer is lost is on record as cut.
LEMMA AnswerKeepsSaleInv ==
  ASSUME SaleInv, Answer
  PROVE  SaleInv'
<1> USE DEF risk, sentinel, history
<1>1. CASE \/ \E o \in Onchain : EnrichDone(o)
           \/ LabelDone
           \/ \E executed \in BOOLEAN : BuyFails(executed)
  <2>1. busy' \subseteq busy /\ UNCHANGED <<rows, full, cut>>
    BY <1>1 DEF EnrichDone, LabelDone, BuyFails, Returns
  <2> QED BY <2>1 DEF SaleInv, Suspended, OpenRows
<1>2. CASE BuyDone
  <2> PICK h \in Suspended("buy") :
        /\ Returns(h)
        /\ rows' = [rows EXCEPT ![Min(FreeRows)] = [status |-> "open", pair |-> h.pair]]
    BY <1>2 DEF BuyDone
  <2>1. full' = full /\ cut' = cut /\ FreeRows # {}
    BY <1>2 DEF BuyDone
  <2>2. busy' = {}
    BY DEF SaleInv, Suspended, Returns
  <2>3. Min(FreeRows) \in FreeRows
    <3>1. FreeRows \subseteq Nat
      BY DEF FreeRows, Positions
    <3>2. PICK i \in FreeRows : \A j \in FreeRows : i <= j
      BY <2>1, <3>1, LeastNat
    <3> QED BY <3>2 DEF Min
  <2>4. rows[Min(FreeRows)].status # "closed"
    BY <2>3 DEF FreeRows
  <2> DEFINE new == Min(FreeRows)
  <2> HIDE DEF new
  <2>5. \A i \in Positions : rows'[i].status # "closed" => rows[i].status # "closed"
    BY <2>3, <2>4 DEF SaleInv, new
  <2>6. DOMAIN rows' = Positions
    BY DEF SaleInv
  <2> QED BY <2>1, <2>2, <2>5, <2>6 DEF SaleInv, Suspended
<1>3. CASE \E executed \in BOOLEAN : SellFails(executed)
  <2> PICK executed \in BOOLEAN : SellFails(executed) BY <1>3
  <2> PICK h \in Suspended("sell") :
        /\ Returns(h)
        /\ \/ full' = [full EXCEPT ![h.of] = Counted(@)] /\ cut' = cut \cup {h.of}
           \/ UNCHANGED <<full, cut>>
    BY DEF SellFails
  <2>1. h.of \in Positions /\ rows' = rows /\ busy' \subseteq busy
    BY DEF SellFails, SaleInv, OpenRows, Returns
  <2>2. full' \in [Positions -> Nat]
    BY <2>1, CountedOnce DEF SaleInv
  <2>3. \A i \in Positions : i \in cut' \/ (full'[i] = full[i] /\ i \notin cut)
    BY <2>1 DEF SaleInv
  <2> QED BY <2>1, <2>2, <2>3 DEF SaleInv, Suspended, OpenRows
<1>4. CASE \E i \in Positions : SellDone(i)
  <2> PICK i \in Positions : SellDone(i) BY <1>4
  <2> PICK h \in Suspended("sell") :
        /\ h.of = i /\ Returns(h)
        /\ \/ /\ rows' = [rows EXCEPT ![i].status = "closed"]
              /\ full' = [full EXCEPT ![i] = Counted(@)]
           \/ UNCHANGED <<rows, full>>
    BY DEF SellDone
  <2>1. busy' = {} /\ cut' = cut
    BY DEF SaleInv, Suspended, Returns, SellDone
  <2>2. i \in cut \/ full[i] = 0
    BY DEF SaleInv, OpenRows
  <2>3. CASE UNCHANGED <<rows, full>>
    BY <2>1, <2>3 DEF SaleInv, Suspended
  <2>4. CASE /\ rows' = [rows EXCEPT ![i].status = "closed"]
             /\ full' = [full EXCEPT ![i] = Counted(@)]
    <3>1. full' \in [Positions -> Nat] /\ DOMAIN rows' = Positions
      BY <2>4, CountedOnce DEF SaleInv
    <3>2. \A j \in Positions \ {i} : rows'[j] = rows[j] /\ full'[j] = full[j]
      BY <2>4 DEF SaleInv
    <3>3. rows'[i].status = "closed"
      BY <2>4 DEF SaleInv
    <3>4. full'[i] <= 1 \/ i \in cut
      BY <2>2, <2>4, CountedOnce DEF SaleInv
    <3> QED BY <2>1, <3>1, <3>2, <3>3, <3>4 DEF SaleInv, Suspended
  <2> QED BY <2>3, <2>4
<1> QED BY <1>1, <1>2, <1>3, <1>4 DEF Answer

\* A crash: a sale under way counts as executed or does not, and is cut.
LEMMA CrashKeepsSaleInv ==
  ASSUME SaleInv, NEW executed \in BOOLEAN, Crash(executed)
  PROVE  SaleInv'
<1> PICK sold : /\ full' = [i \in Positions |-> IF i \in sold THEN Counted(full[i]) ELSE full[i]]
                /\ cut' = cut \cup sold
  BY DEF Crash
<1>1. busy' = {} /\ rows' = rows
  BY DEF Crash
<1>2. full' \in [Positions -> Nat]
  BY CountedOnce DEF SaleInv
<1>3. \A i \in Positions : i \in cut' \/ (full'[i] = full[i] /\ i \notin cut)
  BY DEF SaleInv
<1> QED BY <1>1, <1>2, <1>3 DEF SaleInv, Suspended

\* Every step of the pipeline keeps what is known of its sales.
LEMMA NextSaleInv ==
  ASSUME SaleInv, [DexNext]_dexVars
  PROVE  SaleInv'
<1> USE DEF risk, sentinel, history
<1>1. CASE \/ \E p \in Pairs : StreamPair(p) \/ PollPair(p) \/ LockExpires(p)
           \/ \E ok \in BOOLEAN : Refresh(ok)
           \/ Monitor
           \/ \E i \in Positions, g \in Gains : Market(i, g)
           \/ UNCHANGED dexVars
  <2>1. UNCHANGED <<busy, rows, full, cut>>
    BY <1>1 DEF StreamPair, PollPair, LockExpires, Refresh, Monitor, SweepStart, EvalEnd,
                EvalAborts, Market, dexVars
  <2> QED BY <2>1 DEF SaleInv, Suspended, OpenRows
<1> QED
  BY <1>1, DispatchKeepsSaleInv, AnswerKeepsSaleInv, CrashKeepsSaleInv DEF DexNext

\* For every number of positions, whatever the sentinel repeats and however the
\* handlers, the sweeps and the crashes fall: no position is sold in full twice
\* unless the answer to its sale was lost.
THEOREM SoldOnce == DexSpec => []SoldInFullOnce
<1>1. SaleInv /\ [DexNext]_dexVars => SaleInv'
  BY NextSaleInv
<1>2. SaleInv => SoldInFullOnce
  BY DEF SaleInv, SoldInFullOnce
<1> QED BY <1>1, <1>2, InitSaleInv, PTL DEF DexSpec

-----------------------------------------------------------------------------
\* What the bus carries.  Only a rug deployer's pair is published again, complete.
EnrichedEvents ==
  [type : {"pair_enriched"}, pair : Pairs, onchain : Onchain, stage : {"onchain"}, rug : {FALSE}]
    \cup [type : {"pair_enriched"}, pair : Pairs, onchain : Onchain, stage : {"complete"},
          rug : {TRUE}]
Events ==
  [type : {"new_pair_detected"}, pair : Pairs, token : BOOLEAN]
    \cup EnrichedEvents
    \cup [type : {"pair_scored", "buy_requested"}, pair : Pairs, score : Int]
    \cup [type : {"buy_approved"}, pair : Pairs]
    \cup [type : {"position_opened", "thesis_intact"}, of : Positions]
    \cup [type : {"sell_candidate", "sell_approved", "sell_executed"}, of : Positions,
          pct : {50, 100}]
    \cup [type : {"exit_warning"}, of : Positions, severity : {"critical", "urgent", "advisory"}]

\* The handlers it may have suspended.
Handlers ==
  [doing : {"enrich", "buy"}, pair : Pairs]
    \cup [doing : {"label"}, event : EnrichedEvents, rug : BOOLEAN]
    \cup [doing : {"sell"}, of : Positions, pct : {50, 100}]

BusTypes ==
  /\ queue \in Seq(Events) /\ busy \subseteq Handlers
  /\ DOMAIN tracked = Positions /\ todo \subseteq Positions
  /\ eval.of \in Positions \cup {0} /\ DOMAIN eval = {"of", "own", "state"}

\* The scorer's weighted sum of what enrichment fills and what it never does.
Weighted(deployer, holder, flow) ==
  200 * 300 + 150 * deployer + 150 * holder + 150 * flow + 150 * 300 + 100 * 700 + 100 * 300

\* The score is an integer.
LEMMA WeightedType ==
  ASSUME NEW d \in Int, NEW h \in Int, NEW f \in Int
  PROVE  Weighted(d, h, f) \div 1000 \in Int
<1>1. Weighted(d, h, f) \in Int
  BY DEF Weighted
<1> QED BY <1>1, QuotientType

\* With a deployer score of zero, a rug deployer's, the score has a ceiling.
LEMMA WeightedAtMost ==
  ASSUME NEW h \in Int, h <= 1000, NEW f \in Int, f <= 1000
  PROVE  Weighted(0, h, f) \div 1000 \in Int /\ Weighted(0, h, f) \div 1000 <= 505
<1> DEFINE sum == Weighted(0, h, f)
           most == 505
<1>1. sum \in Int /\ sum <= most * 1000
  BY SMT DEF Weighted
<1>2. most \in Int
  OBVIOUS
<1> HIDE DEF sum, most
<1>3. sum \div 1000 \in Int /\ sum \div 1000 <= most
  BY <1>1, <1>2, QuotientAtMost
<1> QED BY <1>3 DEF sum, most

\* The scorer's sum for a rug deployer's pair, whatever the other dimensions
\* say, is at most 505 thousandths.
LEMMA RugScore ==
  ASSUME NEW o \in Onchain
  PROVE  Score(o, TRUE) \in Int /\ Score(o, TRUE) <= 505
<1>1. o \in [approvals : BOOLEAN, removal : BOOLEAN, top10 : 0..100,
              single : 0..100, age : Nat, buyers : Nat]
  BY DexConstants
<1>2. DeployerScore(o, TRUE) = 0
  BY DEF DeployerScore
<1>3. FlowScore(o) \in Int /\ FlowScore(o) <= 1000
  BY <1>1 DEF FlowScore, Clamped
<1>4. HolderScore(o) \in Int /\ HolderScore(o) <= 1000
  <2>1. CASE o.top10 = 0 \/ o.top10 <= 60 \/ o.top10 >= 90
    BY <1>1, <2>1 DEF HolderScore
  <2>2. CASE o.top10 # 0 /\ o.top10 > 60 /\ o.top10 < 90
    <3> DEFINE excess == Max({0, o.single - 30})
               spread == ((90 - o.top10) * 1000) \div 30
               fine == (excess * 300) \div 70
    <3>1. excess \in Nat
      BY <1>1, MaxOfTwo
    <3>2. spread \in Int /\ spread <= 1000
      <4>1. (90 - o.top10) * 1000 \in Int /\ (90 - o.top10) * 1000 <= 1000 * 30
        BY <1>1, <2>2
      <4> QED BY <4>1, QuotientAtMost
    <3>3. fine \in Nat
      <4> HIDE DEF excess
      <4>1. excess * 300 \in Nat
        BY <3>1
      <4>2. \A n \in Nat : n \div 70 \in Nat
        BY SMT
      <4> QED BY <4>1, <4>2
    <3>4. HolderScore(o) = Max({100, spread - fine})
      BY <2>2, <1>1 DEF HolderScore
    <3> HIDE DEF spread, fine
    <3> QED BY <3>2, <3>3, <3>4, MaxOfTwo
  <2> QED BY <1>1, <2>1, <2>2
<1>5. Score(o, TRUE) = Weighted(0, HolderScore(o), FlowScore(o)) \div 1000
  <2>1. Score(o, TRUE) = Weighted(DeployerScore(o, TRUE), HolderScore(o), FlowScore(o)) \div 1000
    BY DEF Score, Weighted
  <2> QED BY <1>2, <2>1, Zenon
<1>6. /\ Weighted(0, HolderScore(o), FlowScore(o)) \div 1000 \in Int
      /\ Weighted(0, HolderScore(o), FlowScore(o)) \div 1000 <= 505
  BY <1>3, <1>4, WeightedAtMost
<1> QED BY <1>5, <1>6, Zenon

\* Every score is a number.
LEMMA ScoreType ==
  ASSUME NEW o \in Onchain, NEW rug \in BOOLEAN
  PROVE  Score(o, rug) \in Int
<1>1. o \in [approvals : BOOLEAN, removal : BOOLEAN, top10 : 0..100,
              single : 0..100, age : Nat, buyers : Nat]
  BY DexConstants
<1>2. DeployerScore(o, rug) \in Int
  <2>1. (o.age * 1000) \div 90 \in Int
    BY <1>1, QuotientType
  <2> QED BY <2>1 DEF DeployerScore, Clamped
<1>3. FlowScore(o) \in Int
  BY <1>1 DEF FlowScore, Clamped
<1>4. HolderScore(o) \in Int
  <2>1. ((90 - o.top10) * 1000) \div 30 \in Int /\ Max({0, o.single - 30}) \in Int
    <3>1. (90 - o.top10) * 1000 \in Int
      BY <1>1
    <3>2. \A n \in Int : n \div 30 \in Int
      BY SMT
    <3>3. o.single - 30 \in Int
      BY <1>1
    <3>4. Max({0, o.single - 30}) \in Int
      BY <3>3, MaxOfTwo
    <3> QED BY <3>1, <3>2, <3>4
  <2>2. (Max({0, o.single - 30}) * 300) \div 70 \in Int
    BY <2>1, QuotientType
  <2> DEFINE x == ((90 - o.top10) * 1000) \div 30 - (Max({0, o.single - 30}) * 300) \div 70
  <2>3. x \in Int
    BY <2>1, <2>2
  <2>4. HolderScore(o) \in {300, 1000, 100, Max({100, x})}
    BY DEF HolderScore
  <2> HIDE DEF x
  <2> QED BY <2>3, <2>4, MaxOfTwo
<1>5. Score(o, rug) = Weighted(DeployerScore(o, rug), HolderScore(o), FlowScore(o)) \div 1000
  BY DEF Score, Weighted
<1> QED BY <1>2, <1>3, <1>4, <1>5, WeightedType

\* What an event's type says of its fields.
LEMMA EventFields ==
  ASSUME NEW e \in Events
  PROVE  /\ e.type \in {"new_pair_detected", "buy_approved"} => e.pair \in Pairs
         /\ e.type = "pair_enriched" => e \in EnrichedEvents
         /\ e.type \in {"pair_scored", "buy_requested"} => e.pair \in Pairs /\ e.score \in Int
         /\ e.type \in {"position_opened", "thesis_intact", "exit_warning"} => e.of \in Positions
         /\ e.type \in {"sell_candidate", "sell_approved", "sell_executed"} =>
              e.of \in Positions /\ e.pct \in {50, 100}
BY DEF Events, EnrichedEvents

\* What an enriched event carries.
LEMMA EnrichedFields ==
  ASSUME NEW e \in EnrichedEvents
  PROVE  /\ e.type = "pair_enriched" /\ e.pair \in Pairs /\ e.onchain \in Onchain
         /\ e.rug \in BOOLEAN /\ (e.stage = "complete" => e.rug)
         /\ e \in Events
BY DEF Events, EnrichedEvents

\* What may be published.
LEMMA Publishable ==
  /\ \A p \in Pairs, token \in BOOLEAN :
       [type |-> "new_pair_detected", pair |-> p, token |-> token] \in Events
  /\ \A p \in Pairs, o \in Onchain :
       /\ Enriched(p, o, "onchain", FALSE) \in EnrichedEvents
       /\ Enriched(p, o, "complete", TRUE) \in EnrichedEvents
  /\ \A p \in Pairs, n \in Int, type \in {"pair_scored", "buy_requested"} :
       Scored(type, p, n) \in Events
  /\ \A p \in Pairs : PairEvent("buy_approved", p) \in Events
  /\ \A i \in Positions, type \in {"position_opened", "thesis_intact"} :
       PosEvent(type, i) \in Events
  /\ \A i \in Positions, n \in {50, 100},
        type \in {"sell_candidate", "sell_approved", "sell_executed"} : Sell(type, i, n) \in Events
  /\ \A i \in Positions, severity \in {"critical", "urgent", "advisory"} :
       Warning(i, severity) \in Events
BY DEF Events, EnrichedEvents, Enriched, Scored, PairEvent, PosEvent, Sell, Warning

\* The bus keeps its type when an event leaves it and when events join it.
LEMMA BusSteps ==
  ASSUME queue \in Seq(Events)
  PROVE  /\ \A r \in Seq(Events) : queue \o r \in Seq(Events)
         /\ queue # <<>> => /\ Head(queue) \in Events /\ Tail(queue) \in Seq(Events)
                            /\ \A r \in Seq(Events) : Tail(queue) \o r \in Seq(Events)
         /\ <<>> \in Seq(Events) /\ \A e \in Events : <<e>> \in Seq(Events)
         /\ \A r, t \in Seq(Events) : r \o t \in Seq(Events)
OBVIOUS

\* The loop goes on to a position of its snapshot.
LEMMA GoesOn ==
  ASSUME NEW left \in SUBSET Positions, NEW known, DOMAIN known = Positions, GoOn(left, known)
  PROVE  /\ DOMAIN tracked' = Positions /\ todo' \subseteq Positions
         /\ eval'.of \in Positions \cup {0} /\ DOMAIN eval' = {"of", "own", "state"}
<1>1. CASE left = {}
  BY <1>1 DEF GoOn, NoEval
<1>2. CASE left # {}
  <2>1. Min(left) \in left
    <3>1. left \subseteq Nat
      BY DEF Positions
    <3>2. PICK i \in left : \A j \in left : i <= j
      BY <1>2, <3>1, LeastNat
    <3> QED BY <3>2 DEF Min
  <2> DEFINE i == Min(left)
  <2> HIDE DEF i
  <2>2. \E s : /\ eval' = [of |-> i, own |-> TRUE, state |-> s]
               /\ todo' = left \ {i} /\ tracked' = [known EXCEPT ![i] = s]
    BY <1>2 DEF GoOn, i
  <2> QED BY <2>1, <2>2 DEF i
<1> QED BY <1>1, <1>2

\* The bus and its tables start empty.
LEMMA InitBusTypes == DexInit => BusTypes
BY DEF DexInit, BusTypes, NoEval

\* Every handler publishes and suspends what the bus may carry.
LEMMA DispatchKeepsBusTypes ==
  ASSUME BusTypes, Dispatch
  PROVE  BusTypes'
<1> USE DEF risk, sentinel, history
<1> DEFINE e == Head(queue)
<1>0. /\ busy = {} /\ queue # <<>> /\ e \in Events
      /\ queue \in Seq(Events)
  <2>1. busy = {} /\ queue # <<>>
    BY DEF Dispatch, Takes, TakeNewPair, TakeEnriched, TakeScored, TakeRequested,
           TakeBuyApproved, TakeSellApproved, TakeOpened, TakeSold, TakeThesis, TakeWarning,
           TakeCandidate
  <2> QED BY <2>1, BusSteps DEF BusTypes
<1> HIDE DEF e
<1>h. ASSUME NEW r \in Seq(Events), Handled(r), UNCHANGED <<tracked, todo, eval>>
      PROVE  BusTypes'
  BY <1>h, <1>0, BusSteps DEF Handled, BusTypes
<1>s. ASSUME NEW h \in Handlers, Suspends(h), UNCHANGED <<tracked, todo, eval>>
      PROVE  BusTypes'
  BY <1>s, <1>0, BusSteps DEF Suspends, BusTypes
<1>n. <<>> \in Seq(Events)
  OBVIOUS
<1>1. CASE TakeNewPair
  <2>1. e.pair \in Pairs
    BY <1>0, <1>1, EventFields DEF TakeNewPair, Takes, e
  <2>2. [doing |-> "enrich", pair |-> e.pair] \in Handlers
    BY <2>1 DEF Handlers
  <2>3. Handled(<<>>) \/ Suspends([doing |-> "enrich", pair |-> e.pair])
    BY <1>1 DEF TakeNewPair, e
  <2>4. UNCHANGED <<tracked, todo, eval>>
    BY <1>1 DEF TakeNewPair
  <2> QED BY <1>h, <1>s, <1>n, <2>2, <2>3, <2>4
<1>2. CASE \E rug, atHand \in BOOLEAN : TakeEnriched(rug, atHand)
  <2> PICK rug \in BOOLEAN, atHand \in BOOLEAN : TakeEnriched(rug, atHand) BY <1>2
  <2>1. e \in EnrichedEvents
    BY <1>0, EventFields DEF TakeEnriched, Takes, e
  <2>2. e.pair \in Pairs /\ e.onchain \in Onchain /\ (e.rug \/ rug) \in BOOLEAN
    BY <2>1, EnrichedFields
  <2> DEFINE scored == Scored("pair_scored", e.pair, Score(e.onchain, e.rug \/ rug))
             again == Enriched(e.pair, e.onchain, "complete", TRUE)
             label == [doing |-> "label", event |-> e, rug |-> rug]
  <2>3. scored \in Events
    BY <2>2, ScoreType, Publishable
  <2>4. again \in Events
    BY <2>2, EnrichedFields, Publishable
  <2>5. label \in Handlers
    BY <2>1 DEF Handlers
  <2>6. \/ Handled(<<scored>>) \/ Handled(<<again>> \o <<scored>>) \/ Handled(<<>> \o <<scored>>)
        \/ Suspends(label)
    BY DEF TakeEnriched, e
  <2>7. UNCHANGED <<tracked, todo, eval>>
    BY DEF TakeEnriched
  <2> HIDE DEF scored, again, label
  <2>8. <<scored>> \in Seq(Events) /\ <<again>> \o <<scored>> \in Seq(Events)
        /\ <<>> \o <<scored>> \in Seq(Events)
    BY <2>3, <2>4
  <2> QED BY <1>h, <1>s, <2>5, <2>6, <2>7, <2>8
<1>3. CASE TakeScored
  <2>1. e.pair \in Pairs /\ e.score \in Int
    BY <1>0, <1>3, EventFields DEF TakeScored, Takes, e
  <2>2. Scored("buy_requested", e.pair, e.score) \in Events
    BY <2>1, Publishable
  <2>3. Handled(<<>>) \/ Handled(<<Scored("buy_requested", e.pair, e.score)>>)
    BY <1>3 DEF TakeScored, e
  <2>4. UNCHANGED <<tracked, todo, eval>>
    BY <1>3 DEF TakeScored
  <2>5. <<Scored("buy_requested", e.pair, e.score)>> \in Seq(Events)
    BY <2>2, BusSteps DEF BusTypes
  <2> QED BY <1>h, <1>n, <2>3, <2>4, <2>5
<1>4. CASE \E deep \in BOOLEAN : TakeRequested(deep)
  <2>1. e.pair \in Pairs
    BY <1>0, <1>4, EventFields DEF TakeRequested, Takes, e
  <2>2. <<PairEvent("buy_approved", e.pair)>> \in Seq(Events)
    BY <2>1, Publishable, BusSteps DEF BusTypes
  <2>3. Handled(<<>>) \/ Handled(<<PairEvent("buy_approved", e.pair)>>)
    BY <1>4 DEF TakeRequested, e
  <2>4. UNCHANGED <<tracked, todo, eval>>
    BY <1>4 DEF TakeRequested
  <2> QED BY <1>h, <1>n, <2>2, <2>3, <2>4
<1>5. CASE TakeBuyApproved
  <2>1. e.pair \in Pairs
    BY <1>0, <1>5, EventFields DEF TakeBuyApproved, Takes, e
  <2>2. [doing |-> "buy", pair |-> e.pair] \in Handlers
    BY <2>1 DEF Handlers
  <2> QED BY <1>5, <1>s, <2>2 DEF TakeBuyApproved, e
<1>6. CASE TakeSellApproved
  <2>1. e.of \in Positions /\ e.pct \in {50, 100}
    BY <1>0, <1>6, EventFields DEF TakeSellApproved, Takes, e
  <2>2. [doing |-> "sell", of |-> e.of, pct |-> e.pct] \in Handlers
    BY <2>1 DEF Handlers
  <2>3. Handled(<<>>) \/ Suspends([doing |-> "sell", of |-> e.of, pct |-> e.pct])
    BY <1>6 DEF TakeSellApproved, e
  <2>4. UNCHANGED <<tracked, todo, eval>>
    BY <1>6 DEF TakeSellApproved
  <2> QED BY <1>h, <1>s, <1>n, <2>2, <2>3, <2>4
<1>7. CASE TakeOpened \/ TakeSold
  <2>1. Handled(<<>>) /\ todo' = todo /\ DOMAIN tracked' = DOMAIN tracked
    BY <1>7 DEF TakeOpened, TakeSold
  <2>2. eval'.of = eval.of /\ DOMAIN eval' = DOMAIN eval
    <3>1. \/ eval' = eval \/ eval' = [eval EXCEPT !.own = FALSE]
      BY <1>7 DEF TakeOpened, TakeSold, Detach
    <3> QED BY <3>1 DEF BusTypes
  <2>3. queue' \in Seq(Events) /\ busy' = busy
    BY <1>0, <1>n, <2>1, BusSteps DEF Handled
  <2> QED BY <2>1, <2>2, <2>3 DEF BusTypes
<1>8. CASE TakeThesis
  BY <1>8, <1>h, <1>n DEF TakeThesis
<1>9. CASE TakeWarning
  <2>1. e.of \in Positions
    BY <1>0, <1>9, EventFields DEF TakeWarning, Takes, e
  <2>2. \A n \in {50, 100} : <<Sell("sell_candidate", e.of, n)>> \in Seq(Events)
    BY <2>1, Publishable, BusSteps DEF BusTypes
  <2>3. Handled(<<>>) \/ \E n \in {50, 100} : Handled(<<Sell("sell_candidate", e.of, n)>>)
    BY <1>9 DEF TakeWarning, e
  <2>4. UNCHANGED <<tracked, todo, eval>>
    BY <1>9 DEF TakeWarning
  <2> QED BY <1>h, <1>n, <2>2, <2>3, <2>4
<1>10. CASE TakeCandidate
  <2>1. e.type = "sell_candidate"
    BY <1>10 DEF TakeCandidate, Takes, e
  <2>2. [e EXCEPT !.type = "sell_approved"] \in Events
    BY <1>0, <2>1 DEF Events, EnrichedEvents
  <2>3. Handled(<<[e EXCEPT !.type = "sell_approved"]>>) /\ UNCHANGED <<tracked, todo, eval>>
    BY <1>10 DEF TakeCandidate, e
  <2>4. <<[e EXCEPT !.type = "sell_approved"]>> \in Seq(Events)
    BY <2>2, BusSteps DEF BusTypes
  <2> QED BY <1>h, <2>3, <2>4
<1> QED
  BY <1>1, <1>2, <1>3, <1>4, <1>5, <1>6, <1>7, <1>8, <1>9, <1>10 DEF Dispatch

\* An answer comes back from outside, and its handler publishes what it may.
LEMMA AnswerKeepsBusTypes ==
  ASSUME BusTypes, Answer
  PROVE  BusTypes'
<1> USE DEF risk, sentinel, history
<1>1. UNCHANGED <<tracked, todo, eval>>
  BY DEF Answer, EnrichDone, LabelDone, BuyDone, BuyFails, SellFails, SellDone
<1>2. busy' \subseteq busy
  BY DEF Answer, EnrichDone, LabelDone, BuyDone, BuyFails, SellFails, SellDone, Returns
<1>p. ASSUME NEW r \in Seq(Events), Publish(r)
      PROVE  queue' \in Seq(Events)
  BY <1>p, BusSteps DEF Publish, BusTypes
<1>n. <<>> \in Seq(Events) /\ \A x \in Events : <<x>> \in Seq(Events)
  OBVIOUS
<1>3. queue' \in Seq(Events)
  <2>1. CASE \E o \in Onchain : EnrichDone(o)
    <3> PICK o \in Onchain : EnrichDone(o) BY <2>1
    <3> PICK h \in Suspended("enrich") :
          Publish(IF Rejected(o) THEN <<>> ELSE <<Enriched(h.pair, o, "onchain", FALSE)>>)
      BY DEF EnrichDone
    <3>1. h.pair \in Pairs
      BY DEF Suspended, BusTypes, Handlers
    <3>2. Enriched(h.pair, o, "onchain", FALSE) \in Events
      BY <3>1, EnrichedFields, Publishable
    <3>3. Publish(<<>>) \/ Publish(<<Enriched(h.pair, o, "onchain", FALSE)>>)
      OBVIOUS
    <3> QED BY <3>2, <3>3, <1>p, <1>n
  <2>2. CASE LabelDone
    <3> PICK h \in Suspended("label") :
          Publish(IF h.rug THEN <<Enriched(h.event.pair, h.event.onchain, "complete", TRUE)>>
                  ELSE <<>>)
      BY <2>2 DEF LabelDone
    <3>1. h.event \in EnrichedEvents
      BY DEF Suspended, BusTypes, Handlers
    <3>2. h.event.pair \in Pairs /\ h.event.onchain \in Onchain
      BY <3>1, EnrichedFields
    <3>3. Enriched(h.event.pair, h.event.onchain, "complete", TRUE) \in Events
      BY <3>2, EnrichedFields, Publishable
    <3>4. \/ Publish(<<>>)
          \/ Publish(<<Enriched(h.event.pair, h.event.onchain, "complete", TRUE)>>)
      OBVIOUS
    <3> QED BY <3>3, <3>4, <1>p, <1>n
  <2>3. CASE BuyDone
    <3>1. Min(FreeRows) \in Positions
      <4>1. FreeRows \subseteq Nat /\ FreeRows # {}
        BY <2>3 DEF BuyDone, FreeRows, Positions
      <4>2. PICK i \in FreeRows : \A j \in FreeRows : i <= j
        BY <4>1, LeastNat
      <4> QED BY <4>2 DEF Min, FreeRows
    <3>2. PosEvent("position_opened", Min(FreeRows)) \in Events
      BY <3>1, Publishable
    <3>3. Publish(<<PosEvent("position_opened", Min(FreeRows))>>)
      BY <2>3 DEF BuyDone
    <3> QED BY <3>2, <3>3, <1>p, <1>n
  <2>4. CASE \E executed \in BOOLEAN : BuyFails(executed) \/ SellFails(executed)
    BY <2>4 DEF BuyFails, SellFails, BusTypes
  <2>5. CASE \E i \in Positions : SellDone(i)
    <3> PICK i \in Positions : SellDone(i) BY <2>5
    <3> PICK h \in Suspended("sell") : Publish(<<Sell("sell_executed", i, h.pct)>>)
      BY DEF SellDone
    <3>1. h.pct \in {50, 100}
      BY DEF Suspended, BusTypes, Handlers
    <3>2. Sell("sell_executed", i, h.pct) \in Events
      BY <3>1, Publishable
    <3> QED BY <3>2, <1>p, <1>n
  <2> QED BY <2>1, <2>2, <2>3, <2>4, <2>5 DEF Answer
<1> QED BY <1>1, <1>2, <1>3 DEF BusTypes

\* What an evaluation may publish.
LEMMA WarningsTyped ==
  ASSUME NEW i \in Positions, NEW s
  PROVE  /\ Warnings(i, s) \in Seq(Events)
         /\ <<Warning(i, "urgent")>> \o Warnings(i, s) \in Seq(Events)
<1>1. /\ \A severity \in {"critical", "urgent", "advisory"} : Warning(i, severity) \in Events
      /\ PosEvent("thesis_intact", i) \in Events
  BY Publishable
<1>2. \A x, y, z \in Events : /\ <<x>> \in Seq(Events) /\ <<x>> \o <<y>> \in Seq(Events)
                              /\ <<x>> \o (<<y>> \o <<z>>) \in Seq(Events)
  OBVIOUS
<1>3. \A x, y \in Events : /\ <<x>> \o <<>> \in Seq(Events)
                           /\ <<x>> \o (<<y>> \o <<>>) \in Seq(Events)
  OBVIOUS
<1> QED BY <1>1, <1>2, <1>3 DEF Warnings

\* The first events of an evaluation, or all of them.
LEMMA SaidTyped ==
  ASSUME NEW i \in Positions, NEW s
  PROVE  /\ Said(i, s) \in Seq(Events)
         /\ \A n \in 1..Len(Said(i, s)) : SubSeq(Said(i, s), 1, n) \in Seq(Events)
<1>1. Said(i, s) \in {Warnings(i, s), <<Warning(i, "urgent")>> \o Warnings(i, s)}
  <2>1. <<>> \o Warnings(i, s) = Warnings(i, s)
    BY WarningsTyped
  <2> QED BY <2>1 DEF Said
<1>2. Said(i, s) \in Seq(Events)
  BY <1>1, WarningsTyped
<1>3. \A q \in Seq(Events) : \A n \in 1..Len(q) : SubSeq(q, 1, n) \in Seq(Events)
  OBVIOUS
<1> QED BY <1>2, <1>3

\* The bus and the sentinel keep their types at every step.
LEMMA NextBusTypes ==
  ASSUME BusTypes, [DexNext]_dexVars
  PROVE  BusTypes'
<1> USE DEF risk, sentinel, history
<1>1. CASE \/ \E p \in Pairs : LockExpires(p)
           \/ \E ok \in BOOLEAN : Refresh(ok)
           \/ \E i \in Positions, g \in Gains : Market(i, g)
           \/ UNCHANGED dexVars
  <2>1. UNCHANGED <<queue, busy, tracked, todo, eval>>
    BY <1>1 DEF LockExpires, Refresh, Market, dexVars
  <2> QED BY <2>1 DEF BusTypes
<1>2. CASE \E p \in Pairs : StreamPair(p) \/ PollPair(p)
  <2> PICK p \in Pairs : StreamPair(p) \/ PollPair(p) BY <1>2
  <2>1. PICK token \in BOOLEAN :
          Publish(<<[type |-> "new_pair_detected", pair |-> p, token |-> token]>>)
    BY DEF StreamPair, PollPair
  <2>2. <<[type |-> "new_pair_detected", pair |-> p, token |-> token]>> \in Seq(Events)
    BY Publishable, BusSteps DEF BusTypes
  <2>3. UNCHANGED <<busy, tracked, todo, eval>>
    BY DEF StreamPair, PollPair
  <2> QED BY <2>1, <2>2, <2>3, BusSteps DEF BusTypes, Publish
<1>3. CASE SweepStart
  <2>1. Watched \in SUBSET Positions
    BY DEF Watched, OpenRows
  <2>2. GoOn(Watched, tracked) /\ UNCHANGED <<queue, busy>>
    BY <1>3 DEF SweepStart
  <2> QED BY <2>1, <2>2, GoesOn DEF BusTypes
<1>4. CASE \E i \in Positions, ok \in BOOLEAN : EvalEnd(i, ok) \/ EvalAborts(i, ok)
  <2> PICK i \in Positions, ok \in BOOLEAN : EvalEnd(i, ok) \/ EvalAborts(i, ok) BY <1>4
  <2> DEFINE s == Looked(i, ok)
             known == Kept(i, s)
  <2>1. busy' = busy /\ \E said \in Seq(Events) : Publish(said)
    BY SaidTyped DEF EvalEnd, EvalAborts
  <2>2. queue' \in Seq(Events)
    BY <2>1, BusSteps DEF Publish, BusTypes
  <2>3. DOMAIN known = Positions /\ todo \in SUBSET Positions
    BY DEF BusTypes, Kept
  <2>4. GoOn(todo, known) \/ (tracked' = known /\ todo' = {} /\ eval' = NoEval)
    BY DEF EvalEnd, EvalAborts
  <2> HIDE DEF known
  <2>5. /\ DOMAIN tracked' = Positions /\ todo' \subseteq Positions
        /\ eval'.of \in Positions \cup {0} /\ DOMAIN eval' = {"of", "own", "state"}
    BY <2>3, <2>4, GoesOn DEF NoEval
  <2> QED BY <2>1, <2>2, <2>5 DEF BusTypes
<1>5. CASE \E executed \in BOOLEAN : Crash(executed)
  BY <1>5, BusSteps DEF Crash, BusTypes, NoEval
<1> QED
  BY <1>1, <1>2, <1>3, <1>4, <1>5, DispatchKeepsBusTypes, AnswerKeepsBusTypes DEF DexNext, Monitor

\* An event that will never be bought on: a rug deployer's pair, published again
\* when Nansen has spoken, and a score too low.
Doomed(e) ==
  \/ e.type = "pair_enriched" /\ e.stage = "complete"
  \/ e.type = "pair_scored" /\ e.score < EntryMin

\* The event may lead to a buy of the pair.
Concerns(e, p) ==
  /\ e.type \in {"new_pair_detected", "pair_enriched", "pair_scored", "buy_requested", "buy_approved"}
  /\ e.pair = p /\ ~Doomed(e)

\* No event of the sequence leads to a buy of the pair, and at most one does.
Never(q, p) == \A k \in 1..Len(q) : ~Concerns(q[k], p)
Once(q, p)  == \A k, m \in 1..Len(q) : Concerns(q[k], p) /\ Concerns(q[m], p) => k = m

\* A suspended handler may lead to a buy of the pair.
Leads(h, p) == h.doing \in {"enrich", "buy"} /\ h.pair = p

\* A pair has one chance of being bought in a life of the process: an event, a
\* suspended handler, or the buy itself; and none before the watcher saw it.
OneChance(p) ==
  /\ buys[p] \in {0, 1}
  /\ Once(queue, p)
  /\ (\E h \in busy : Leads(h, p)) => Never(queue, p)
  /\ (buys[p] = 1 \/ p \notin seen) => Never(queue, p) /\ \A h \in busy : ~Leads(h, p)
  /\ p \notin seen => buys[p] = 0

OneBuyInv ==
  /\ SaleInv /\ BusTypes /\ DOMAIN buys = Pairs
  /\ \A p \in Pairs : OneChance(p)

\* What becomes of the chances in sequences that are joined.
LEMMA JoinedChances ==
  ASSUME NEW p, NEW q \in Seq(Events), NEW r \in Seq(Events)
  PROVE  /\ Never(q, p) /\ Never(r, p) => Never(q \o r, p)
         /\ Never(q, p) /\ Once(r, p) => Once(q \o r, p)
         /\ Once(q, p) /\ Never(r, p) => Once(q \o r, p)
<1>1. /\ Len(q) \in Nat /\ Len(r) \in Nat /\ Len(q \o r) = Len(q) + Len(r)
      /\ \A k \in 1..Len(q) : (q \o r)[k] = q[k]
      /\ \A k \in 1..Len(q \o r) : k \notin 1..Len(q) =>
           k - Len(q) \in 1..Len(r) /\ (q \o r)[k] = r[k - Len(q)]
  OBVIOUS
<1> DEFINE s == q \o r
           n == Len(q)
<1> HIDE DEF s, n
<1>2. /\ \A k \in 1..n : s[k] = q[k]
      /\ \A k \in 1..Len(s) : k \notin 1..n => k - n \in 1..Len(r) /\ s[k] = r[k - n]
      /\ n \in Nat
  BY <1>1 DEF s, n
<1>3. Never(q, p) <=> \A k \in 1..n : ~Concerns(q[k], p)
  BY DEF Never, n
<1>4. Never(q, p) /\ Never(r, p) => Never(s, p)
  BY <1>2, <1>3 DEF Never
<1>5. Never(q, p) /\ Once(r, p) => Once(s, p)
  <2> SUFFICES ASSUME Never(q, p), Once(r, p), NEW k \in 1..Len(s), NEW m \in 1..Len(s),
                      Concerns(s[k], p), Concerns(s[m], p)
               PROVE  k = m
    BY DEF Once
  <2>1. /\ k - n \in 1..Len(r) /\ Concerns(r[k - n], p)
        /\ m - n \in 1..Len(r) /\ Concerns(r[m - n], p)
    BY <1>2, <1>3
  <2>2. k - n = m - n
    BY <2>1 DEF Once
  <2> QED BY <1>2, <2>2
<1>6. Once(q, p) /\ Never(r, p) => Once(s, p)
  BY <1>2 DEF Once, Never, n
<1> QED BY <1>4, <1>5, <1>6 DEF s

\* What becomes of them in a sequence that loses its head, and in short ones.
LEMMA ChancesOf ==
  ASSUME NEW p
  PROVE  /\ \A q \in Seq(Events) : q # <<>> =>
              /\ Never(q, p) => ~Concerns(Head(q), p) /\ Never(Tail(q), p)
              /\ Once(q, p) => Once(Tail(q), p)
              /\ Once(q, p) /\ Concerns(Head(q), p) => Never(Tail(q), p)
         /\ Never(<<>>, p) /\ Once(<<>>, p)
         /\ \A e \in Events : Once(<<e>>, p) /\ (~Concerns(e, p) => Never(<<e>>, p))
         /\ \A q \in Seq(Events) : Never(q, p) => Once(q, p)
<1>1. ASSUME NEW q \in Seq(Events), q # <<>>
      PROVE  /\ Never(q, p) => ~Concerns(Head(q), p) /\ Never(Tail(q), p)
             /\ Once(q, p) => Once(Tail(q), p)
             /\ Once(q, p) /\ Concerns(Head(q), p) => Never(Tail(q), p)
  <2>1. /\ Head(q) = q[1] /\ 1 \in 1..Len(q)
        /\ \A k \in 1..Len(Tail(q)) : k \in Int /\ k > 0 /\ k + 1 \in 1..Len(q) /\ Tail(q)[k] = q[k + 1]
    BY <1>1
  <2> DEFINE s == Tail(q)
  <2> HIDE DEF s
  <2>2. \A k \in 1..Len(s) : k \in Int /\ k > 0 /\ k + 1 \in 1..Len(q) /\ s[k] = q[k + 1]
    BY <2>1 DEF s
  <2>3. Never(q, p) => ~Concerns(Head(q), p) /\ Never(s, p)
    BY <2>1, <2>2 DEF Never
  <2>4. Once(q, p) => Once(s, p)
    BY <2>2 DEF Once
  <2>5. Once(q, p) /\ Concerns(q[1], p) => Never(s, p)
    <3> SUFFICES ASSUME Once(q, p), Concerns(q[1], p), NEW k \in 1..Len(s), Concerns(s[k], p)
                 PROVE  FALSE
      BY DEF Never
    <3>1. Concerns(q[k + 1], p) /\ k + 1 \in 1..Len(q) /\ k \in Int /\ k > 0
      BY <2>2
    <3>2. k + 1 = 1
      BY <3>1, <2>1 DEF Once
    <3> QED BY <3>1, <3>2
  <2> QED BY <2>1, <2>3, <2>4, <2>5 DEF s
<1>2. Never(<<>>, p) /\ Once(<<>>, p)
  BY DEF Never, Once
<1>3. \A e \in Events : Once(<<e>>, p) /\ (~Concerns(e, p) => Never(<<e>>, p))
  BY DEF Never, Once
<1>4. \A q \in Seq(Events) : Never(q, p) => Once(q, p)
  BY DEF Never, Once
<1> QED BY <1>1, <1>2, <1>3, <1>4

\* A handler that does not suspend hands a chance on, or ends it.
LEMMA HandledKeepsChance ==
  ASSUME queue \in Seq(Events), queue # <<>>, busy = {}, NEW p \in Pairs, OneChance(p),
         NEW r \in Seq(Events), Handled(r), Once(r, p),
         ~Never(r, p) => Concerns(Head(queue), p),
         UNCHANGED <<seen, buys>>
  PROVE  OneChance(p)'
<1>1. Tail(queue) \in Seq(Events) /\ queue' = Tail(queue) \o r /\ busy' = {}
  BY BusSteps DEF Handled
<1>2. CASE Never(r, p)
  <2> DEFINE q == Tail(queue)
  <2>1. Once(q, p) /\ (Never(queue, p) => Never(q, p))
    BY ChancesOf DEF OneChance
  <2> HIDE DEF q
  <2>2. Once(q \o r, p) /\ (Never(q, p) => Never(q \o r, p))
    BY <1>1, <1>2, <2>1, JoinedChances DEF q
  <2>3. Once(queue', p) /\ (Never(queue, p) => Never(queue', p))
    BY <1>1, <2>1, <2>2 DEF q
  <2> QED BY <1>1, <2>3 DEF OneChance, Once, Never
<1>3. CASE Concerns(Head(queue), p)
  <2>1. ~Never(queue, p) /\ Never(Tail(queue), p)
    BY <1>3, ChancesOf DEF OneChance
  <2> DEFINE q == Tail(queue)
  <2> HIDE DEF q
  <2>2. Once(q \o r, p)
    BY <1>1, <2>1, JoinedChances DEF q
  <2>3. Once(queue', p)
    BY <1>1, <2>2 DEF q
  <2> QED BY <1>1, <2>1, <2>3 DEF OneChance, Once, Never
<1> QED BY <1>2, <1>3

\* A handler that suspends holds the chance of the event it took.
LEMMA SuspendedKeepsChance ==
  ASSUME queue \in Seq(Events), queue # <<>>, busy = {}, NEW p \in Pairs, OneChance(p),
         NEW h, Suspends(h), Leads(h, p) => Concerns(Head(queue), p),
         UNCHANGED <<seen, buys>>
  PROVE  OneChance(p)'
<1>1. queue' = Tail(queue) /\ busy' = {h}
  BY DEF Suspends
<1>2. Once(queue', p) /\ (Never(queue, p) => Never(queue', p))
  BY <1>1, ChancesOf DEF OneChance
<1>3. CASE ~Leads(h, p)
  BY <1>1, <1>2, <1>3 DEF OneChance, Once, Never, Leads
<1>4. CASE Concerns(Head(queue), p)
  <2>1. ~Never(queue, p) /\ Never(queue', p)
    BY <1>1, <1>4, ChancesOf DEF OneChance
  <2> QED BY <1>1, <1>2, <2>1 DEF OneChance, Once, Never, Leads
<1> QED BY <1>3, <1>4

\* A handler that returns hands its chance on, or ends it.
LEMMA ReturnedKeepsChance ==
  ASSUME queue \in Seq(Events), NEW p \in Pairs, OneChance(p),
         NEW h \in busy, Returns(h), \A g \in busy : g = h,
         NEW r \in Seq(Events), Publish(r), Once(r, p), ~Never(r, p) => Leads(h, p),
         UNCHANGED <<seen, buys>>
  PROVE  OneChance(p)'
<1>1. queue' = queue \o r /\ busy' = {}
  BY DEF Publish, Returns
<1>2. CASE Never(r, p)
  <2>1. Once(queue \o r, p) /\ (Never(queue, p) => Never(queue \o r, p))
    BY <1>2, JoinedChances DEF OneChance
  <2>2. Once(queue', p) /\ (Never(queue, p) => Never(queue', p))
    BY <1>1, <2>1
  <2> QED BY <1>1, <2>2 DEF OneChance, Once, Never
<1>3. CASE Leads(h, p)
  <2>1. Never(queue, p)
    BY <1>3 DEF OneChance
  <2>2. Once(queue \o r, p)
    BY <2>1, JoinedChances
  <2>3. Once(queue', p)
    BY <1>1, <2>2
  <2> QED BY <1>1, <1>3, <2>1, <2>3 DEF OneChance, Once, Never
<1> QED BY <1>2, <1>3

\* The chances do not change where nothing they consist of does.
LEMMA UnmovedKeepsChance ==
  ASSUME NEW p \in Pairs, OneChance(p), UNCHANGED <<seen, busy, buys>>,
         Once(queue', p), Never(queue, p) => Never(queue', p)
  PROVE  OneChance(p)'
BY DEF OneChance, Once, Never, Leads

\* Each handler hands on at most the chance of the event it took: where Nansen
\* has an event published twice, the second one and both scores are doomed.
LEMMA DispatchKeepsChance ==
  ASSUME EntryMin > 505, OneBuyInv, Dispatch, NEW p \in Pairs
  PROVE  OneChance(p)'
<1> USE DEF risk, sentinel, history
<1> DEFINE e == Head(queue)
<1>0. /\ busy = {} /\ queue # <<>> /\ e \in Events
      /\ queue \in Seq(Events) /\ OneChance(p)
      /\ UNCHANGED <<seen, buys>>
  <2>1. busy = {} /\ queue # <<>> /\ UNCHANGED <<seen, buys>>
    BY DEF Dispatch, Takes, TakeNewPair, TakeEnriched, TakeScored, TakeRequested,
           TakeBuyApproved, TakeSellApproved, TakeOpened, TakeSold, TakeThesis, TakeWarning,
           TakeCandidate
  <2> QED BY <2>1, BusSteps DEF BusTypes, OneBuyInv
<1>e. EntryMin \in Nat
  BY DexConstants
<1> HIDE DEF e
<1>h. ASSUME NEW r \in Seq(Events), Handled(r), Once(r, p), ~Never(r, p) => Concerns(e, p)
      PROVE  OneChance(p)'
  BY <1>h, <1>0, HandledKeepsChance DEF e
<1>s. ASSUME NEW h, Suspends(h), Leads(h, p) => Concerns(e, p)
      PROVE  OneChance(p)'
  BY <1>s, <1>0, SuspendedKeepsChance DEF e
<1>n. ASSUME Handled(<<>>)
      PROVE  OneChance(p)'
  <2>1. <<>> \in Seq(Events)
    OBVIOUS
  <2> QED BY <1>h, <1>n, <2>1, ChancesOf
<1>o. ASSUME NEW x \in Events, Handled(<<x>>), Concerns(x, p) => Concerns(e, p)
      PROVE  OneChance(p)'
  <2>1. <<x>> \in Seq(Events)
    OBVIOUS
  <2>2. Once(<<x>>, p) /\ (~Never(<<x>>, p) => Concerns(e, p))
    BY <1>o, ChancesOf
  <2> QED BY <1>h, <1>o, <2>1, <2>2
<1>1. CASE TakeNewPair
  <2>1. e.type = "new_pair_detected"
    BY <1>1 DEF TakeNewPair, Takes, e
  <2> DEFINE enrich == [doing |-> "enrich", pair |-> e.pair]
  <2>2. Handled(<<>>) \/ Suspends(enrich)
    BY <1>1 DEF TakeNewPair, e
  <2>3. Leads(enrich, p) => Concerns(e, p)
    BY <2>1 DEF Leads, Concerns, Doomed
  <2> HIDE DEF enrich
  <2> QED BY <1>n, <1>s, <2>2, <2>3
<1>2. CASE \E rug, atHand \in BOOLEAN : TakeEnriched(rug, atHand)
  <2> PICK rug \in BOOLEAN, atHand \in BOOLEAN : TakeEnriched(rug, atHand) BY <1>2
  <2>1. e \in EnrichedEvents /\ e.type = "pair_enriched"
    BY <1>0, EventFields DEF TakeEnriched, Takes, e
  <2>2. /\ e.pair \in Pairs /\ e.onchain \in Onchain /\ (e.rug \/ rug) \in BOOLEAN
        /\ e.stage = "complete" => e.rug
    BY <2>1, EnrichedFields
  <2> DEFINE score == Score(e.onchain, e.rug \/ rug)
             scored == Scored("pair_scored", e.pair, score)
             again == Enriched(e.pair, e.onchain, "complete", TRUE)
             label == [doing |-> "label", event |-> e, rug |-> rug]
  <2>3. \/ (e.stage = "complete" \/ ~rug) /\ Handled(<<scored>>)
        \/ e.stage # "complete" /\ rug /\ Handled(<<again>> \o <<scored>>)
        \/ ~rug /\ Handled(<<>> \o <<scored>>)
        \/ Suspends(label)
    BY DEF TakeEnriched, e
  <2>4. score \in Int /\ (e.rug \/ rug => score < EntryMin)
    <3>1. score \in Int
      BY <2>2, ScoreType
    <3>2. ASSUME e.rug \/ rug PROVE score < EntryMin
      <4>1. (e.rug \/ rug) = TRUE
        BY <3>2, <2>2
      <4>2. score = Score(e.onchain, TRUE)
        BY <4>1
      <4> HIDE DEF score
      <4>3. score \in Int /\ score <= 505
        BY <4>2, <2>2, RugScore
      <4> QED BY <4>3, <1>e
    <3> QED BY <3>1, <3>2
  <2>5. scored \in Events
    BY <2>2, ScoreType, Publishable
  <2>6. again \in Events
    BY <2>2, EnrichedFields, Publishable
  <2>7. ~Concerns(again, p)
    BY DEF Concerns, Doomed, Enriched
  <2>8. Concerns(scored, p) => Concerns(e, p) /\ ~(e.rug \/ rug)
    <3> HIDE DEF score
    <3> QED BY <2>1, <2>2, <2>4, <1>e DEF Concerns, Doomed, Scored
  <2>9. ~Leads(label, p)
    BY DEF Leads
  <2> HIDE DEF scored, again, label, score
  <2>10. CASE Handled(<<scored>>) \/ Handled(<<>> \o <<scored>>)
    <3>1. Handled(<<scored>>)
      BY <2>10, <2>5
    <3> QED BY <3>1, <2>5, <2>8, <1>o
  <2>11. CASE rug /\ Handled(<<again>> \o <<scored>>)
    <3>1. Never(<<again>>, p) /\ Never(<<scored>>, p)
      BY <2>5, <2>6, <2>7, <2>8, <2>11, ChancesOf
    <3>2. <<again>> \in Seq(Events) /\ <<scored>> \in Seq(Events)
      BY <2>5, <2>6
    <3>3. Never(<<again>> \o <<scored>>, p) /\ <<again>> \o <<scored>> \in Seq(Events)
      BY <3>1, <3>2, JoinedChances, BusSteps, <1>0
    <3>4. Once(<<again>> \o <<scored>>, p)
      BY <3>3, ChancesOf
    <3> QED BY <2>11, <3>3, <3>4, <1>h
  <2>12. CASE Suspends(label)
    BY <2>12, <2>9, <1>s
  <2> QED BY <2>3, <2>10, <2>11, <2>12
<1>3. CASE TakeScored
  <2>1. e.type = "pair_scored" /\ e.pair \in Pairs /\ e.score \in Int
    BY <1>0, <1>3, EventFields DEF TakeScored, Takes, e
  <2> DEFINE requested == Scored("buy_requested", e.pair, e.score)
  <2>2. Handled(<<>>) \/ (Worthwhile(e.score) /\ Handled(<<requested>>))
    BY <1>3 DEF TakeScored, e
  <2>3. requested \in Events
    BY <2>1, Publishable
  <2>4. Worthwhile(e.score) /\ Concerns(requested, p) => Concerns(e, p)
    BY <2>1, <1>e DEF Concerns, Doomed, Worthwhile, Scored
  <2> HIDE DEF requested
  <2> QED BY <2>2, <2>3, <2>4, <1>n, <1>o
<1>4. CASE \E deep \in BOOLEAN : TakeRequested(deep)
  <2>1. e.type = "buy_requested" /\ e.pair \in Pairs
    BY <1>0, <1>4, EventFields DEF TakeRequested, Takes, e
  <2> DEFINE approved == PairEvent("buy_approved", e.pair)
  <2>2. Handled(<<>>) \/ Handled(<<approved>>)
    BY <1>4 DEF TakeRequested, e
  <2>3. approved \in Events
    BY <2>1, Publishable
  <2>4. Concerns(approved, p) => Concerns(e, p)
    BY <2>1 DEF Concerns, Doomed, PairEvent
  <2> HIDE DEF approved
  <2> QED BY <2>2, <2>3, <2>4, <1>n, <1>o
<1>5. CASE TakeBuyApproved
  <2>1. e.type = "buy_approved"
    BY <1>5 DEF TakeBuyApproved, Takes, e
  <2> DEFINE buy == [doing |-> "buy", pair |-> e.pair]
  <2>2. Suspends(buy)
    BY <1>5 DEF TakeBuyApproved, e
  <2>3. Leads(buy, p) => Concerns(e, p)
    BY <2>1 DEF Leads, Concerns, Doomed
  <2> HIDE DEF buy
  <2> QED BY <1>s, <2>2, <2>3
<1>6. CASE TakeSellApproved
  <2> DEFINE sell == [doing |-> "sell", of |-> e.of, pct |-> e.pct]
  <2>1. Handled(<<>>) \/ Suspends(sell)
    BY <1>6 DEF TakeSellApproved, e
  <2>2. ~Leads(sell, p)
    BY DEF Leads
  <2> HIDE DEF sell
  <2> QED BY <1>s, <1>n, <2>1, <2>2
<1>7. CASE TakeOpened \/ TakeSold \/ TakeThesis
  BY <1>7, <1>n DEF TakeOpened, TakeSold, TakeThesis
<1>9. CASE TakeWarning
  <2>1. e.of \in Positions
    BY <1>0, <1>9, EventFields DEF TakeWarning, Takes, e
  <2>2. \A n \in {50, 100} : /\ Sell("sell_candidate", e.of, n) \in Events
                             /\ ~Concerns(Sell("sell_candidate", e.of, n), p)
    BY <2>1, Publishable DEF Concerns, Sell
  <2>3. Handled(<<>>) \/ \E n \in {50, 100} : Handled(<<Sell("sell_candidate", e.of, n)>>)
    BY <1>9 DEF TakeWarning, e
  <2> QED BY <1>o, <1>n, <2>2, <2>3
<1>10. CASE TakeCandidate
  <2>1. e.type = "sell_candidate"
    BY <1>10 DEF TakeCandidate, Takes, e
  <2> DEFINE approved == [e EXCEPT !.type = "sell_approved"]
  <2>2. approved \in Events /\ approved.type = "sell_approved"
    BY <1>0, <2>1 DEF Events, EnrichedEvents
  <2>3. Handled(<<approved>>)
    BY <1>10 DEF TakeCandidate, e
  <2>4. ~Concerns(approved, p)
    BY <2>2 DEF Concerns
  <2> HIDE DEF approved
  <2> QED BY <1>o, <2>2, <2>3, <2>4
<1> QED
  BY <1>1, <1>2, <1>3, <1>4, <1>5, <1>6, <1>7, <1>9, <1>10 DEF Dispatch

\* A returning handler hands its chance on, and a buy that executed ends it.
LEMMA AnswerKeepsChance ==
  ASSUME OneBuyInv, Answer, NEW p \in Pairs
  PROVE  OneChance(p)'
<1> USE DEF risk, sentinel, history
<1>0. /\ queue \in Seq(Events) /\ busy \subseteq Handlers /\ OneChance(p)
      /\ \A g, h \in busy : g = h
  BY DEF OneBuyInv, BusTypes, SaleInv
<1>n. <<>> \in Seq(Events) /\ \A x \in Events : <<x>> \in Seq(Events)
  OBVIOUS
<1>1. ASSUME NEW h \in busy, Returns(h), UNCHANGED <<seen, buys>>,
             NEW x \in Events, Publish(<<x>>), Concerns(x, p) => Leads(h, p)
      PROVE  OneChance(p)'
  <2>1. <<x>> \in Seq(Events) /\ Once(<<x>>, p) /\ (~Never(<<x>>, p) => Leads(h, p))
    BY <1>1, <1>n, ChancesOf
  <2> QED BY <1>0, <1>1, <2>1, ReturnedKeepsChance
<1>2. ASSUME NEW h \in busy, Returns(h), UNCHANGED <<seen, buys, queue>>
      PROVE  OneChance(p)'
  <2>1. Publish(<<>>)
    BY <1>0, <1>2 DEF Publish
  <2> QED BY <1>0, <1>2, <1>n, <2>1, ChancesOf, ReturnedKeepsChance
<1>3. CASE \E o \in Onchain : EnrichDone(o)
  <2> PICK o \in Onchain : EnrichDone(o) BY <1>3
  <2> PICK h \in Suspended("enrich") :
        /\ Returns(h)
        /\ Publish(IF Rejected(o) THEN <<>> ELSE <<Enriched(h.pair, o, "onchain", FALSE)>>)
    BY DEF EnrichDone
  <2> DEFINE found == Enriched(h.pair, o, "onchain", FALSE)
  <2>1. h \in busy /\ h.doing = "enrich" /\ UNCHANGED <<seen, buys>>
    BY DEF Suspended, EnrichDone
  <2>2. h.pair \in Pairs
    BY <1>0, <2>1 DEF Handlers
  <2>3. found \in Events
    BY <2>2, EnrichedFields, Publishable
  <2>4. Concerns(found, p) => Leads(h, p)
    BY <2>1 DEF Concerns, Enriched, Leads
  <2>5. Publish(<<>>) \/ Publish(<<found>>)
    OBVIOUS
  <2>6. Publish(<<>>) => queue' = queue
    BY <1>0 DEF Publish
  <2> HIDE DEF found
  <2> QED BY <1>1, <1>2, <2>1, <2>3, <2>4, <2>5, <2>6
<1>4. CASE LabelDone
  <2> PICK h \in Suspended("label") :
        /\ Returns(h)
        /\ Publish(IF h.rug THEN <<Enriched(h.event.pair, h.event.onchain, "complete", TRUE)>>
                   ELSE <<>>)
    BY <1>4 DEF LabelDone
  <2> DEFINE again == Enriched(h.event.pair, h.event.onchain, "complete", TRUE)
  <2>1. h \in busy /\ UNCHANGED <<seen, buys>>
    BY <1>4 DEF Suspended, LabelDone
  <2>2. h.event \in EnrichedEvents
    BY <1>0 DEF Suspended, Handlers
  <2>3. again \in Events
    BY <2>2, EnrichedFields, Publishable
  <2>4. ~Concerns(again, p)
    BY DEF Concerns, Doomed, Enriched
  <2>5. Publish(<<>>) \/ Publish(<<again>>)
    OBVIOUS
  <2>6. Publish(<<>>) => queue' = queue
    BY <1>0 DEF Publish
  <2> HIDE DEF again
  <2> QED BY <1>1, <1>2, <2>1, <2>3, <2>4, <2>5, <2>6
<1>5. CASE BuyDone \/ \E executed \in BOOLEAN : BuyFails(executed)
  <2>1. /\ seen' = seen
        /\ \E h \in Suspended("buy") :
             /\ Returns(h)
             /\ \/ buys' = [buys EXCEPT ![h.pair] = @ + 1]
                \/ buys' = buys
        /\ \/ queue' = queue
           \/ \E i : Publish(<<PosEvent("position_opened", i)>>)
    BY <1>5 DEF BuyDone, BuyFails
  <2> PICK h \in Suspended("buy") :
        /\ Returns(h)
        /\ \/ buys' = [buys EXCEPT ![h.pair] = @ + 1]
           \/ buys' = buys
    BY <2>1
  <2>2. h \in busy /\ h.doing = "buy" /\ h.pair \in Pairs
    BY <1>0 DEF Suspended, Handlers
  <2>3. busy' = {}
    BY <1>0, <2>2 DEF Returns
  <2>4. Once(queue', p) /\ (Never(queue, p) => Never(queue', p))
    <3>1. CASE queue' = queue
      BY <1>0, <3>1 DEF OneChance
    <3>2. CASE \E i : Publish(<<PosEvent("position_opened", i)>>)
      <4> PICK i : Publish(<<PosEvent("position_opened", i)>>) BY <3>2
      <4> DEFINE x == PosEvent("position_opened", i)
      <4>1. ~Concerns(x, p) /\ queue' = queue \o <<x>>
        BY DEF Concerns, PosEvent, Publish
      <4>2. Never(<<x>>, p)
        <5> HIDE DEF x
        <5> QED BY <4>1 DEF Never
      <4> HIDE DEF x
      <4>3. <<x>> \in Seq(Events)
        <5>1. BusTypes'
          BY AnswerKeepsBusTypes DEF OneBuyInv
        <5>2. queue \o <<x>> \in Seq(Events)
          BY <5>1, <4>1 DEF BusTypes
        <5>3. (queue \o <<x>>)[Len(queue) + 1] = x /\ Len(queue) + 1 \in 1..Len(queue \o <<x>>)
          BY <1>0
        <5>4. x \in Events
          BY <5>2, <5>3
        <5> QED BY <5>4
      <4>4. Once(queue \o <<x>>, p) /\ (Never(queue, p) => Never(queue \o <<x>>, p))
        BY <1>0, <4>2, <4>3, JoinedChances DEF OneChance
      <4> QED BY <4>1, <4>4
    <3> QED BY <2>1, <3>1, <3>2
  <2>5. CASE h.pair = p
    <3>1. Never(queue, p) /\ buys[p] = 0 /\ p \in seen
      BY <1>0, <2>2, <2>5 DEF OneChance, Leads
    <3>2. buys'[p] \in {0, 1}
      BY <2>5, <3>1 DEF OneBuyInv
    <3>3. Never(queue', p) /\ p \in seen'
      BY <2>1, <2>4, <3>1
    <3> QED BY <2>3, <2>4, <3>2, <3>3 DEF OneChance, Once, Never, Leads
  <2>6. CASE h.pair # p
    <3>1. buys'[p] = buys[p] /\ seen' = seen
      BY <2>1, <2>6 DEF OneBuyInv
    <3> QED BY <1>0, <2>3, <2>4, <3>1 DEF OneChance, Once, Never, Leads
  <2> QED BY <2>5, <2>6
<1>6. CASE \E executed \in BOOLEAN : SellFails(executed)
  BY <1>6, <1>2 DEF SellFails, Suspended
<1>7. CASE \E i \in Positions : SellDone(i)
  <2> PICK i \in Positions : SellDone(i) BY <1>7
  <2> PICK h \in Suspended("sell") : Returns(h) /\ Publish(<<Sell("sell_executed", i, h.pct)>>)
    BY DEF SellDone
  <2>1. h \in busy /\ h.pct \in {50, 100} /\ UNCHANGED <<seen, buys>>
    BY <1>0 DEF Suspended, Handlers, SellDone
  <2>2. Sell("sell_executed", i, h.pct) \in Events
    BY <2>1, Publishable
  <2>3. ~Concerns(Sell("sell_executed", i, h.pct), p)
    BY DEF Concerns, Sell
  <2> QED BY <1>1, <2>1, <2>2, <2>3
<1> QED BY <1>3, <1>4, <1>5, <1>6, <1>7 DEF Answer

\* An evaluation publishes nothing about a pair.
LEMMA WarningsLeadNowhere ==
  ASSUME NEW i \in Positions, NEW s, NEW p
  PROVE  /\ Never(Warnings(i, s), p)
         /\ Never(<<Warning(i, "urgent")>> \o Warnings(i, s), p)
<1>1. \A severity : ~Concerns(Warning(i, severity), p)
  BY DEF Concerns, Warning
<1>2. ~Concerns(PosEvent("thesis_intact", i), p)
  BY DEF Concerns, PosEvent
<1>3. /\ \A severity \in {"critical", "urgent", "advisory"} :
           Warning(i, severity) \in Events /\ <<Warning(i, severity)>> \in Seq(Events)
      /\ PosEvent("thesis_intact", i) \in Events /\ <<PosEvent("thesis_intact", i)>> \in Seq(Events)
      /\ <<>> \in Seq(Events)
  BY Publishable
<1>4. /\ \A severity \in {"critical", "urgent", "advisory"} : Never(<<Warning(i, severity)>>, p)
      /\ Never(<<PosEvent("thesis_intact", i)>>, p) /\ Never(<<>>, p)
  BY <1>1, <1>2, <1>3, ChancesOf
<1> DEFINE intact == <<PosEvent("thesis_intact", i)>>
           advisory == <<Warning(i, "advisory")>>
           critical == <<Warning(i, "critical")>>
<1>5. Never(intact \o <<>>, p) /\ Never(intact \o advisory, p)
  BY <1>3, <1>4, JoinedChances
<1>6. Warnings(i, s) \in {critical, intact \o <<>>, intact \o advisory}
  BY DEF Warnings
<1>7. Never(Warnings(i, s), p)
  <2>1. Never(critical, p)
    BY <1>4
  <2> HIDE DEF intact, advisory, critical
  <2> QED BY <1>5, <1>6, <2>1
<1>8. Warnings(i, s) \in Seq(Events)
  BY WarningsTyped
<1>9. Never(<<Warning(i, "urgent")>>, p) /\ <<Warning(i, "urgent")>> \in Seq(Events)
  BY <1>3, <1>4
<1> QED BY <1>7, <1>8, <1>9, JoinedChances

\* Nor does a part of it.
LEMMA SaidLeadsNowhere ==
  ASSUME NEW i \in Positions, NEW s, NEW p \in Pairs
  PROVE  /\ Never(Said(i, s), p)
         /\ \A n \in 1..Len(Said(i, s)) : Never(SubSeq(Said(i, s), 1, n), p)
<1>1. Said(i, s) \in {Warnings(i, s), <<Warning(i, "urgent")>> \o Warnings(i, s)}
  <2>1. <<>> \o Warnings(i, s) = Warnings(i, s)
    BY WarningsTyped
  <2> QED BY <2>1 DEF Said
<1>2. Never(Said(i, s), p)
  BY <1>1, WarningsLeadNowhere
<1>3. \A q \in Seq(Events) : \A n \in 1..Len(q) :
        \A k \in 1..Len(SubSeq(q, 1, n)) : k \in 1..Len(q) /\ SubSeq(q, 1, n)[k] = q[k]
  OBVIOUS
<1> QED BY <1>2, <1>3, SaidTyped DEF Never

\* Whatever happens, a pair keeps the one chance it has.
LEMMA NextOneBuyInv ==
  ASSUME EntryMin > 505, OneBuyInv, [DexNext]_dexVars
  PROVE  OneBuyInv'
<1> USE DEF risk, sentinel, history
<1>1. SaleInv' /\ BusTypes'
  BY NextSaleInv, NextBusTypes DEF OneBuyInv
<1>2. DOMAIN buys' = Pairs
  <2>1. CASE Dispatch
    BY <2>1 DEF OneBuyInv, Dispatch, TakeNewPair, TakeEnriched, TakeScored, TakeRequested,
                TakeBuyApproved, TakeSellApproved, TakeOpened, TakeSold, TakeThesis, TakeWarning,
                TakeCandidate
  <2>2. CASE Answer
    BY <2>2 DEF OneBuyInv, Answer, EnrichDone, LabelDone, BuyDone, BuyFails, SellFails, SellDone
  <2>3. CASE ~Dispatch /\ ~Answer
    BY <2>3 DEF OneBuyInv, DexNext, StreamPair, PollPair, LockExpires, Refresh, Monitor,
                SweepStart, EvalEnd, EvalAborts, Market, Crash, dexVars
  <2> QED BY <2>1, <2>2, <2>3
<1>3. ASSUME NEW p \in Pairs PROVE OneChance(p)'
  <2>0. OneChance(p) /\ queue \in Seq(Events)
    BY DEF OneBuyInv, BusTypes
  <2>1. CASE \/ \E q \in Pairs : LockExpires(q)
             \/ \E ok \in BOOLEAN : Refresh(ok)
             \/ SweepStart
             \/ \E i \in Positions, g \in Gains : Market(i, g)
             \/ UNCHANGED dexVars
    <3>1. UNCHANGED <<queue, seen, busy, buys>>
      BY <2>1 DEF LockExpires, Refresh, SweepStart, Market, dexVars
    <3> QED BY <3>1, <2>0 DEF OneChance, Once, Never, Leads
  <2>2. CASE \E q \in Pairs : StreamPair(q) \/ PollPair(q)
    <3> PICK q \in Pairs : StreamPair(q) \/ PollPair(q) BY <2>2
    <3> PICK token \in BOOLEAN :
          Publish(<<[type |-> "new_pair_detected", pair |-> q, token |-> token]>>)
      BY DEF StreamPair, PollPair
    <3> DEFINE x == [type |-> "new_pair_detected", pair |-> q, token |-> token]
    <3>1. q \notin seen /\ seen' = seen \cup {q} /\ UNCHANGED <<busy, buys>>
      BY DEF StreamPair, PollPair, Remembers
    <3>2. x \in Events
      BY Publishable
    <3>3. <<x>> \in Seq(Events)
      BY <3>2, <2>0, BusSteps
    <3>4. Concerns(x, p) => p = q
      BY DEF Concerns
    <3>5. queue' = queue \o <<x>>
      BY DEF Publish
    <3> HIDE DEF x
    <3>6. CASE p = q
      <4>1. Never(queue, p) /\ buys[p] = 0 /\ \A h \in busy : ~Leads(h, p)
        BY <2>0, <3>1, <3>6 DEF OneChance
      <4>2. Once(<<x>>, p)
        BY <3>2, ChancesOf
      <4>3. Once(queue \o <<x>>, p)
        BY <2>0, <3>3, <4>1, <4>2, JoinedChances
      <4>4. Once(queue', p)
        BY <3>5, <4>3
      <4> QED BY <3>1, <3>6, <4>1, <4>4 DEF OneChance, Once, Never, Leads
    <3>7. CASE p # q
      <4>1. Never(<<x>>, p)
        BY <3>2, <3>4, <3>7, ChancesOf
      <4>2. Once(queue \o <<x>>, p) /\ (Never(queue, p) => Never(queue \o <<x>>, p))
        BY <2>0, <3>3, <4>1, JoinedChances DEF OneChance
      <4>3. Once(queue', p) /\ (Never(queue, p) => Never(queue', p))
        BY <3>5, <4>2
      <4>4. p \in seen' <=> p \in seen
        BY <3>1, <3>7
      <4> QED BY <2>0, <3>1, <4>3, <4>4 DEF OneChance, Once, Never, Leads
    <3> QED BY <3>6, <3>7
  <2>3. CASE \E i \in Positions, ok \in BOOLEAN : EvalEnd(i, ok) \/ EvalAborts(i, ok)
    <3> PICK i \in Positions, ok \in BOOLEAN : EvalEnd(i, ok) \/ EvalAborts(i, ok) BY <2>3
    <3>1. PICK said \in Seq(Events) : Publish(said) /\ Never(said, p)
      BY SaidTyped, SaidLeadsNowhere DEF EvalEnd, EvalAborts
    <3>2. /\ Once(queue \o said, p) /\ (Never(queue, p) => Never(queue \o said, p))
      BY <2>0, <3>1, JoinedChances DEF OneChance
    <3>3. Once(queue', p) /\ (Never(queue, p) => Never(queue', p))
      BY <3>1, <3>2 DEF Publish
    <3>4. UNCHANGED <<seen, busy, buys>>
      BY DEF EvalEnd, EvalAborts
    <3> QED BY <2>0, <3>3, <3>4, UnmovedKeepsChance
  <2>4. CASE \E executed \in BOOLEAN : Crash(executed)
    <3>1. seen' = {} /\ queue' = <<>> /\ busy' = {} /\ buys'[p] = 0
      BY <2>4 DEF Crash
    <3> QED BY <3>1 DEF OneChance, Once, Never
  <2> QED
    BY <2>1, <2>2, <2>3, <2>4, DispatchKeepsChance, AnswerKeepsChance DEF DexNext, Monitor
<1> QED BY <1>1, <1>2, <1>3 DEF OneBuyInv

\* No pair has been seen yet.
LEMMA InitOneBuyInv == DexInit => OneBuyInv
<1> SUFFICES ASSUME DexInit PROVE OneBuyInv
  OBVIOUS
<1>1. SaleInv /\ BusTypes
  BY InitSaleInv, InitBusTypes
<1> QED BY <1>1 DEF DexInit, OneBuyInv, OneChance, Once, Never

\* For every set of pairs, however locks expire, the stream and the polling
\* alternate and Nansen answers: as long as the entry threshold is above what a
\* rug deployer's pair can score, no pair is bought twice in a life of the
\* process.  The risk arbiter's lock, which expires, is not needed for it.
THEOREM BoughtOnce == EntryMin > 505 => (DexSpec => []OneBuyPerPair)
<1> SUFFICES ASSUME EntryMin > 505 PROVE DexSpec => []OneBuyPerPair
  OBVIOUS
<1>1. OneBuyInv /\ [DexNext]_dexVars => OneBuyInv'
  BY NextOneBuyInv
<1>2. OneBuyInv => OneBuyPerPair
  BY DEF OneBuyInv, OneChance, OneBuyPerPair
<1> QED BY <1>1, <1>2, InitOneBuyInv, PTL DEF DexSpec
=============================================================================
