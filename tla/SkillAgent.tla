----------------------------- MODULE SkillAgent -----------------------------
(* Two threads trade through one OrderExecutor and one RiskSupervisor: the   *)
(* agent that calls the skill functions, and the worker of SignalIngress.    *)
(* Neither holds a lock. The executor validates against a count of fills and *)
(* a snapshot of positions that both threads and the account refresh change. *)
(*                                                                           *)
(* Sizes, prices, confidences and the ranking are left out: a constraint     *)
(* that depends on them may block any order.                      *)
EXTENDS SignalIngress, Integers, FiniteSets

CONSTANTS Coins,
          MaxFills,       \* risk.max_fills_per_coin
          FillsCeiling,   \* what Fathom may raise it to for one signal
          MaxConcurrent,  \* risk.max_concurrent_positions, 0: no limit
          DetMax,         \* execution.deterministic_max_positions
          Regimes,        \* the BtcRegime values that occur, "neutral" one of them
          MaxClears       \* bound on clears of a count the venue contradicts

ASSUME FillsAssumption == MaxFills \in Nat /\ FillsCeiling \in Nat /\ MaxFills <= FillsCeiling
ASSUME AgentAssumption == Coins # {} /\ "neutral" \in Regimes

VARIABLES
  venue,    \* [Coins -> "flat", "long" or "short"]
  fills,    \* [Coins -> Nat], orders the venue filled since the coin was flat
  entries,  \* RiskSupervisor._open_entries
  known,    \* RiskSupervisor.state.positions
  seen,     \* the account state the agent has fetched and not applied
  regime,   \* OrderExecutor._last_regime
  touched,  \* _deterministic_submitted_this_scan
  job,      \* [Threads -> what the thread is doing]
  cleared,  \* history: counts cleared while the venue held the coin
  unseen    \* history: fills whose answer said that they failed
agentVars == <<venue, fills, entries, known, seen, regime, touched, job, cleared, unseen>>
vars == <<ingressVars, agentVars>>

Threads == {"agent", "worker"}
Sides == {"long", "short"}
Jobs == [at : {"idle", "scan", "account", "applied", "ranked", "checked", "fallback",
               "accepted", "failed", "closed"},
         coin : Coins, side : Sides]
AnyCoin == CHOOSE c \in Coins : TRUE
Idle == [at |-> "idle", coin |-> AnyCoin, side |-> "long"]
Flat == [c \in Coins |-> "flat"]
None == [c \in Coins |-> 0]

Init ==
  /\ IngressInit
  /\ venue = Flat /\ known = Flat /\ seen = Flat
  /\ fills = None /\ entries = None /\ cleared = None /\ unseen = None
  /\ regime = "neutral"
  /\ touched = {}
  /\ job = [t \in Threads |-> Idle]

TypeOK ==
  /\ IngressTypeOK
  /\ {venue, known, seen} \subseteq [Coins -> Sides \cup {"flat"}]
  /\ {fills, entries, cleared, unseen} \subseteq [Coins -> Nat]
  /\ regime \in Regimes /\ touched \subseteq Coins
  /\ job \in [Threads -> Jobs]

Goto(t, at) == job' = [job EXCEPT ![t].at = at]
Order(t, at, c, s) == job' = [job EXCEPT ![t] = [at |-> at, coin |-> c, side |-> s]]
Finish(t) == job' = [job EXCEPT ![t] = Idle]
-----------------------------------------------------------------------------
\* constraints.py, over the snapshot and the count of the moment.
FillsLeftInclusive(c, cap) == entries[c] <= cap

FillsLeft(c, cap) == entries[c] < cap

Open(positions) == {c \in Coins : positions[c] # "flat"}
On(side) == Cardinality({c \in Coins : known[c] = side})

SlotLeft(c) ==
  MaxConcurrent > 0 /\ known[c] = "flat" => Cardinality(Open(known)) < MaxConcurrent

LongsAllowed(side) == ~(regime = "bearish" /\ side = "long")

ShortsAllowed(side) ==
  /\ side = "short" /\ regime = "bullish" => On("short") <= On("long") + 1
  /\ side = "short" /\ regime = "neutral" => On("short") <= On("long") + 2

\* validate_all; the kill switch, confidence, leverage, size, market,
\* freshness, squeeze and anomaly constraints may block anything, and so may
\* the venue minimum before them.
Allowed(c, side, cap) ==
  FillsLeft(c, cap) /\ SlotLeft(c) /\ LongsAllowed(side) /\ ShortsAllowed(side)

\* execute_signal up to the submission.
Checked(t, c, side, cap) == Allowed(c, side, cap) /\ Order(t, "checked", c, side)

\* An order on the other side of a position reduces, closes or turns it.
AfterFill(c, side) == IF venue[c] \in {"flat", side} THEN {side} ELSE Sides \cup {"flat"}

Filled(c, side, hidden) ==
  \E after \in AfterFill(c, side) :
    /\ venue' = [venue EXCEPT ![c] = after]
    /\ fills' = [fills EXCEPT ![c] = IF after = "flat" THEN 0 ELSE @ + 1]
    /\ cleared' = [cleared EXCEPT ![c] = IF after = "flat" THEN 0 ELSE @]
    /\ unseen' = [unseen EXCEPT ![c] = IF after = "flat" THEN 0
                                       ELSE @ + hidden]

NotFilled == UNCHANGED <<venue, fills, cleared, unseen>>

\* The last answer; the side of the order has no more bearing.
Answered(t, at) == Order(t, at, job[t].coin, "long")

\* submit_trade, first through Senpi: a refusal is final, any other failure
\* falls back to DegenClaw, a time-out that hides a fill as well. Without a
\* Senpi backend the order goes to DegenClaw at once.
AskSenpi(t) ==
  LET j == job[t]
  IN /\ j.at = "checked"
     /\ \/ Filled(j.coin, j.side, 0) /\ Answered(t, "accepted") /\ UNCHANGED faults
        \/ NotFilled /\ UNCHANGED faults /\ (Answered(t, "failed") \/ Goto(t, "fallback"))
        \/ Fault /\ Filled(j.coin, j.side, 1) /\ Goto(t, "fallback")

\* A time-out is answered like a refusal and may hide a fill; an accepted job
\* may never be executed.
AskDegen(t) ==
  LET j == job[t]
  IN /\ j.at = "fallback"
     /\ \/ Filled(j.coin, j.side, 0) /\ Answered(t, "accepted") /\ UNCHANGED faults
        \/ NotFilled /\ Answered(t, "failed") /\ UNCHANGED faults
        \/ Fault /\ Filled(j.coin, j.side, 1) /\ Answered(t, "failed")
        \/ Fault /\ NotFilled /\ Answered(t, "accepted")

Submit(t) ==
  /\ AskSenpi(t) \/ AskDegen(t)
  /\ UNCHANGED <<claims, claimed, refused, queue, worker, attempts,
                 entries, known, seen, regime, touched>>

\* record_coin_entry, after the answer.
Recorded(c) == entries' = [entries EXCEPT ![c] = @ + 1]

\* Counts dropped by record_coin_close or the sync, with their history.
Dropped(coins) ==
  /\ entries' = [c \in Coins |-> IF c \in coins THEN 0 ELSE entries[c]]
  /\ cleared' = [c \in Coins |-> IF c \in coins /\ entries[c] > 0 /\ fills[c] > 0
                                 THEN cleared[c] + 1 ELSE cleared[c]]
  /\ \A c \in Coins : cleared'[c] <= MaxClears
-----------------------------------------------------------------------------
\* get_account_info and scan_opportunities ask the venue ...
Fetch ==
  /\ job["agent"].at = "idle"
  /\ seen' = venue
  /\ \E kind \in {"account", "scan"} : Goto("agent", kind)
  /\ UNCHANGED <<ingressVars, venue, fills, entries, known, regime, touched, cleared, unseen>>

\* ... and update_equity applies the answer: counts of coins it does not show
\* are dropped, whatever the other thread has recorded meanwhile.
Apply ==
  /\ job["agent"].at \in {"account", "scan"}
  /\ known' = seen /\ seen' = Flat
  /\ Dropped(Coins \ Open(seen))
  /\ IF job["agent"].at = "scan"
       THEN Goto("agent", "applied") /\ touched' = {}
       ELSE Finish("agent") /\ UNCHANGED touched
  /\ UNCHANGED <<ingressVars, venue, fills, regime, unseen>>

\* The rest of a scan: the regime, the signals; any of it may raise.
Rank ==
  /\ job["agent"].at = "applied"
  /\ \/ regime' \in Regimes /\ Goto("agent", "ranked")
     \/ UNCHANGED regime /\ Finish("agent")
  /\ UNCHANGED <<ingressVars, venue, fills, entries, known, seen, touched, cleared, unseen>>

\* check_regime, a function of its own: the executor's regime between two scans.
CheckRegime ==
  /\ job["agent"].at = "idle"
  /\ regime' \in Regimes \ {regime}
  /\ UNCHANGED <<ingressVars, venue, fills, entries, known, seen, touched, job, cleared, unseen>>

\* The strategies and the layers behind them may leave any signals.
Signals == (Coins \ touched) \X Sides

\* What Fathom's answer, clamped, may make of the cap for one signal.
FathomCaps == MaxFills..FillsCeiling

\* _try_deterministic_execute: at most one signal of the scan. An add-on needs
\* Fathom's approval, and Fathom may raise the cap of fills for this signal.
Deterministic ==
  /\ job["agent"].at = "ranked"
  /\ \/ \E signal \in Signals, cap \in FathomCaps :
          /\ Cardinality(Open(known)) < DetMax
          /\ Checked("agent", signal[1], signal[2], cap)
     \/ Finish("agent")
  /\ UNCHANGED <<ingressVars, venue, fills, entries, known, seen, regime, touched, cleared, unseen>>

\* execute_trade, directed by the agent's planner.
Execute ==
  /\ job["agent"].at = "idle"
  /\ \E c \in Coins \ touched, side \in Sides : Checked("agent", c, side, MaxFills)
  /\ UNCHANGED <<ingressVars, venue, fills, entries, known, seen, regime, touched, cleared, unseen>>

\* The end of execute_signal and of its caller in the agent's thread; what raises
\* after the count skips the caller's record.
AgentRecord ==
  LET j == job["agent"]
  IN /\ j.at \in {"accepted", "failed"}
     /\ IF j.at = "accepted"
          THEN Recorded(j.coin) /\ touched' \in {touched, touched \cup {j.coin}}
          ELSE UNCHANGED <<entries, touched>>
     /\ Finish("agent")
     /\ UNCHANGED <<ingressVars, venue, fills, known, seen, regime, cleared, unseen>>

Flattened(c) ==
  /\ venue' = [venue EXCEPT ![c] = "flat"]
  /\ fills' = [fills EXCEPT ![c] = 0]
  /\ cleared' = [cleared EXCEPT ![c] = 0]
  /\ unseen' = [unseen EXCEPT ![c] = 0]

\* close_position: submit_close, whose job may be accepted and never executed.
\* A close that fails changes nothing; one whose answer is lost is VenueCloses.
Close ==
  /\ job["agent"].at = "idle"
  /\ \E c \in Coins :
       /\ Order("agent", "closed", c, "long")
       /\ \/ Flattened(c) /\ UNCHANGED faults
          \/ Fault /\ NotFilled
  /\ UNCHANGED <<claims, claimed, refused, queue, worker, attempts,
                 entries, known, seen, regime, touched>>

\* ... and record_coin_close, after the answer.
CloseRecord ==
  /\ job["agent"].at = "closed"
  /\ Dropped({job["agent"].coin})
  /\ Finish("agent")
  /\ UNCHANGED <<ingressVars, venue, fills, known, seen, regime, touched, unseen>>
-----------------------------------------------------------------------------
\* _process_one from execute_signal on.
Try(i) ==
  /\ i \in worker /\ job["worker"].at = "idle"
  /\ attempts' = [attempts EXCEPT ![i] = @ + 1]
  /\ \/ \E c \in Coins, side \in Sides : Checked("worker", c, side, MaxFills)
     \/ Goto("worker", "failed")
  /\ UNCHANGED <<claims, claimed, refused, queue, worker, faults, venue, fills,
                 entries, known, seen, regime, touched, cleared, unseen>>

\* ... and its end: what raises after the count makes the signal an error.
WorkerRecord(i) ==
  LET j == job["worker"]
  IN /\ i \in worker /\ j.at \in {"accepted", "failed"}
     /\ IF j.at = "accepted"
          THEN Recorded(j.coin) /\ \E status \in Settled : SettleSignal(i, status)
          ELSE UNCHANGED entries /\ SettleSignal(i, "failed")
     /\ Finish("worker")
     /\ UNCHANGED <<attempts, venue, fills, known, seen, regime, touched, cleared, unseen>>

\* The venue closes a position by itself: stop, target or liquidation.
VenueCloses ==
  /\ \E c \in Open(venue) : Flattened(c)
  /\ UNCHANGED <<ingressVars, entries, known, seen, regime, touched, job>>

\* A crash and a start from nothing: the counts are not persisted.
Restart ==
  /\ Fault
  /\ IngressLost
  /\ entries' = None
  /\ cleared' = [c \in Coins |-> IF fills[c] > 0 THEN cleared[c] + 1 ELSE cleared[c]]
  /\ \A c \in Coins : cleared'[c] <= MaxClears
  /\ known' = Flat /\ seen' = Flat
  /\ regime' = "neutral" /\ touched' = {}
  /\ job' = [t \in Threads |-> Idle]
  /\ UNCHANGED <<venue, fills, unseen>>

Ingress ==
  /\ \E i \in Ids : Claim(i) \/ Enqueue(i) \/ Release(i)
  /\ UNCHANGED agentVars

Worker ==
  \/ /\ \/ TakeSignal
        \/ job["worker"].at = "idle" /\ \E i \in Ids : GiveUp(i)
     /\ UNCHANGED agentVars
  \/ \E i \in Ids : Try(i) \/ WorkerRecord(i)
  \/ Submit("worker")

Agent == \/ Fetch \/ Apply \/ Rank \/ CheckRegime \/ Deterministic \/ Execute \/ Close
         \/ Submit("agent") \/ AgentRecord \/ CloseRecord

Next == Ingress \/ Worker \/ Agent \/ VenueCloses \/ Restart

Spec == Init /\ [][Next]_vars

\* The worker thread runs for as long as the process does.
FairSpec == Spec /\ WF_vars(Worker)
-----------------------------------------------------------------------------
\* max_fills_per_coin is enforced by a count that is read before an order and
\* written after it, by two threads, and dropped by a sync that may be older
\* than the fills it drops (supervisor.py:119, constraints.py:143). What is
\* left of the cap: one order more per count, one count more per dropped one,
\* and the fills that were answered as failures.
FillsBounded ==
  \A c \in Coins :
    fills[c] <= (FillsCeiling + 1) * (cleared[c] + 1) + unseen[c]

\* A signal that was queued does not stay in the queue or with the worker
\* (http_ingress.py:112): the executor gets it, it is given up, or a crash
\* takes it.
QueuedAreTried == \A i \in Ids : i \in ToSet(queue) ~> i \notin ToSet(queue) \cup worker

\* However often a signal is sent again, in whatever order claims, full
\* queues, failed statements and crashes come, it enters the executor at most
\* once and keeps its outcome (persistence.py:160).
Stage(i) ==
  CASE claims[i] = "absent" -> "unknown"
    [] claims[i] = "queued" /\ attempts[i] = 0 -> "taken"
    [] claims[i] = "queued" /\ attempts[i] > 0 -> "tried"
    [] OTHER -> "settled"
Promise == INSTANCE OnceOnly WITH stage <- [i \in Ids |-> Stage(i)]
ImplementsOnceOnly == Promise!Spec
=============================================================================
