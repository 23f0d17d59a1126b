------------------------------- MODULE Retro --------------------------------
(***************************************************************************)
(* The retrospective task: the loop that schedules it (src/retro/loop.py), *)
(* one run (src/fathom/retrospective.py) with its gate, advisor, applier   *)
(* and the evaluation of earlier changes (src/retro, src/intelligence),    *)
(* the journal rows it keeps (src/db/decision_journal.py), the hot reload  *)
(* and the registry of configurations (src/config_intelligence).           *)
(*                                                                         *)
(* pc is the await at which the task is suspended.  The rest of the        *)
(* process goes on meanwhile: trades close, the operator edits config.yaml,  *)
(* the process dies.  Any journal call and the model may raise.            *)
(*                                                                         *)
(* Settings are counted in notches (a notch of a size is one reduction by  *)
(* a factor in (0, 1)), profit factors are what the comparisons make of    *)
(* them, prompts and messages are left out.  The journal is connected.     *)
(***************************************************************************)
EXTENDS Integers, FiniteSets

CONSTANTS
  Coins, Strategies,
  Factory,        \* config.yaml as deployed
  Proposed,       \* the actions the advisor may propose, of those below
  Deltas,         \* the value of raise_min_signal_score, in notches
  ScoreRange,     \* bound of the model on the score
  MultFloor,      \* fathom_acevault_max_mult_floor
  DeepEvery, ShallowEvery, InitialDelay, CatchUp,   \* in steps of the clock
  Cooldown,       \* cooldown_minutes_after_change
  MinTrades,      \* min_closing_trades and min_trades_before_auto_apply
  WindowRows,     \* the most closed trades one look-back window can hold
  MinCheckpoint, MaxCheckpoint, Timeout,  \* evaluation checkpoints, time-out
  HotReloads,     \* reload_runtime_config_after_apply
  Faults,         \* whether journal and model calls may raise
  Crashes,        \* whether the process may die
  MaxTrades, MaxChanges   \* bounds of the model

DEFENSIVE_ACTIONS ==
  {"disable_coin", "reduce_position_size", "lower_max_concurrent_positions",
   "reduce_fathom_acevault_max_mult"}

LOW_RISK_ACTIONS == DEFENSIVE_ACTIONS \cup {"raise_min_signal_score"}

ASSUME RetroConstants ==
  /\ \A n \in {DeepEvery, ShallowEvery} : n \in Nat \ {0}
  /\ \A n \in {InitialDelay, CatchUp, Cooldown, MinTrades, WindowRows, Timeout,
               MinCheckpoint, MaxCheckpoint, MaxTrades, MaxChanges, MultFloor} : n \in Nat
  /\ HotReloads \in BOOLEAN /\ Faults \in BOOLEAN /\ Crashes \in BOOLEAN
  /\ Deltas \subseteq {-1, 0, 1} /\ ScoreRange \subseteq Int
  /\ "mc_recovery" \in Strategies
  /\ Proposed \subseteq LOW_RISK_ACTIONS
  /\ Factory \in [off : SUBSET Coins, size : [Strategies -> Nat],
                  score : ScoreRange, slots : Nat, mult : Nat]

VARIABLES
  unified,     \* retro.enabled: the unified loop, else the six-hour one
  pc,          \* the await at which the task is suspended
  mode,        \* "deep" or "shallow"
  due,         \* time until the next deep and the next shallow run
  skipNext,    \* skip_next_shallow
  lastRun,     \* age of the newest fathom_retrospective_runs row
  file,        \* the settings in config.yaml
  live,        \* the settings the process runs with
  holder,      \* the configuration version decisions are stamped with
  closed,      \* closed trades in the journal
  pending,     \* learning_change_records still without a verdict
  lastApply,   \* age of the newest learning_change_records row
  run,         \* locals of a run: closed trades in the window, plan, kill flag
  changes,     \* history: how many changes were applied
  rest,        \* history: age of the last applied change
  noted,       \* history: the last applied change has its row
  registered   \* history: the last attempt to register the settings succeeded

schedule == <<pc, mode, due, skipNext, run>>
settings == <<file, live>>
registry == <<holder, registered>>
records  == <<pending, lastApply>>
history  == <<changes, rest, noted>>
vars == <<unified, schedule, lastRun, settings, registry, closed, records, history>>

None == -1
NoPlan == [action |-> "no_action"]
NoVersion == [off |-> {}, size |-> <<>>, score |-> 0, slots |-> 0, mult |-> 0]
IdleRun == [count |-> 0, plan |-> NoPlan, killed |-> FALSE]

Lesser(x, y)  == IF x < y THEN x ELSE y
Greater(x, y) == IF x > y THEN x ELSE y

Older(age, limit) == IF age = None THEN None ELSE Lesser(age + 1, limit)

-----------------------------------------------------------------------------
(* The actions an advisor may propose and what the applier makes of them.  *)

Plans ==
  {[action |-> "disable_coin", of |-> c] : c \in Coins}
    \cup [action : {"reduce_position_size"}, of : Strategies, factor : BOOLEAN]
    \cup {[action |-> "raise_min_signal_score", by |-> d] : d \in Deltas}
    \cup {[action |-> "lower_max_concurrent_positions"], [action |-> "reduce_fathom_acevault_max_mult"]}

\* The section is named by the value before the target: a numeric value, the
\* factor, names neither acevault nor growi and leaves mc_recovery.
Section(plan) == IF plan.factor THEN "mc_recovery" ELSE plan.of

Patched(s, plan) ==
  CASE plan.action = "disable_coin" -> [s EXCEPT !.off = @ \cup {plan.of}]
    [] plan.action = "reduce_position_size" ->
         [s EXCEPT !.size[Section(plan)] = IF @ > 0 THEN @ - 1 ELSE 0]
    [] plan.action = "raise_min_signal_score" ->
         [s EXCEPT !.score = IF @ + plan.by \in ScoreRange THEN @ + plan.by ELSE @]
    [] plan.action = "lower_max_concurrent_positions" ->
         [s EXCEPT !.slots = IF @ > 1 THEN @ - 1 ELSE @]
    [] plan.action = "reduce_fathom_acevault_max_mult" -> [s EXCEPT !.mult = @ - 1]

\* compute_fathom_acevault_max_mult_patch gives up where the floor leaves
\* nothing to reduce; the other actions apply even if they change nothing.
Effective(s, plan) ==
  plan.action = "reduce_fathom_acevault_max_mult" => s.mult > MultFloor

-----------------------------------------------------------------------------
(* The schedule.                                                           *)

Fresh == [deep |-> DeepEvery, shallow |-> ShallowEvery]
Steady == [deep |-> DeepEvery, shallow |-> DeepEvery]

\* compute_next_retrospective_wait_seconds
FirstWait(age) ==
  IF age = None THEN InitialDelay
  ELSE IF age >= DeepEvery THEN CatchUp
  ELSE Greater(CatchUp, DeepEvery - age)

\* The task sleeps again.  The unified loop has set its due times from the
\* moment the run began; the six-hour loop waits a whole interval now.
EndRun(skipped) ==
  /\ pc' = "sleep"
  /\ due' = IF unified THEN due ELSE Steady
  /\ skipNext' = IF mode = "deep" /\ unified THEN skipped ELSE skipNext
  /\ run' = IdleRun
  /\ UNCHANGED mode

\* An exception that leaves the run ends the unified loop for good; the
\* six-hour loop logs it and waits.
RunRaises ==
  /\ Faults
  /\ pc' = IF unified THEN "dead" ELSE "sleep"
  /\ due' = IF unified THEN due ELSE Steady
  /\ run' = IdleRun
  /\ UNCHANGED <<mode, skipNext>>

Proceed(to) == pc' = to /\ UNCHANGED <<mode, due, skipNext>>

Init ==
  /\ unified \in BOOLEAN
  /\ pc = "down" /\ mode = "deep" /\ due = Fresh /\ skipNext = FALSE /\ run = IdleRun
  /\ lastRun = None
  /\ file = Factory /\ live = Factory
  /\ holder = NoVersion /\ registered = FALSE
  /\ closed = 0 /\ pending = {} /\ lastApply = None
  /\ changes = 0 /\ rest = Cooldown /\ noted = TRUE

\* register_active_version: the row of these settings, found or inserted, is
\* the active version from now on.
Register(v) == holder' = v /\ registered' = TRUE

RegistrationFails == Faults /\ registered' = FALSE /\ UNCHANGED holder

\* build_context: read the file, register it.
Start ==
  /\ pc = "down"
  /\ live' = file
  /\ Register(file) \/ RegistrationFails
  /\ Proceed("first")
  /\ UNCHANGED <<unified, run, lastRun, file, closed, records, history>>

\* What a failing query may be taken for, next to its answer.
Answers(right, fallback) == {right} \cup (IF Faults THEN {fallback} ELSE {})

\* The loop's first question, how old the newest run is; a failing journal
\* only means no answer.
AgeAsked == Answers(lastRun, None)

First ==
  /\ pc = "first"
  /\ \E age \in AgeAsked :
       due' = [deep |-> FirstWait(age), shallow |-> FirstWait(age)]
  /\ pc' = "sleep"
  /\ UNCHANGED <<unified, mode, skipNext, run, lastRun, settings, registry, closed, records, history>>

DeepDue == due.deep = 0
ShallowDue == due.shallow = 0

BeginRun(m) ==
  /\ pc' = "evaluate" /\ mode' = m /\ run' = run /\ skipNext' = skipNext

BeginDeep ==
  /\ pc = "sleep" /\ DeepDue
  /\ BeginRun("deep")
  /\ due' = Fresh
  /\ UNCHANGED <<unified, lastRun, settings, registry, closed, records, history>>

\* Mutant: the shallow run is looked at first.
ShallowOverDeep ==
  /\ pc = "sleep" /\ ShallowDue
  /\ due' = [due EXCEPT !.shallow = ShallowEvery]
  /\ BeginRun("shallow")
  /\ UNCHANGED <<unified, lastRun, settings, registry, closed, records, history>>

BeginShallow ==
  /\ pc = "sleep" /\ ShallowDue /\ ~DeepDue
  /\ due' = [due EXCEPT !.shallow = ShallowEvery]
  /\ IF skipNext
     THEN skipNext' = FALSE /\ UNCHANGED <<pc, mode, run>>
     ELSE BeginRun("shallow")
  /\ UNCHANGED <<unified, lastRun, settings, registry, closed, records, history>>

-----------------------------------------------------------------------------
(* One run.                                                                *)

\* A row is looked at once enough trades closed since what it says was the
\* count when it was applied.
Due(row) == closed - row.at >= MinCheckpoint

\* Rows that get a verdict even if the profit factor says nothing.
Forced(row) == Due(row) /\ (closed - row.at >= MaxCheckpoint \/ row.age >= Timeout)

\* evaluate_pending_learning_changes: a row with a valid baseline is judged
\* improved or worsened on its profit factor; errors end the evaluation, not
\* the run.
Evaluate ==
  /\ pc = "evaluate"
  /\ \E judged \in SUBSET {row \in pending : Due(row)} :
       /\ \A row \in judged : row.baseline \/ Forced(row)
       /\ Faults \/ {row \in pending : Forced(row)} \subseteq judged
       /\ pending' = pending \ judged
  /\ Proceed("read")
  /\ UNCHANGED <<unified, run, lastRun, settings, registry, closed, lastApply, history>>

\* How many of the closed trades fall into the look-back window.
WindowCounts == 0..Lesser(closed, WindowRows)

\* The market (with a fallback) and the decisions of the window.
Read ==
  /\ pc = "read"
  /\ \/ /\ \E n \in WindowCounts : run' = [run EXCEPT !.count = n]
        /\ Proceed("gate")
     \/ RunRaises
  /\ UNCHANGED <<unified, lastRun, settings, registry, closed, records, history>>

CoolingDown == lastApply # None /\ lastApply < Cooldown

\* evaluate_retro_skip
SkipsAdvisor(cooling, healthy) == cooling \/ (run.count >= MinTrades /\ healthy)

\* The cooldown query, which may fail unnoticed, and the gate.
Gate ==
  /\ pc = "gate"
  /\ \E cooling \in Answers(CoolingDown, FALSE), healthy \in BOOLEAN :
       IF SkipsAdvisor(cooling, healthy)
       THEN EndRun(TRUE)
       ELSE Proceed("ask") /\ UNCHANGED run
  /\ UNCHANGED <<unified, lastRun, settings, registry, closed, records, history>>

\* Up to four answers of the model are tried, then one that proposes nothing;
\* low confidence counts as nothing too.
Advice == {NoPlan} \cup (IF changes < MaxChanges THEN {p \in Plans : p.action \in Proposed} ELSE {})

\* Earlier runs and the advisor.
Ask ==
  /\ pc = "ask"
  /\ \/ /\ \E plan \in Advice : run' = [run EXCEPT !.plan = plan]
        /\ Proceed("store")
     \/ Faults /\ EndRun(FALSE)
     \/ RunRaises
  /\ UNCHANGED <<unified, lastRun, settings, registry, closed, records, history>>

InsertRun == lastRun' = 0

\* The run's row; then the kill switches are asked and passed on.
Store ==
  /\ pc = "store"
  /\ \/ /\ InsertRun
        /\ \E killed \in BOOLEAN : run' = [run EXCEPT !.killed = killed]
        /\ Proceed("apply")
     \/ RunRaises /\ UNCHANGED lastRun
  /\ UNCHANGED <<unified, settings, registry, closed, records, history>>

\* Mutant: the applier trusts the gate with the cooldown.
TrustsGate ==
  /\ run.plan # NoPlan
  /\ run.count >= MinTrades
  /\ run.killed => run.plan.action \in DEFENSIVE_ACTIONS
  /\ Effective(file, run.plan)

MayApply ==
  /\ run.plan # NoPlan
  /\ run.count >= MinTrades
  /\ run.killed => run.plan.action \in DEFENSIVE_ACTIONS
  /\ ~CoolingDown
  /\ Effective(file, run.plan)

\* merge_into_live_config: config.yaml has every setting, the process keeps
\* only what the file does not mention.
Merged(new) == IF HotReloads THEN new ELSE live

\* From the cooldown query to the next await: the file is patched and saved,
\* and the whole file merged into the settings of the process.
Apply ==
  /\ pc = "apply" /\ MayApply
  /\ file' = Patched(file, run.plan)
  /\ live' = Merged(file')
  /\ changes' = changes + 1 /\ rest' = 0 /\ noted' = FALSE
  /\ Proceed(IF HotReloads THEN "register" ELSE "record")
  /\ UNCHANGED <<unified, run, lastRun, registry, closed, records>>

\* The plan does not pass, or the cooldown query raises, which is swallowed.
Decline ==
  /\ pc = "apply" /\ (Faults \/ ~MayApply)
  /\ EndRun(FALSE)
  /\ UNCHANGED <<unified, lastRun, settings, registry, closed, records, history>>

\* Mutant: what the file says now is registered, not what was merged.
RegistersFile ==
  /\ pc = "register"
  /\ Register(file) \/ RegistrationFails
  /\ Proceed("record")
  /\ UNCHANGED <<unified, run, lastRun, settings, closed, records, history>>

RegisterReload ==
  /\ pc = "register"
  /\ Register(live) \/ RegistrationFails
  /\ Proceed("record")
  /\ UNCHANGED <<unified, run, lastRun, settings, closed, records, history>>

\* The learning record: the number of closed trades in the window, whether
\* the baseline profit factor is positive, and (history) the trades closed.
Row(baseline) ==
  [id |-> changes, at |-> run.count, base |-> closed, age |-> 0, baseline |-> baseline]

\* insert_learning_change; if it raises, the change stays without a row.
Record ==
  /\ pc = "record"
  /\ \/ /\ \E baseline \in BOOLEAN : pending' = pending \cup {Row(baseline)}
        /\ lastApply' = 0 /\ noted' = TRUE
     \/ Faults /\ UNCHANGED <<records, noted>>
  /\ EndRun(FALSE)
  /\ UNCHANGED <<unified, lastRun, settings, registry, closed, changes, rest>>

RunStep ==
  Evaluate \/ Read \/ Gate \/ Ask \/ Store \/ Apply \/ Decline \/ RegisterReload \/ Record

-----------------------------------------------------------------------------
(* Everything else.                                                        *)

Tick ==
  /\ due' = [deep |-> Greater(due.deep - 1, 0), shallow |-> Greater(due.shallow - 1, 0)]
  /\ lastRun' = Older(lastRun, DeepEvery)
  /\ lastApply' = Older(lastApply, Cooldown)
  /\ pending' = {[row EXCEPT !.age = Lesser(@ + 1, Timeout)] : row \in pending}
  /\ rest' = Lesser(rest + 1, Cooldown)
  /\ UNCHANGED <<unified, pc, mode, skipNext, run, settings, registry, closed, changes, noted>>

TradeCloses ==
  /\ closed < MaxTrades
  /\ closed' = closed + 1
  /\ UNCHANGED <<unified, schedule, lastRun, settings, registry, records, history>>

\* The operator puts the deployed config.yaml back.
PutBack ==
  /\ file # Factory /\ file' = Factory
  /\ UNCHANGED <<unified, schedule, lastRun, live, registry, closed, records, history>>

Crash ==
  /\ Crashes /\ pc # "down"
  /\ pc' = "down" /\ mode' = "deep" /\ due' = Fresh /\ skipNext' = FALSE /\ run' = IdleRun
  /\ holder' = NoVersion /\ registered' = FALSE
  /\ UNCHANGED <<unified, lastRun, settings, closed, records, history>>

Next ==
  \/ Start \/ First \/ BeginDeep \/ BeginShallow \/ RunStep
  \/ Tick \/ TradeCloses \/ PutBack \/ Crash

Spec == Init /\ [][Next]_vars

\* The clock advances, a process that is down is started, and a task that can
\* take a step takes one: every call it awaits ends or raises.
FairSpec ==
  Spec /\ WF_vars(Tick) /\ WF_vars(Start)
       /\ WF_vars(First \/ BeginDeep \/ BeginShallow \/ RunStep)

-----------------------------------------------------------------------------
Settings == [off : SUBSET Coins, size : [Strategies -> Nat], score : ScoreRange, slots : Nat, mult : Nat]
Rows == [id : Nat, at : Nat, base : Nat, age : Nat, baseline : BOOLEAN]
Awaits == {"down", "first", "sleep", "evaluate", "read", "gate", "ask", "store",
           "apply", "register", "record", "dead"}

\* The values of the variables.
TypeOK ==
  /\ unified \in BOOLEAN /\ pc \in Awaits /\ mode \in {"deep", "shallow"}
  /\ due \in [deep : Nat, shallow : Nat] /\ skipNext \in BOOLEAN
  /\ lastRun \in Nat \cup {None} /\ lastApply \in Nat \cup {None}
  /\ file \in Settings /\ live \in Settings
  /\ holder \in Settings \cup {NoVersion}
  /\ closed \in Nat /\ pending \subseteq Rows
  /\ run \in [count : Nat, plan : Plans \cup {NoPlan}, killed : BOOLEAN]
  /\ changes \in Nat /\ rest \in Nat /\ noted \in BOOLEAN /\ registered \in BOOLEAN

\* A decision is stamped with the version of the settings it is made under,
\* except while a reload is being registered and after a registration failed.
StampsAreCurrent ==
  registered /\ pc \notin {"down", "register"} => holder = live

\* The file moves by single notches, a cooldown apart, whatever fails on the
\* way, unless the record of a change was lost (applier, gate, journal).
Stepped == INSTANCE SteppedSettings WITH setting <- file, Pause <- Cooldown
ImplementsSteppedSettings == Stepped!Spec

\* Deep runs go on for ever, whatever shallow runs cost, unless the process
\* keeps dying or an exception ended the unified loop.
DeepRunsRecur ==
  \/ []<>(pc = "evaluate" /\ mode = "deep")
  \/ []<>(pc = "down")
  \/ unified /\ <>[](pc = "dead")
=============================================================================
