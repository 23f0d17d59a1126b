----------------------------- MODULE Retro_proofs -----------------------------
(***************************************************************************)
(* Theorems about the retrospective, for every schedule, cooldown, set of  *)
(* strategies and deployed settings: decisions are stamped with the        *)
(* settings in force, and config.yaml moves by single notches, a cooldown  *)
(* apart, although queries fail, registrations are lost and the process    *)
(* dies between any two awaits.                                            *)
(***************************************************************************)
EXTENDS Retro, TLAPS

-----------------------------------------------------------------------------
(* Types *)

\* A plan of one action, and what it names.
LEMMA PlanKinds ==
  ASSUME NEW p \in Plans
  PROVE  \/ p.action = "disable_coin" /\ p.of \in Coins
         \/ p.action = "reduce_position_size" /\ p.of \in Strategies /\ p.factor \in BOOLEAN
         \/ p.action = "raise_min_signal_score" /\ p.by \in Deltas
         \/ p.action = "lower_max_concurrent_positions"
         \/ p.action = "reduce_fathom_acevault_max_mult"
BY DEF Plans

\* One notch of the settings, from what the plan names.
LEMMA PatchSteps ==
  ASSUME NEW s \in Settings, NEW p \in Plans, Effective(s, p)
  PROVE  /\ Patched(s, p) \in Settings
         /\ Stepped!OneNotch(s, Patched(s, p))
<1> USE RetroConstants
<1>1. CASE p.action = "disable_coin" /\ p.of \in Coins
  <2>1. Patched(s, p) = [s EXCEPT !.off = @ \cup {p.of}]
    BY <1>1 DEF Patched
  <2>2. Patched(s, p) \in Settings
    BY <1>1, <2>1 DEF Settings
  <2>3. \E c \in Coins : Patched(s, p) = [s EXCEPT !.off = @ \cup {c}]
    BY <1>1, <2>1
  <2> QED BY <2>2, <2>3 DEF Stepped!OneNotch
<1>2. CASE p.action = "reduce_position_size" /\ p.of \in Strategies /\ p.factor \in BOOLEAN
  <2> DEFINE g == Section(p)
  <2>1. g \in Strategies
    BY <1>2 DEF Section
  <2>2. Patched(s, p) = [s EXCEPT !.size[g] = IF @ > 0 THEN @ - 1 ELSE 0]
    BY <1>2 DEF Patched
  <2> HIDE DEF g
  <2>3. CASE s.size[g] > 0
    <3>1. Patched(s, p) = [s EXCEPT !.size[g] = @ - 1]
      BY <2>1, <2>2, <2>3 DEF Settings
    <3>2. Patched(s, p) \in Settings
      BY <2>1, <2>3, <3>1 DEF Settings
    <3>3. \E h \in Strategies : Patched(s, p) = [s EXCEPT !.size[h] = @ - 1]
      BY <2>1, <3>1
    <3> QED BY <3>2, <3>3 DEF Stepped!OneNotch
  <2>4. CASE ~(s.size[g] > 0)
    <3>1. s.size[g] = 0
      BY <2>1, <2>4 DEF Settings
    <3>2. Patched(s, p) = s
      BY <2>1, <2>2, <3>1 DEF Settings
    <3> QED BY <3>2 DEF Stepped!OneNotch
  <2> QED BY <2>3, <2>4
<1>3. CASE p.action = "raise_min_signal_score" /\ p.by \in Deltas
  <2>1. Patched(s, p) = [s EXCEPT !.score = IF @ + p.by \in ScoreRange THEN @ + p.by ELSE @]
    BY <1>3 DEF Patched
  <2>2. p.by \in {-1, 0, 1} /\ s.score \in Int
    BY <1>3 DEF Settings
  <2>3. CASE s.score + p.by \in ScoreRange
    <3>1. Patched(s, p) = [s EXCEPT !.score = s.score + p.by]
      BY <2>1, <2>3 DEF Settings
    <3>2. Patched(s, p) \in Settings
      BY <2>3, <3>1 DEF Settings
    <3>3. CASE p.by = 0
      <4>1. Patched(s, p) = s
        BY <2>2, <3>1, <3>3 DEF Settings
      <4> QED BY <3>2, <4>1 DEF Stepped!OneNotch
    <3>4. CASE p.by = 1
      BY <3>1, <3>2, <3>4 DEF Stepped!OneNotch
    <3>5. CASE p.by = -1
      <4>1. Patched(s, p) = [s EXCEPT !.score = @ - 1]
        BY <2>2, <3>1, <3>5
      <4> QED BY <3>2, <4>1 DEF Stepped!OneNotch
    <3> QED BY <2>2, <3>3, <3>4, <3>5
  <2>4. CASE s.score + p.by \notin ScoreRange
    <3>1. Patched(s, p) = s
      BY <2>1, <2>4 DEF Settings
    <3> QED BY <3>1 DEF Stepped!OneNotch
  <2> QED BY <2>3, <2>4
<1>4. CASE p.action = "lower_max_concurrent_positions"
  <2>1. Patched(s, p) = [s EXCEPT !.slots = IF @ > 1 THEN @ - 1 ELSE @]
    BY <1>4 DEF Patched
  <2>2. CASE s.slots > 1
    <3>1. Patched(s, p) = [s EXCEPT !.slots = @ - 1]
      BY <2>1, <2>2 DEF Settings
    <3> QED BY <2>2, <3>1 DEF Settings, Stepped!OneNotch
  <2>3. CASE ~(s.slots > 1)
    <3>1. Patched(s, p) = s
      BY <2>1, <2>3 DEF Settings
    <3> QED BY <3>1 DEF Stepped!OneNotch
  <2> QED BY <2>2, <2>3
<1>5. CASE p.action = "reduce_fathom_acevault_max_mult"
  <2>1. Patched(s, p) = [s EXCEPT !.mult = @ - 1] /\ s.mult > MultFloor
    BY <1>5 DEF Patched, Effective
  <2> QED BY <2>1 DEF Settings, Stepped!OneNotch
<1> QED BY <1>1, <1>2, <1>3, <1>4, <1>5, PlanKinds

\* Ages and counters stay natural numbers.
LEMMA Naturals ==
  ASSUME NEW x \in Nat, NEW y \in Nat
  PROVE  /\ Lesser(x, y) \in Nat /\ Lesser(x, y) <= x /\ Lesser(x, y) <= y
         /\ Greater(x, y) \in Nat
BY DEF Lesser, Greater

\* An age is a natural number, or there is nothing to have one.
LEMMA Ages ==
  ASSUME NEW age \in Nat \cup {None}, NEW limit \in Nat
  PROVE  /\ Older(age, limit) \in Nat \cup {None}
         /\ Older(age, limit) = None <=> age = None
         /\ age # None => Older(age, limit) = Lesser(age + 1, limit)
BY DEF Lesser, Older, None

\* The types of the variables that only the schedule changes.
ScheduleOK == due \in [deep : Nat, shallow : Nat] /\ pc \in Awaits /\ mode \in {"deep", "shallow"} /\ skipNext \in BOOLEAN
RunOK == run \in [count : Nat, plan : Plans \cup {NoPlan}, killed : BOOLEAN]

\* The locals before a run has any.
LEMMA IdleRunIsTyped == IdleRun \in [count : Nat, plan : Plans \cup {NoPlan}, killed : BOOLEAN]
<1>1. NoPlan \in Plans \cup {NoPlan}
  OBVIOUS
<1> HIDE DEF NoPlan
<1> QED BY <1>1 DEF IdleRun

\* The task starts in typed states.
LEMMA InitTypeOK == Init => TypeOK
<1> SUFFICES ASSUME Init PROVE TypeOK
  OBVIOUS
<1> USE RetroConstants DEF Init
<1>1. run \in [count : Nat, plan : Plans \cup {NoPlan}, killed : BOOLEAN]
  BY IdleRunIsTyped
<1>2. due \in [deep : Nat, shallow : Nat]
  BY DEF Fresh
<1>3. file \in Settings /\ live \in Settings
  BY DEF Settings
<1> QED BY <1>1, <1>2, <1>3 DEF TypeOK, Awaits, None

\* The ends of a run leave a typed schedule.
LEMMA EndsAreTyped ==
  ASSUME TypeOK, (\E skipped \in BOOLEAN : EndRun(skipped)) \/ RunRaises
  PROVE  ScheduleOK' /\ RunOK'
<1>1. Steady \in [deep : Nat, shallow : Nat]
  BY RetroConstants DEF Steady
<1>2. due' \in {due, Steady} /\ run' = IdleRun /\ pc' \in {"sleep", "dead"} /\ mode' = mode
      /\ skipNext' \in BOOLEAN
  BY DEF EndRun, RunRaises, TypeOK
<1>3. RunOK'
  BY <1>2, IdleRunIsTyped DEF RunOK
<1> QED BY <1>1, <1>2, <1>3 DEF ScheduleOK, Awaits, TypeOK

\* So does a step to the next await.
LEMMA ProceedIsTyped ==
  ASSUME TypeOK, NEW to \in Awaits, Proceed(to)
  PROVE  ScheduleOK'
BY DEF TypeOK, Proceed, ScheduleOK

\* The steps that only move the schedule and the locals of the run.
LEMMA ScheduleTypeOK ==
  ASSUME TypeOK, ScheduleOK', RunOK',
         UNCHANGED <<unified, lastRun, settings, registry, closed, records, history>>
  PROVE  TypeOK'
BY DEF TypeOK, ScheduleOK, RunOK, settings, registry, records, history

\* Every step keeps the types.
LEMMA NextTypeOK ==
  ASSUME TypeOK, [Next]_vars
  PROVE  TypeOK'
<1> USE RetroConstants
<1>1. CASE Start
  BY <1>1 DEF Start, Register, RegistrationFails, Proceed, TypeOK, Awaits, history, records
<1>2. CASE First
  <2>1. PICK age \in Nat \cup {None} : due' = [deep |-> FirstWait(age), shallow |-> FirstWait(age)]
    BY <1>2 DEF First, AgeAsked, Answers, TypeOK
  <2>2. FirstWait(age) \in Nat
    <3>1. CASE age = None
      BY <3>1 DEF FirstWait
    <3>2. CASE age \in Nat /\ age # None
      BY <3>2 DEF FirstWait, Greater
    <3> QED BY <3>1, <3>2
  <2>3. ScheduleOK' /\ RunOK'
    BY <1>2, <2>1, <2>2 DEF First, ScheduleOK, RunOK, TypeOK, Awaits
  <2> QED BY <1>2, <2>3, ScheduleTypeOK DEF First
<1>3. CASE BeginDeep
  <2>1. ScheduleOK' /\ RunOK'
    BY <1>3 DEF BeginDeep, BeginRun, Fresh, ScheduleOK, RunOK, TypeOK, Awaits
  <2> QED BY <1>3, <2>1, ScheduleTypeOK DEF BeginDeep
<1>4. CASE BeginShallow
  <2>1. ScheduleOK' /\ RunOK'
    BY <1>4 DEF BeginShallow, BeginRun, ScheduleOK, RunOK, TypeOK, Awaits
  <2> QED BY <1>4, <2>1, ScheduleTypeOK DEF BeginShallow
<1>5. CASE Evaluate
  <2>1. pending' \subseteq pending /\ Proceed("read")
    BY <1>5 DEF Evaluate
  <2> QED BY <1>5, <2>1 DEF Evaluate, Proceed, TypeOK, Awaits, settings, registry, history
<1>6. CASE Read
  <2>1. ScheduleOK' /\ RunOK'
    <3>1. CASE RunRaises
      BY <3>1, EndsAreTyped
    <3>2. ASSUME NEW n \in WindowCounts, run' = [run EXCEPT !.count = n], Proceed("gate")
          PROVE  ScheduleOK' /\ RunOK'
      <4>1. n \in Nat
        BY Naturals DEF WindowCounts, TypeOK
      <4> QED BY <3>2, <4>1, ProceedIsTyped DEF RunOK, TypeOK, Awaits
    <3> QED BY <1>6, <3>1, <3>2 DEF Read
  <2> QED BY <1>6, <2>1, ScheduleTypeOK DEF Read
<1>7. CASE Gate
  <2>1. ScheduleOK' /\ RunOK'
    <3>1. CASE EndRun(TRUE)
      BY <3>1, EndsAreTyped
    <3>2. CASE Proceed("ask") /\ UNCHANGED run
      BY <3>2, ProceedIsTyped DEF RunOK, TypeOK, Awaits
    <3> QED BY <1>7, <3>1, <3>2 DEF Gate
  <2> QED BY <1>7, <2>1, ScheduleTypeOK DEF Gate
<1>8. CASE Ask
  <2>1. ScheduleOK' /\ RunOK'
    <3>1. CASE EndRun(FALSE) \/ RunRaises
      BY <3>1, EndsAreTyped
    <3>2. ASSUME NEW plan \in Advice, run' = [run EXCEPT !.plan = plan], Proceed("store")
          PROVE  ScheduleOK' /\ RunOK'
      <4>1. plan \in Plans \cup {NoPlan}
        BY DEF Advice
      <4> QED BY <3>2, <4>1, ProceedIsTyped DEF RunOK, TypeOK, Awaits
    <3> QED BY <1>8, <3>1, <3>2 DEF Ask
  <2> QED BY <1>8, <2>1, ScheduleTypeOK DEF Ask
<1>9. CASE Store
  <2>1. ScheduleOK' /\ RunOK'
    <3>1. CASE RunRaises
      BY <3>1, EndsAreTyped
    <3>2. ASSUME NEW killed \in BOOLEAN, run' = [run EXCEPT !.killed = killed], Proceed("apply")
          PROVE  ScheduleOK' /\ RunOK'
      BY <3>2, ProceedIsTyped DEF RunOK, TypeOK, Awaits
    <3> QED BY <1>9, <3>1, <3>2 DEF Store
  <2> QED BY <1>9, <2>1 DEF Store, InsertRun, ScheduleOK, RunOK, TypeOK, settings, registry, records, history
<1>10. CASE Apply
  <2>1. run.plan \in Plans /\ file' = Patched(file, run.plan) /\ Effective(file, run.plan)
    BY <1>10 DEF Apply, MayApply, TypeOK
  <2>2. file' \in Settings /\ live' \in Settings
    BY <1>10, <2>1, PatchSteps DEF Apply, Merged, TypeOK
  <2>3. ScheduleOK'
    <3>1. PICK to \in {"register", "record"} : Proceed(to)
      BY <1>10 DEF Apply
    <3> QED BY <3>1, ProceedIsTyped DEF Awaits
  <2>4. changes' \in Nat /\ rest' \in Nat /\ noted' \in BOOLEAN
    <3>1. changes \in Nat
      BY DEF TypeOK
    <3>2. changes' = changes + 1 /\ rest' = 0 /\ noted' = FALSE
      BY <1>10 DEF Apply
    <3>3. changes' \in Nat /\ rest' \in Nat
      BY <3>1, <3>2
    <3>4. noted' \in BOOLEAN
      BY <3>2
    <3> QED BY <3>3, <3>4
  <2>5. UNCHANGED <<unified, run, lastRun, holder, registered, closed, pending, lastApply>>
    BY <1>10 DEF Apply, registry, records
  <2> QED BY <2>2, <2>3, <2>4, <2>5 DEF ScheduleOK, TypeOK
<1>11. CASE Decline
  <2>1. ScheduleOK' /\ RunOK'
    BY <1>11, EndsAreTyped DEF Decline
  <2> QED BY <1>11, <2>1, ScheduleTypeOK DEF Decline
<1>12. CASE RegisterReload
  BY <1>12 DEF RegisterReload, Register, RegistrationFails, Proceed, TypeOK, Awaits, settings, records, history
<1>13. CASE Record
  <2>1. ScheduleOK' /\ RunOK'
    BY <1>13, EndsAreTyped DEF Record
  <2>2. \A baseline \in BOOLEAN : Row(baseline) \in Rows
    BY DEF Row, Rows, TypeOK
  <2>3. pending' \subseteq Rows /\ lastApply' \in Nat \cup {None} /\ noted' \in BOOLEAN
    <3>1. CASE UNCHANGED <<records, noted>>
      BY <3>1 DEF records, TypeOK
    <3>2. ASSUME NEW baseline \in BOOLEAN, pending' = pending \cup {Row(baseline)},
                 lastApply' = 0, noted' = TRUE
          PROVE  pending' \subseteq Rows /\ lastApply' \in Nat \cup {None} /\ noted' \in BOOLEAN
      BY <2>2, <3>2 DEF TypeOK
    <3> QED BY <1>13, <3>1, <3>2 DEF Record
  <2>4. UNCHANGED <<unified, lastRun, file, live, holder, registered, closed, changes, rest>>
    BY <1>13 DEF Record, settings, registry
  <2> QED BY <2>1, <2>3, <2>4 DEF ScheduleOK, RunOK, TypeOK
<1>14. CASE Tick
  <2>1. due' \in [deep : Nat, shallow : Nat]
    <3>1. due.deep \in Nat /\ due.shallow \in Nat
      BY DEF TypeOK
    <3>2. Greater(due.deep - 1, 0) \in Nat /\ Greater(due.shallow - 1, 0) \in Nat
      BY <3>1 DEF Greater
    <3> QED BY <1>14, <3>2 DEF Tick
  <2>2. lastRun' \in Nat \cup {None} /\ lastApply' \in Nat \cup {None}
    BY <1>14, Ages DEF Tick, TypeOK
  <2>5. rest' \in Nat
    BY <1>14, Naturals DEF Tick, TypeOK
  <2>3. pending' \subseteq Rows
    <3>1. ASSUME NEW row \in pending
          PROVE  [row EXCEPT !.age = Lesser(@ + 1, Timeout)] \in Rows
      <4>1. row \in Rows /\ row.age \in Nat
        BY DEF TypeOK, Rows
      <4>2. row.age + 1 \in Nat /\ Timeout \in Nat
        BY <4>1
      <4>3. Lesser(row.age + 1, Timeout) \in Nat
        BY <4>2, Naturals
      <4> QED BY <4>1, <4>3 DEF Rows
    <3> QED BY <1>14, <3>1 DEF Tick
  <2>4. UNCHANGED <<unified, pc, mode, skipNext, run, file, live, holder, registered, closed, changes, noted>>
    BY <1>14 DEF Tick, settings, registry
  <2> QED BY <2>1, <2>2, <2>3, <2>4, <2>5 DEF TypeOK
<1>15. CASE TradeCloses
  BY <1>15 DEF TradeCloses, TypeOK, schedule, settings, registry, records, history
<1>16. CASE PutBack
  BY <1>16 DEF PutBack, TypeOK, Settings, schedule, registry, records, history
<1>17. CASE Crash
  BY <1>17 DEF Crash, TypeOK, Awaits, Fresh, IdleRun, NoPlan, NoVersion, settings, records, history
<1>18. CASE UNCHANGED vars
  BY <1>18 DEF vars, TypeOK, schedule, settings, registry, records, history
<1> QED BY <1>1, <1>2, <1>3, <1>4, <1>5, <1>6, <1>7, <1>8, <1>9, <1>10, <1>11, <1>12, <1>13,
           <1>14, <1>15, <1>16, <1>17, <1>18 DEF Next, RunStep

\* The values of the variables, in every state that can be reached.
THEOREM TypeCorrect == Spec => []TypeOK
BY InitTypeOK, NextTypeOK, PTL DEF Spec

-----------------------------------------------------------------------------
(* The version stamped                                                     *)

\* The steps between two awaits that change neither the settings nor the
\* version they are stamped with.
LEMMA StampsNeedNoChange ==
  ASSUME StampsAreCurrent, UNCHANGED <<live, holder, registered>>,
         pc' = pc \/ pc \notin {"down", "register"} \/ pc' \in {"down", "register"}
  PROVE  StampsAreCurrent'
BY DEF StampsAreCurrent

\* Every step keeps the stamp current.
LEMMA NextStampsAreCurrent ==
  ASSUME StampsAreCurrent, [Next]_vars
  PROVE  StampsAreCurrent'
<1>1. CASE Start
  BY <1>1 DEF Start, Register, RegistrationFails, StampsAreCurrent
<1>2. CASE RegisterReload
  BY <1>2 DEF RegisterReload, Register, RegistrationFails, StampsAreCurrent, settings
<1>3. CASE Apply
  <2>1. CASE HotReloads
    BY <1>3, <2>1 DEF Apply, Proceed, StampsAreCurrent
  <2>2. CASE ~HotReloads
    BY <1>3, <2>2 DEF Apply, Proceed, Merged, StampsAreCurrent, registry
  <2> QED BY <2>1, <2>2
<1>4. CASE Crash
  BY <1>4 DEF Crash, StampsAreCurrent
<1>5. CASE First \/ BeginDeep \/ BeginShallow \/ Tick \/ TradeCloses \/ PutBack
  BY <1>5, StampsNeedNoChange
     DEF First, BeginDeep, BeginShallow, BeginRun, Tick, TradeCloses, PutBack, schedule, settings, registry
<1>6. CASE Evaluate \/ Read \/ Gate \/ Ask \/ Store \/ Decline \/ Record
  BY <1>6, StampsNeedNoChange
     DEF Evaluate, Read, Gate, Ask, Store, Decline, Record, settings, registry
<1>7. CASE UNCHANGED vars
  BY <1>7, StampsNeedNoChange DEF vars, schedule, settings, registry
<1> QED BY <1>1, <1>2, <1>3, <1>4, <1>5, <1>6, <1>7 DEF Next, RunStep

\* The version in the holder is the one of the live settings, but for the
\* moments of a restart and of a reload and after a failed registration
\* (applier.py, config_intelligence: what register_active_version promises).
THEOREM StampsStayCurrent == Spec => []StampsAreCurrent
<1>1. Init => StampsAreCurrent
  BY DEF Init, StampsAreCurrent
<1> QED BY <1>1, NextStampsAreCurrent, PTL DEF Spec

-----------------------------------------------------------------------------
(* The refinement                                                          *)

\* A change on record is as old as its row says: the cooldown query, which
\* reads the rows, sees the rest the file has had.
RowTellsRest ==
  /\ rest <= Cooldown
  /\ noted => IF lastApply = None THEN rest = Cooldown ELSE lastApply <= rest

\* Every step keeps it.
LEMMA NextRowTellsRest ==
  ASSUME TypeOK, RowTellsRest, [Next]_vars
  PROVE  RowTellsRest'
<1> USE RetroConstants
<1>1. CASE Apply
  BY <1>1 DEF Apply, RowTellsRest
<1>2. CASE Record
  <2>1. CASE UNCHANGED <<records, noted>>
    BY <1>2, <2>1 DEF Record, RowTellsRest, records
  <2>2. CASE lastApply' = 0 /\ noted' = TRUE
    BY <1>2, <2>2 DEF Record, RowTellsRest, TypeOK, None
  <2> QED BY <1>2, <2>1, <2>2 DEF Record
<1>3. CASE Tick
  <2>1. rest' = Lesser(rest + 1, Cooldown) /\ lastApply' = Older(lastApply, Cooldown) /\ noted' = noted
    BY <1>3 DEF Tick
  <2>2. rest \in Nat /\ lastApply \in Nat \cup {None} /\ Cooldown \in Nat
    BY DEF TypeOK
  <2> QED BY <2>1, <2>2 DEF RowTellsRest, Lesser, Older, None
<1>4. CASE UNCHANGED <<records, history>>
  BY <1>4 DEF RowTellsRest, records, history
<1>5. CASE Evaluate
  BY <1>5 DEF Evaluate, RowTellsRest, history
<1> QED BY <1>1, <1>2, <1>3, <1>4, <1>5
        DEF Next, RunStep, Start, First, BeginDeep, BeginShallow, Read, Gate, Ask, Store, Decline,
            RegisterReload, TradeCloses, PutBack, Crash, vars

\* Every step is one the abstract specification allows, or changes nothing
\* it can see.
LEMMA StepsAreAllowed ==
  ASSUME TypeOK, RowTellsRest, [Next]_vars
  PROVE  [Stepped!Next]_(Stepped!vars)
<1> USE RetroConstants DEF Stepped!vars
<1>1. CASE Apply
  <2>1. run.plan \in Plans /\ Effective(file, run.plan) /\ file \in Settings
    BY <1>1 DEF Apply, MayApply, TypeOK
  <2>2. Stepped!OneNotch(file, file')
    BY <1>1, <2>1, PatchSteps DEF Apply
  <2>3. noted => rest >= Cooldown
    <3>1. lastApply = None \/ lastApply >= Cooldown
      BY <1>1 DEF Apply, MayApply, CoolingDown, TypeOK
    <3> QED BY <3>1 DEF RowTellsRest, TypeOK
  <2> QED BY <1>1, <2>2, <2>3 DEF Apply, Stepped!Next, Stepped!Change
<1>2. CASE Record
  BY <1>2 DEF Record, settings, records, Stepped!Next, Stepped!Note
<1>3. CASE Tick
  <2>1. rest' = Lesser(rest + 1, Cooldown) /\ UNCHANGED <<file, noted>>
    BY <1>3 DEF Tick, settings
  <2>2. rest' = IF rest < Cooldown THEN rest + 1 ELSE Cooldown
    BY <2>1 DEF Lesser, TypeOK
  <2> QED BY <2>1, <2>2 DEF Stepped!Next, Stepped!Wait
<1>4. CASE PutBack
  BY <1>4 DEF PutBack, history, Stepped!Next, Stepped!PutBack
<1>5. CASE UNCHANGED <<file, history>>
  BY <1>5 DEF history
<1> QED BY <1>1, <1>2, <1>3, <1>4, <1>5
        DEF Next, RunStep, Start, First, BeginDeep, BeginShallow, Evaluate, Read, Gate, Ask, Store,
            Decline, RegisterReload, TradeCloses, Crash, vars, settings

\* config.yaml changes by one notch of one setting, a cooldown after the last
\* change, whatever query fails and wherever the process dies, unless the row
\* of the last change was never written (retrospective.py, applier.py).
THEOREM SettingsAreStepped == Spec => ImplementsSteppedSettings
<1>1. Init => RowTellsRest
  BY RetroConstants DEF Init, RowTellsRest
<1>2. Init => Stepped!Init
  BY DEF Init, Stepped!Init
<1>3. Spec => [](TypeOK /\ RowTellsRest)
  BY <1>1, InitTypeOK, NextTypeOK, NextRowTellsRest, PTL DEF Spec
<1> QED BY <1>2, <1>3, StepsAreAllowed, PTL DEF Spec, ImplementsSteppedSettings, Stepped!Spec
===============================================================================
