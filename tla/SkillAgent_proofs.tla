-------------------------- MODULE SkillAgent_proofs --------------------------
(***************************************************************************)
(* Theorems about the two trading threads and the signal ingress, for all  *)
(* coins, signals, limits and bounds on faults: how far the fills of a     *)
(* coin can pass the cap, and that a signal is tried at most once.         *)
(***************************************************************************)
EXTENDS SkillAgent, TLAPS

-----------------------------------------------------------------------------
(* Types *)

\* The queue after an append and after a removal.
LEMMA QueueTypes ==
  ASSUME NEW q \in Seq(Ids), NEW i \in Ids
  PROVE  /\ Append(q, i) \in Seq(Ids) /\ Len(Append(q, i)) = Len(q) + 1
         /\ q # <<>> => Head(q) \in Ids /\ Tail(q) \in Seq(Ids) /\ Len(Tail(q)) = Len(q) - 1
OBVIOUS

\* The system starts in typed states.
LEMMA InitTypeOK == Init => TypeOK
<1> SUFFICES ASSUME Init PROVE TypeOK
  OBVIOUS
<1>1. AnyCoin \in Coins
  BY AgentAssumption DEF AnyCoin
<1>2. IngressTypeOK
  BY IngressAssumption, FillsAssumption DEF Init, IngressInit, IngressTypeOK
<1> QED BY <1>1, <1>2, AgentAssumption DEF Init, TypeOK, Flat, None, Idle, Jobs, Sides, Threads

\* A thread's job stays one when the thread moves on or takes another.
Stages == {"idle", "scan", "account", "applied", "ranked", "checked", "fallback",
           "accepted", "failed", "closed"}

\* A thread moves on with its job.
LEMMA JobMoves ==
  ASSUME job \in [Threads -> Jobs], NEW t \in Threads, NEW at \in Stages
  PROVE  [job EXCEPT ![t].at = at] \in [Threads -> Jobs]
<1>1. [job[t] EXCEPT !.at = at] \in Jobs
  BY DEF Jobs, Stages
<1> QED BY <1>1

\* A thread takes a job.
LEMMA JobTaken ==
  ASSUME job \in [Threads -> Jobs], NEW t \in Threads, NEW at \in Stages,
         NEW c \in Coins, NEW s \in Sides
  PROVE  [job EXCEPT ![t] = [at |-> at, coin |-> c, side |-> s]] \in [Threads -> Jobs]
BY DEF Jobs, Stages

\* A thread is done with its job.
LEMMA JobDone ==
  ASSUME job \in [Threads -> Jobs], NEW t \in Threads
  PROVE  [job EXCEPT ![t] = Idle] \in [Threads -> Jobs]
<1>1. AnyCoin \in Coins
  BY AgentAssumption DEF AnyCoin
<1> QED BY <1>1 DEF Idle, Jobs, Sides

\* What does not touch the ingress keeps its types.
LEMMA IngressUntouched ==
  ASSUME IngressTypeOK, UNCHANGED ingressVars
  PROVE  IngressTypeOK'
BY DEF IngressTypeOK, ingressVars

\* A request thread keeps the types of the ingress.
LEMMA IngressKeepsTypes ==
  ASSUME IngressTypeOK, NEW i \in Ids,
         Claim(i) \/ Enqueue(i) \/ Release(i) \/ TakeSignal \/ GiveUp(i)
  PROVE  IngressTypeOK'
<1> USE IngressAssumption DEF IngressTypeOK, Settled, Fault
<1>1. CASE Claim(i)
  BY <1>1 DEF Claim
<1>2. CASE Enqueue(i)
  <2>1. /\ Append(queue, i) \in Seq(Ids) /\ Len(Append(queue, i)) = Len(queue) + 1
        /\ Len(queue) \in Nat
    BY QueueTypes
  <2>2. queue' \in Seq(Ids) /\ Len(queue') <= QueueMax
    <3>1. CASE Len(queue) < QueueMax
      <4>1. queue' = Append(queue, i)
        BY <1>2, <3>1 DEF Enqueue
      <4> QED BY <2>1, <3>1, <4>1
    <3>2. CASE ~(Len(queue) < QueueMax)
      BY <1>2, <3>2 DEF Enqueue
    <3> QED BY <3>1, <3>2
  <2>3. claimed' \subseteq Ids /\ refused' \subseteq Ids
    BY <1>2 DEF Enqueue
  <2> QED BY <1>2, <2>2, <2>3 DEF Enqueue
<1>3. CASE Release(i)
  BY <1>3 DEF Release
<1>4. CASE TakeSignal
  BY <1>4, QueueTypes DEF TakeSignal
<1>5. CASE GiveUp(i)
  BY <1>5 DEF GiveUp, SettleSignal
<1> QED BY <1>1, <1>2, <1>3, <1>4, <1>5

\* A fill, an unfilled order and a flattened coin keep the types of the venue.
LEMMA VenueKeepsTypes ==
  ASSUME TypeOK, NEW c \in Coins, NEW s \in Sides, NEW h \in {0, 1},
         Filled(c, s, h) \/ NotFilled \/ Flattened(c)
  PROVE  /\ venue' \in [Coins -> Sides \cup {"flat"}]
         /\ {fills', cleared', unseen'} \subseteq [Coins -> Nat]
BY DEF TypeOK, Filled, AfterFill, NotFilled, Flattened

\* Dropped counts stay counts.
LEMMA DroppedKeepsTypes ==
  ASSUME TypeOK, NEW S, Dropped(S)
  PROVE  {entries', cleared'} \subseteq [Coins -> Nat]
BY DEF TypeOK, Dropped

\* Asking the venue for an order keeps the types.
LEMMA SubmitKeepsTypes ==
  ASSUME TypeOK, NEW t \in Threads, Submit(t)
  PROVE  TypeOK'
<1> USE IngressAssumption DEF TypeOK, Goto
<1>1. job[t].coin \in Coins /\ job[t].side \in Sides
  BY DEF Jobs
<1>2. job' \in [Threads -> Jobs]
  <2>1. {"accepted", "failed", "fallback"} \subseteq Stages
    BY DEF Stages
  <2>2. CASE Goto(t, "fallback")
    BY <2>1, <2>2, JobMoves
  <2>3. ASSUME NEW at \in {"accepted", "failed"}, Answered(t, at)
        PROVE  job' \in [Threads -> Jobs]
    BY <1>1, <2>1, <2>3, JobTaken DEF Answered, Order, Sides
  <2> QED BY <2>2, <2>3 DEF Submit, AskSenpi, AskDegen
<1>3. IngressTypeOK'
  BY DEF Submit, AskSenpi, AskDegen, IngressTypeOK, Fault
<1>4. venue' \in [Coins -> Sides \cup {"flat"}] /\ {fills', cleared', unseen'} \subseteq [Coins -> Nat]
  BY <1>1, VenueKeepsTypes DEF Submit, AskSenpi, AskDegen
<1> QED BY <1>2, <1>3, <1>4 DEF Submit

\* Every step keeps the types.
LEMMA NextTypeOK ==
  ASSUME TypeOK, [Next]_vars
  PROVE  TypeOK'
<1> USE DEF TypeOK, Goto, Order, Finish
<1>0. "agent" \in Threads /\ "worker" \in Threads /\ Coins # {}
      /\ {"idle", "scan", "account", "applied", "ranked", "checked", "failed", "closed"} \subseteq Stages
  BY AgentAssumption DEF Threads, Stages
<1>1. CASE Ingress
  BY <1>1, IngressKeepsTypes DEF Ingress, agentVars
<1>2. CASE Worker
  <2>1. CASE TakeSignal /\ UNCHANGED agentVars
    <3>1. TakeSignal => \E i \in Ids : TRUE
      BY QueueTypes DEF TakeSignal, IngressTypeOK
    <3>2. IngressTypeOK'
      BY <2>1, <3>1, IngressKeepsTypes
    <3> QED BY <2>1, <3>2 DEF agentVars
  <2>2. ASSUME NEW i \in Ids, GiveUp(i), UNCHANGED agentVars
        PROVE  TypeOK'
    <3>1. IngressTypeOK'
      BY <2>2, IngressKeepsTypes
    <3> QED BY <2>2, <3>1 DEF agentVars
  <2>3. ASSUME NEW i \in Ids, Try(i)
        PROVE  TypeOK'
    <3>1. job' \in [Threads -> Jobs]
      <4>1. CASE Goto("worker", "failed")
        BY <4>1, <1>0, JobMoves
      <4>2. ASSUME NEW c \in Coins, NEW side \in Sides, Checked("worker", c, side, MaxFills)
            PROVE  job' \in [Threads -> Jobs]
        BY <4>2, <1>0, JobTaken DEF Checked
      <4> QED BY <2>3, <4>1, <4>2 DEF Try
    <3>2. IngressTypeOK'
      BY <2>3 DEF Try, IngressTypeOK
    <3> QED BY <2>3, <3>1, <3>2 DEF Try
  <2>4. ASSUME NEW i \in Ids, WorkerRecord(i)
        PROVE  TypeOK'
    <3>1. PICK st \in Settled : SettleSignal(i, st)
      BY <2>4 DEF WorkerRecord, Settled
    <3>2. IngressTypeOK'
      <4>1. attempts' = attempts
        BY <2>4 DEF WorkerRecord
      <4>2. claims' \in [Ids -> {"absent", "queued"} \cup Settled]
        BY <3>1 DEF SettleSignal, IngressTypeOK
      <4>3. faults' \in 0..MaxFaults
        BY <3>1, IngressAssumption DEF SettleSignal, Fault, IngressTypeOK
      <4> QED BY <3>1, <4>1, <4>2, <4>3 DEF SettleSignal, IngressTypeOK
    <3>3. job' \in [Threads -> Jobs]
      BY <2>4, <1>0, JobDone DEF WorkerRecord
    <3>4. entries' \in [Coins -> Nat]
      BY <2>4 DEF WorkerRecord, Recorded
    <3> QED BY <2>4, <3>2, <3>3, <3>4 DEF WorkerRecord
  <2>5. CASE Submit("worker")
    BY <2>5, <1>0, SubmitKeepsTypes
  <2> QED BY <1>2, <2>1, <2>2, <2>3, <2>4, <2>5 DEF Worker
<1>3. CASE Agent
  <2>1. CASE Fetch
    <3>1. job' \in [Threads -> Jobs]
      BY <2>1, <1>0, JobMoves, JobTaken, JobDone DEF Fetch, Sides
    <3>2. IngressTypeOK'
      BY <2>1, IngressUntouched DEF Fetch
    <3>3. {venue, known, seen}' \subseteq [Coins -> Sides \cup {"flat"}]
      BY <2>1 DEF Fetch
    <3> QED BY <2>1, <3>1, <3>2, <3>3 DEF Fetch
  <2>2. CASE Apply
    <3>1. {entries', cleared'} \subseteq [Coins -> Nat]
      BY <2>2, DroppedKeepsTypes DEF Apply
    <3>2. job' \in [Threads -> Jobs]
      BY <2>2, <1>0, JobMoves, JobDone DEF Apply
    <3>3. IngressTypeOK'
      BY <2>2, IngressUntouched DEF Apply
    <3>4. {venue, known, seen}' \subseteq [Coins -> Sides \cup {"flat"}] /\ touched' \subseteq Coins
      BY <2>2 DEF Apply, Flat
    <3> QED BY <2>2, <3>1, <3>2, <3>3, <3>4 DEF Apply
  <2>3. CASE Rank
    BY <2>3, <1>0, JobMoves, JobTaken, JobDone, IngressUntouched DEF Rank
  <2>10. CASE CheckRegime
    BY <2>10, IngressUntouched DEF CheckRegime
  <2>4. CASE Deterministic
    BY <2>4, <1>0, JobMoves, JobTaken, JobDone, IngressUntouched DEF Deterministic, Signals, Checked
  <2>5. CASE Execute
    BY <2>5, <1>0, JobMoves, JobTaken, JobDone, IngressUntouched DEF Execute, Checked
  <2>6. CASE Close
    <3>1. PICK c \in Coins : /\ Order("agent", "closed", c, "long")
                             /\ \/ Flattened(c) /\ UNCHANGED faults
                                \/ Fault /\ NotFilled
      BY <2>6 DEF Close
    <3>2. venue' \in [Coins -> Sides \cup {"flat"}] /\ {fills', cleared', unseen'} \subseteq [Coins -> Nat]
      BY <3>1, VenueKeepsTypes DEF Sides
    <3>3. IngressTypeOK'
      BY <2>6, <3>1, IngressAssumption DEF Close, Fault, IngressTypeOK
    <3>4. job' \in [Threads -> Jobs]
      BY <3>1, <1>0, JobTaken DEF Sides
    <3> QED BY <2>6, <3>2, <3>3, <3>4 DEF Close
  <2>7. CASE Submit("agent")
    BY <2>7, <1>0, SubmitKeepsTypes
  <2>8. CASE AgentRecord
    <3>1. job["agent"].coin \in Coins
      BY <1>0 DEF Jobs
    <3>2. entries' \in [Coins -> Nat] /\ touched' \subseteq Coins
      BY <2>8, <3>1 DEF AgentRecord, Recorded
    <3>3. job' \in [Threads -> Jobs] /\ IngressTypeOK'
      BY <2>8, <1>0, JobDone, IngressUntouched DEF AgentRecord
    <3> QED BY <2>8, <3>2, <3>3 DEF AgentRecord
  <2>9. CASE CloseRecord
    <3>1. {entries', cleared'} \subseteq [Coins -> Nat]
      BY <2>9, DroppedKeepsTypes DEF CloseRecord
    <3> QED BY <2>9, <3>1, <1>0, JobMoves, JobTaken, JobDone, IngressUntouched DEF CloseRecord, Sides
  <2> QED BY <1>3, <2>1, <2>2, <2>3, <2>4, <2>5, <2>6, <2>7, <2>8, <2>9, <2>10 DEF Agent
<1>4. CASE VenueCloses
  <2>1. PICK c \in Open(venue) : Flattened(c)
    BY <1>4 DEF VenueCloses
  <2>2. venue' \in [Coins -> Sides \cup {"flat"}] /\ {fills', cleared', unseen'} \subseteq [Coins -> Nat]
    BY <2>1, VenueKeepsTypes DEF Open, Sides
  <2> QED BY <1>4, <2>2, IngressUntouched DEF VenueCloses
<1>5. CASE Restart
  <2>1. IngressTypeOK'
    BY <1>5, IngressAssumption DEF Restart, Fault, IngressLost, IngressTypeOK
  <2>2. Idle \in Jobs
    BY AgentAssumption DEF AnyCoin, Idle, Jobs, Sides
  <2> QED BY <1>5, <2>1, <2>2, AgentAssumption DEF Restart, None, Flat
<1>6. CASE UNCHANGED vars
  BY <1>6 DEF vars, ingressVars, agentVars, IngressTypeOK
<1> QED BY <1>1, <1>2, <1>3, <1>4, <1>5, <1>6 DEF Next

\* The types of all variables, in every state that can be reached.
THEOREM TypeCorrect == Spec => []TypeOK
BY InitTypeOK, NextTypeOK, PTL DEF Spec

-----------------------------------------------------------------------------
(* The bound on fills: what each dropped count may add is FillsCeiling + 1,  *)
(* because a count never passes it together with the orders under way.       *)

Times(n) == (FillsCeiling + 1) * n

\* One more count raises the product by one factor.
LEMMA TimesFacts ==
  \A n \in Nat : Times(n) \in Nat /\ Times(n + 1) = Times(n) + FillsCeiling + 1
<1> TAKE n \in Nat
<1> USE FillsAssumption
<1>1. (FillsCeiling + 1) * n \in Nat
  OBVIOUS
<1>2. (FillsCeiling + 1) * (n + 1) = (FillsCeiling + 1) * n + FillsCeiling + 1
  OBVIOUS
<1> QED BY <1>1, <1>2 DEF Times

\* A thread has an order of coin c between its check and its record, and one
\* that was answered as accepted and is not recorded.
Ordering(t, c) ==
  IF job[t].coin = c /\ job[t].at \in {"checked", "fallback", "accepted"} THEN 1 ELSE 0
Accepted(t, c) == IF job[t].coin = c /\ job[t].at = "accepted" THEN 1 ELSE 0

\* The check leaves room for the order of the other thread only by one.
RoomFor(c) ==
  /\ entries[c] + Ordering("agent", c) + Ordering("worker", c) <= FillsCeiling + 1
  /\ Ordering("agent", c) + Ordering("worker", c) > 0 => FillsCeiling >= 1

\* Where the fills of a coin are accounted for.
FillsCounted(c) ==
  fills[c] <= entries[c] + (Accepted("agent", c) + Accepted("worker", c))
                + Times(cleared[c]) + unseen[c]

CountsInv == \A c \in Coins : RoomFor(c) /\ FillsCounted(c)

\* A thread has at most one order, and only an order can be accepted.
LEMMA OrderRange ==
  \A t \in Threads, c \in Coins :
    /\ Ordering(t, c) \in {0, 1} /\ Accepted(t, c) \in {0, 1}
    /\ Accepted(t, c) <= Ordering(t, c)
BY DEF Ordering, Accepted

\* The numbers a coin is accounted with.
LEMMA CountTypes ==
  ASSUME TypeOK, NEW c \in Coins
  PROVE  fills[c] \in Nat /\ entries[c] \in Nat /\ cleared[c] \in Nat /\ unseen[c] \in Nat
BY DEF TypeOK

Counts == <<fills, entries, cleared, unseen>>

\* No order begins, is answered or recorded.
OrdersUntouched ==
  \A t \in Threads, c \in Coins :
    Ordering(t, c)' = Ordering(t, c) /\ Accepted(t, c)' = Accepted(t, c)

\* What changes neither orders nor counts keeps the account.
LEMMA QuietKeepsCounts ==
  ASSUME CountsInv, UNCHANGED Counts, OrdersUntouched
  PROVE  CountsInv'
BY DEF CountsInv, Counts, OrdersUntouched, RoomFor, FillsCounted, Threads

\* A job that is no order becomes another that is none.
LEMMA NoOrder ==
  ASSUME TypeOK, NEW t \in Threads, job' = [job EXCEPT ![t] = job'[t]],
         job[t].at \notin {"checked", "fallback", "accepted"},
         job'[t].at \notin {"checked", "fallback", "accepted"}
  PROVE  OrdersUntouched
BY DEF TypeOK, OrdersUntouched, Ordering, Accepted

\* A check lets an order begin only below the ceiling.
LEMMA CheckKeepsCounts ==
  ASSUME TypeOK, CountsInv, UNCHANGED Counts, NEW t \in Threads,
         job[t].at \notin {"checked", "fallback", "accepted"},
         NEW c \in Coins, NEW s \in Sides, NEW cap \in Nat, cap <= FillsCeiling,
         Checked(t, c, s, cap)
  PROVE  CountsInv'
<1> SUFFICES ASSUME NEW d \in Coins PROVE (RoomFor(d) /\ FillsCounted(d))'
  BY DEF CountsInv
<1>1. job' = [job EXCEPT ![t] = [at |-> "checked", coin |-> c, side |-> s]] /\ entries[c] < cap
  BY DEF Checked, Order, Allowed, FillsLeft
<1>2. \A u \in Threads : u # t => Ordering(u, d)' = Ordering(u, d) /\ Accepted(u, d)' = Accepted(u, d)
  BY <1>1 DEF TypeOK, Ordering, Accepted
<1>3. /\ Ordering(t, d) = 0 /\ Ordering(t, d)' = (IF c = d THEN 1 ELSE 0)
      /\ Accepted(t, d) = 0 /\ Accepted(t, d)' = 0
  BY <1>1 DEF TypeOK, Ordering, Accepted
<1>4. RoomFor(d) /\ FillsCounted(d)
  BY DEF CountsInv
<1>5. FillsCounted(d)'
  BY <1>2, <1>3, <1>4 DEF FillsCounted, Counts, Threads
<1>6. RoomFor(d)'
  <2>1. RoomFor(d)' <=> /\ entries[d] + Ordering("agent", d)' + Ordering("worker", d)' <= FillsCeiling + 1
                        /\ Ordering("agent", d)' + Ordering("worker", d)' > 0 => FillsCeiling >= 1
    BY DEF RoomFor, Counts
  <2>2. entries[d] \in Nat /\ (c = d => entries[d] + 1 <= FillsCeiling)
    BY <1>1, CountTypes, FillsAssumption
  <2> QED BY <1>2, <1>3, <1>4, <2>1, <2>2, OrderRange, FillsAssumption DEF RoomFor, Threads
<1> QED BY <1>5, <1>6

\* A recorded order moves from the thread to the count.
LEMMA RecordKeepsCounts ==
  ASSUME TypeOK, CountsInv, UNCHANGED <<fills, cleared, unseen>>, NEW t \in Threads,
         job[t].at = "accepted", Recorded(job[t].coin), Finish(t)
  PROVE  CountsInv'
<1> SUFFICES ASSUME NEW d \in Coins PROVE (RoomFor(d) /\ FillsCounted(d))'
  BY DEF CountsInv
<1>1. \A u \in Threads : u # t => Ordering(u, d)' = Ordering(u, d) /\ Accepted(u, d)' = Accepted(u, d)
  BY DEF TypeOK, Finish, Ordering, Accepted
<1>2. /\ Ordering(t, d)' = 0 /\ Accepted(t, d)' = 0
      /\ Ordering(t, d) = (IF job[t].coin = d THEN 1 ELSE 0)
      /\ Accepted(t, d) = Ordering(t, d)
  BY DEF TypeOK, Finish, Idle, Ordering, Accepted
<1>3. entries'[d] = entries[d] + Ordering(t, d)
  BY <1>2 DEF TypeOK, Recorded
<1>4. RoomFor(d) /\ FillsCounted(d) /\ entries[d] \in Nat
  BY CountTypes DEF CountsInv
<1>5. RoomFor(d)'
  <2>1. RoomFor(d)' <=> /\ entries'[d] + Ordering("agent", d)' + Ordering("worker", d)' <= FillsCeiling + 1
                        /\ Ordering("agent", d)' + Ordering("worker", d)' > 0 => FillsCeiling >= 1
    BY DEF RoomFor
  <2> QED BY <1>1, <1>2, <1>3, <1>4, <2>1, OrderRange, FillsAssumption DEF RoomFor, Threads
<1>6. FillsCounted(d)'
  <2>1. FillsCounted(d)' <=> fills[d] <= entries'[d] + (Accepted("agent", d)' + Accepted("worker", d)')
                                           + Times(cleared[d]) + unseen[d]
    BY DEF FillsCounted
  <2>2. Times(cleared[d]) \in Nat /\ unseen[d] \in Nat /\ fills[d] \in Nat
    BY CountTypes, TimesFacts
  <2> QED BY <1>1, <1>2, <1>3, <1>4, <2>1, <2>2, OrderRange DEF FillsCounted, Threads
<1> QED BY <1>5, <1>6

\* A dropped count is paid for, unless the venue holds nothing anyway.
LEMMA DropKeepsCounts ==
  ASSUME TypeOK, CountsInv, UNCHANGED <<fills, unseen>>, OrdersUntouched,
         NEW S, Dropped(S)
  PROVE  CountsInv'
<1> SUFFICES ASSUME NEW d \in Coins PROVE (RoomFor(d) /\ FillsCounted(d))'
  BY DEF CountsInv
<1>1. CASE entries'[d] = entries[d] /\ cleared'[d] = cleared[d]
  BY <1>1 DEF CountsInv, RoomFor, FillsCounted, OrdersUntouched, Threads
<1>2. CASE entries'[d] = 0 /\ (fills[d] > 0 /\ entries[d] > 0 => cleared'[d] = cleared[d] + 1)
           /\ (~(fills[d] > 0 /\ entries[d] > 0) => cleared'[d] = cleared[d])
  <2> DEFINE a == Ordering("agent", d)  w == Ordering("worker", d)
  <2>0. a \in {0, 1} /\ w \in {0, 1} /\ a' = a /\ w' = w
    BY OrderRange DEF OrdersUntouched, Threads
  <2>1. /\ entries[d] + a + w <= FillsCeiling + 1
        /\ a + w > 0 => FillsCeiling >= 1
    BY DEF CountsInv, RoomFor
  <2>2. fills[d] \in Nat /\ entries[d] \in Nat /\ cleared[d] \in Nat /\ unseen[d] \in Nat
    BY CountTypes
  <2>3. RoomFor(d)'
    <3>1. RoomFor(d)' <=> entries'[d] + a' + w' <= FillsCeiling + 1 /\ (a' + w' > 0 => FillsCeiling >= 1)
      BY DEF RoomFor
    <3> HIDE DEF a, w
    <3> QED BY <1>2, <2>0, <2>1, <3>1, FillsAssumption
  <2>4. FillsCounted(d)'
    <3> DEFINE p == Accepted("agent", d)  q == Accepted("worker", d)
    <3>0. p \in {0, 1} /\ q \in {0, 1} /\ p' = p /\ q' = q
      BY OrderRange DEF OrdersUntouched, Threads
    <3>1. fills[d] <= entries[d] + (p + q) + Times(cleared[d]) + unseen[d]
      BY DEF CountsInv, FillsCounted
    <3>2. FillsCounted(d)' <=> fills[d] <= entries'[d] + (p' + q') + Times(cleared'[d]) + unseen[d]
      BY DEF FillsCounted
    <3>3. /\ Times(cleared[d]) \in Nat
          /\ Times(cleared[d] + 1) = Times(cleared[d]) + FillsCeiling + 1
      BY <2>2, TimesFacts
    <3> HIDE DEF a, w, p, q
    <3>4. CASE fills[d] > 0 /\ entries[d] > 0
      BY <1>2, <2>0, <2>1, <2>2, <3>0, <3>1, <3>2, <3>3, <3>4, FillsAssumption
    <3>5. CASE ~(fills[d] > 0 /\ entries[d] > 0)
      <4>1. FillsCounted(d)' <=> fills[d] <= 0 + (p + q) + Times(cleared[d]) + unseen[d]
        BY <1>2, <3>0, <3>2, <3>5
      <4>2. fills[d] = 0 \/ entries[d] = 0
        BY <2>2, <3>5
      <4> QED BY <2>2, <3>0, <3>1, <3>3, <4>1, <4>2
    <3> QED BY <3>4, <3>5
  <2> QED BY <2>3, <2>4
<1> QED BY <1>1, <1>2 DEF Dropped

\* A coin that becomes flat owes nothing, others are as before.
LEMMA FlatKeepsCounts ==
  ASSUME TypeOK, CountsInv, OrdersUntouched, UNCHANGED entries, NEW c \in Coins, Flattened(c)
  PROVE  CountsInv'
<1> SUFFICES ASSUME NEW d \in Coins PROVE (RoomFor(d) /\ FillsCounted(d))'
  BY DEF CountsInv
<1>1. RoomFor(d)'
  BY DEF CountsInv, RoomFor, OrdersUntouched, Threads
<1>2. CASE d = c
  <2>1. fills'[d] = 0 /\ cleared'[d] = 0 /\ unseen'[d] = 0 /\ entries'[d] \in Nat
    BY <1>2, CountTypes DEF TypeOK, Flattened
  <2>2. Accepted("agent", d)' \in {0, 1} /\ Accepted("worker", d)' \in {0, 1}
    BY DEF Accepted
  <2>3. Times(0) \in Nat
    BY TimesFacts
  <2> QED BY <1>1, <2>1, <2>2, <2>3 DEF FillsCounted
<1>3. CASE d # c
  <2>1. fills'[d] = fills[d] /\ cleared'[d] = cleared[d] /\ unseen'[d] = unseen[d]
    BY <1>3 DEF TypeOK, Flattened
  <2> QED BY <1>1, <2>1 DEF CountsInv, FillsCounted, OrdersUntouched, Threads
<1> QED BY <1>2, <1>3

\* The sums behind a fill: nothing filled, filled and hidden, filled and known.
LEMMA FillSums ==
  ASSUME NEW f \in Nat, NEW e \in Nat, NEW x \in Nat, NEW u \in Nat, NEW a \in Nat, NEW b \in Nat,
         f <= e + a + x + u
  PROVE  /\ a <= b => f <= e + b + x + u
         /\ a <= b => f + 1 <= e + b + x + (u + 1)
         /\ a + 1 = b => f + 1 <= e + b + x + u
OBVIOUS

\* An answer of the venue: a fill is on the thread's account or hidden.
LEMMA SubmitKeepsCounts ==
  ASSUME TypeOK, CountsInv, NEW t \in Threads, Submit(t)
  PROVE  CountsInv'
<1> SUFFICES ASSUME NEW d \in Coins PROVE (RoomFor(d) /\ FillsCounted(d))'
  BY DEF CountsInv
<1> DEFINE c == job[t].coin
<1>1. PICK at \in {"accepted", "failed", "fallback"} :
        /\ job' = [job EXCEPT ![t] = job'[t]] /\ job'[t].at = at /\ job'[t].coin = c
        /\ \/ at = "accepted" /\ Filled(c, job[t].side, 0)
           \/ at # "accepted" /\ Filled(c, job[t].side, 1)
           \/ NotFilled
  BY DEF Submit, AskSenpi, AskDegen, Goto, Answered, Order, TypeOK, Jobs
<1>2. job[t].at \in {"checked", "fallback"} /\ UNCHANGED entries /\ c \in Coins /\ job[t].side \in Sides
  BY DEF Submit, AskSenpi, AskDegen, TypeOK, Jobs
<1>3. \A u \in Threads : u # t => Ordering(u, d)' = Ordering(u, d) /\ Accepted(u, d)' = Accepted(u, d)
  BY <1>1 DEF TypeOK, Ordering, Accepted
<1>4. /\ Ordering(t, d) = (IF c = d THEN 1 ELSE 0) /\ Accepted(t, d) = 0
      /\ Ordering(t, d)' \in {0, Ordering(t, d)}
      /\ Accepted(t, d)' = (IF c = d /\ at = "accepted" THEN 1 ELSE 0)
  BY <1>1, <1>2 DEF TypeOK, Jobs, Ordering, Accepted
<1>5. fills[d] \in Nat /\ entries[d] \in Nat /\ cleared[d] \in Nat /\ unseen[d] \in Nat
  BY CountTypes
<1>6. RoomFor(d)'
  <2>1. RoomFor(d)' <=> /\ entries[d] + Ordering("agent", d)' + Ordering("worker", d)' <= FillsCeiling + 1
                        /\ Ordering("agent", d)' + Ordering("worker", d)' > 0 => FillsCeiling >= 1
    BY <1>2 DEF RoomFor
  <2>2. RoomFor(d)
    BY DEF CountsInv
  <2> QED BY <1>3, <1>4, <1>5, <2>1, <2>2, OrderRange, FillsAssumption DEF RoomFor, Threads
<1>7. FillsCounted(d)'
  <2> DEFINE owed == Accepted("agent", d) + Accepted("worker", d)
  <2>1. fills[d] <= entries[d] + owed + Times(cleared[d]) + unseen[d]
    BY <1>5, OrderRange DEF CountsInv, FillsCounted, Threads
  <2>2. FillsCounted(d)' <=> fills'[d] <= entries[d] + owed' + Times(cleared'[d]) + unseen'[d]
    BY <1>2 DEF FillsCounted
  <2>3. /\ owed \in Nat /\ owed' \in Nat /\ owed <= owed'
        /\ c = d /\ at = "accepted" => owed + 1 = owed'
    BY <1>3, <1>4, OrderRange DEF Accepted, Threads
  <2>4. Times(cleared[d]) \in Nat /\ Times(0) \in Nat
    BY <1>5, TimesFacts
  <2> HIDE DEF c, owed
  <2>5. CASE fills'[d] = 0 /\ cleared'[d] = 0 /\ unseen'[d] = 0
    BY <1>5, <2>2, <2>3, <2>4, <2>5
  <2>6. CASE fills'[d] = fills[d] /\ cleared'[d] = cleared[d] /\ unseen'[d] = unseen[d]
    BY <1>5, <2>1, <2>2, <2>3, <2>4, <2>6, FillSums
  <2>7. CASE c = d /\ at = "accepted" /\ fills'[d] = fills[d] + 1 /\ cleared'[d] = cleared[d]
             /\ unseen'[d] = unseen[d]
    BY <1>5, <2>1, <2>2, <2>3, <2>4, <2>7, FillSums
  <2>8. CASE at # "accepted" /\ fills'[d] = fills[d] + 1 /\ cleared'[d] = cleared[d]
             /\ unseen'[d] = unseen[d] + 1
    BY <1>5, <2>1, <2>2, <2>3, <2>4, <2>8, FillSums
  <2>9. CASE NotFilled
    BY <2>6, <2>9 DEF NotFilled
  <2>10. ASSUME NEW h \in {0, 1}, Filled(c, job[t].side, h), h = 0 <=> at = "accepted"
         PROVE  FillsCounted(d)'
    <3>1. CASE c # d
      BY <1>2, <2>6, <2>10, <3>1 DEF Filled, TypeOK
    <3>2. CASE c = d
      BY <1>2, <2>5, <2>7, <2>8, <2>10, <3>2 DEF Filled, TypeOK
    <3> QED BY <3>1, <3>2
  <2> QED BY <1>1, <2>9, <2>10
<1> QED BY <1>6, <1>7

\* A crash drops every count and every order.
LEMMA RestartKeepsCounts ==
  ASSUME TypeOK, CountsInv, Restart
  PROVE  CountsInv'
<1> SUFFICES ASSUME NEW d \in Coins PROVE (RoomFor(d) /\ FillsCounted(d))'
  BY DEF CountsInv
<1>1. \A t \in Threads : Ordering(t, d)' = 0 /\ Accepted(t, d)' = 0
  BY DEF Restart, Idle, Ordering, Accepted
<1>2. /\ entries'[d] = 0 /\ fills'[d] = fills[d] /\ unseen'[d] = unseen[d]
      /\ cleared'[d] = (IF fills[d] > 0 THEN cleared[d] + 1 ELSE cleared[d])
  BY DEF Restart, None
<1>3. RoomFor(d)'
  BY <1>1, <1>2, FillsAssumption DEF RoomFor, Threads
<1>4. fills[d] \in Nat /\ entries[d] \in Nat /\ cleared[d] \in Nat /\ unseen[d] \in Nat
  BY CountTypes
<1>5. /\ Times(cleared[d]) \in Nat
      /\ Times(cleared[d] + 1) = Times(cleared[d]) + FillsCeiling + 1
  BY <1>4, TimesFacts
<1>6. entries[d] + Accepted("agent", d) + Accepted("worker", d) <= FillsCeiling + 1
  BY <1>4, OrderRange, FillsAssumption DEF CountsInv, RoomFor, Threads
<1>7. fills[d] <= entries[d] + (Accepted("agent", d) + Accepted("worker", d))
                    + Times(cleared[d]) + unseen[d]
  BY DEF CountsInv, FillsCounted
<1>8. FillsCounted(d)' <=> fills'[d] <= 0 + (0 + 0) + Times(cleared'[d]) + unseen'[d]
  BY <1>1, <1>2 DEF FillsCounted, Threads
<1>9. Accepted("agent", d) \in {0, 1} /\ Accepted("worker", d) \in {0, 1}
  BY DEF Accepted
<1>10. FillsCounted(d)'
  <2>1. CASE fills[d] > 0
    BY <1>2, <1>4, <1>5, <1>6, <1>7, <1>8, <1>9, <2>1, FillsAssumption
  <2>2. CASE ~(fills[d] > 0)
    BY <1>2, <1>4, <1>5, <1>8, <2>2
  <2> QED BY <2>1, <2>2
<1> QED BY <1>3, <1>10

\* Every step keeps the account of every coin.
LEMMA NextCounts ==
  ASSUME TypeOK, CountsInv, [Next]_vars
  PROVE  CountsInv'
<1>0. "agent" \in Threads /\ "worker" \in Threads
  BY DEF Threads
<1>1. CASE UNCHANGED agentVars
  BY <1>1, QuietKeepsCounts DEF agentVars, Counts, OrdersUntouched, Ordering, Accepted
<1>2. CASE Worker
  <2>1. ASSUME NEW i \in Ids, Try(i)
        PROVE  CountsInv'
    <3>1. job["worker"].at = "idle" /\ UNCHANGED Counts
      BY <2>1 DEF Try, Counts
    <3>2. CASE Goto("worker", "failed")
      <4>1. job' = [job EXCEPT !["worker"] = job'["worker"]] /\ job'["worker"].at = "failed"
        BY <1>0, <3>2 DEF TypeOK, Jobs, Goto
      <4> QED BY <1>0, <3>1, <4>1, NoOrder, QuietKeepsCounts
    <3>3. ASSUME NEW c \in Coins, NEW side \in Sides, Checked("worker", c, side, MaxFills)
          PROVE  CountsInv'
      BY <1>0, <3>1, <3>3, CheckKeepsCounts, FillsAssumption
    <3> QED BY <2>1, <3>2, <3>3 DEF Try
  <2>2. ASSUME NEW i \in Ids, WorkerRecord(i)
        PROVE  CountsInv'
    <3>1. UNCHANGED <<fills, cleared, unseen>> /\ Finish("worker")
      BY <2>2 DEF WorkerRecord
    <3>2. CASE job["worker"].at = "accepted"
      BY <1>0, <2>2, <3>1, <3>2, RecordKeepsCounts DEF WorkerRecord
    <3>3. CASE job["worker"].at = "failed"
      <4>1. job' = [job EXCEPT !["worker"] = job'["worker"]] /\ job'["worker"].at = "idle"
        BY <1>0, <3>1 DEF TypeOK, Finish, Idle
      <4>2. UNCHANGED Counts
        BY <2>2, <3>3 DEF WorkerRecord, Counts
      <4> QED BY <1>0, <3>3, <4>1, <4>2, NoOrder, QuietKeepsCounts
    <3> QED BY <2>2, <3>2, <3>3 DEF WorkerRecord
  <2>3. CASE Submit("worker")
    BY <1>0, <2>3, SubmitKeepsCounts
  <2> QED BY <1>1, <1>2, <2>1, <2>2, <2>3 DEF Worker
<1>3. CASE Agent
  <2>1. ASSUME UNCHANGED Counts, NEW at, Goto("agent", at),
               job["agent"].at \notin {"checked", "fallback", "accepted"},
               at \notin {"checked", "fallback", "accepted"}
        PROVE  CountsInv'
    <3>1. job' = [job EXCEPT !["agent"] = job'["agent"]] /\ job'["agent"].at = at
      BY <1>0, <2>1 DEF TypeOK, Jobs, Goto
    <3> QED BY <1>0, <2>1, <3>1, NoOrder, QuietKeepsCounts
  <2>2. ASSUME Finish("agent"), job["agent"].at \notin {"checked", "fallback", "accepted"}
        PROVE  OrdersUntouched
    <3>1. job' = [job EXCEPT !["agent"] = job'["agent"]] /\ job'["agent"].at = "idle"
      BY <1>0, <2>2 DEF TypeOK, Finish, Idle
    <3> QED BY <1>0, <2>2, <3>1, NoOrder
  <2>3. CASE Fetch
    BY <2>1, <2>3 DEF Fetch, Counts
  <2>4. CASE Apply
    <3>1. CASE Goto("agent", "applied")
      <4>1. job' = [job EXCEPT !["agent"] = job'["agent"]] /\ job'["agent"].at = "applied"
        BY <1>0, <3>1 DEF TypeOK, Jobs, Goto
      <4>2. OrdersUntouched
        BY <1>0, <2>4, <4>1, NoOrder DEF Apply
      <4> QED BY <2>4, <4>2, DropKeepsCounts DEF Apply
    <3>2. CASE Finish("agent")
      BY <2>2, <2>4, <3>2, DropKeepsCounts DEF Apply
    <3> QED BY <2>4, <3>1, <3>2 DEF Apply
  <2>5. CASE Rank
    BY <2>1, <2>2, <2>5, QuietKeepsCounts DEF Rank, Counts
  <2>12. CASE CheckRegime
    <3>1. UNCHANGED Counts /\ OrdersUntouched
      BY <2>12 DEF CheckRegime, Counts, OrdersUntouched, Ordering, Accepted
    <3> QED BY <3>1, QuietKeepsCounts
  <2>6. CASE Deterministic
    <3>1. job["agent"].at = "ranked" /\ UNCHANGED Counts
      BY <2>6 DEF Deterministic, Counts
    <3>2. ASSUME NEW signal \in Signals, NEW cap \in FathomCaps,
                 Checked("agent", signal[1], signal[2], cap)
          PROVE  CountsInv'
      <4>1. signal[1] \in Coins /\ signal[2] \in Sides /\ cap \in Nat /\ cap <= FillsCeiling
        BY FillsAssumption DEF Signals, FathomCaps
      <4> QED BY <1>0, <3>1, <3>2, <4>1, CheckKeepsCounts
    <3> QED BY <2>2, <2>6, <3>1, <3>2, QuietKeepsCounts DEF Deterministic
  <2>7. CASE Execute
    <3>1. job["agent"].at = "idle" /\ UNCHANGED Counts
      BY <2>7 DEF Execute, Counts
    <3> QED BY <1>0, <2>7, <3>1, CheckKeepsCounts, FillsAssumption DEF Execute
  <2>8. CASE Close
    <3>1. PICK c \in Coins : /\ Order("agent", "closed", c, "long")
                             /\ Flattened(c) \/ NotFilled
      BY <2>8 DEF Close
    <3>2. job' = [job EXCEPT !["agent"] = job'["agent"]] /\ job'["agent"].at = "closed"
      BY <1>0, <3>1 DEF TypeOK, Order
    <3>3. OrdersUntouched /\ UNCHANGED entries
      BY <1>0, <2>8, <3>2, NoOrder DEF Close
    <3> QED BY <3>1, <3>3, FlatKeepsCounts, QuietKeepsCounts DEF NotFilled, Counts
  <2>9. CASE Submit("agent")
    BY <1>0, <2>9, SubmitKeepsCounts
  <2>10. CASE AgentRecord
    <3>1. UNCHANGED <<fills, cleared, unseen>> /\ Finish("agent")
      BY <2>10 DEF AgentRecord
    <3>2. CASE job["agent"].at = "accepted"
      BY <1>0, <2>10, <3>1, <3>2, RecordKeepsCounts DEF AgentRecord
    <3>3. CASE job["agent"].at = "failed"
      BY <2>2, <2>10, <3>1, <3>3, QuietKeepsCounts DEF AgentRecord, Counts
    <3> QED BY <2>10, <3>2, <3>3 DEF AgentRecord
  <2>11. CASE CloseRecord
    BY <2>2, <2>11, DropKeepsCounts DEF CloseRecord
  <2> QED BY <1>3, <2>3, <2>4, <2>5, <2>6, <2>7, <2>8, <2>9, <2>10, <2>11, <2>12 DEF Agent
<1>4. CASE VenueCloses
  <2>1. PICK c \in Coins : Flattened(c)
    BY <1>4 DEF VenueCloses, Open
  <2>2. OrdersUntouched /\ UNCHANGED entries
    BY <1>4 DEF VenueCloses, OrdersUntouched, Ordering, Accepted
  <2> QED BY <2>1, <2>2, FlatKeepsCounts
<1>5. CASE Restart
  BY <1>5, RestartKeepsCounts
<1> QED BY <1>1, <1>2, <1>3, <1>4, <1>5 DEF Next, Ingress, vars

\* The account of the start: nothing filled, nothing counted.
LEMMA InitCounts == Init => CountsInv
<1> SUFFICES ASSUME Init, NEW c \in Coins PROVE RoomFor(c) /\ FillsCounted(c)
  BY DEF CountsInv
<1>1. \A t \in Threads : Ordering(t, c) = 0 /\ Accepted(t, c) = 0
  BY DEF Init, Idle, Ordering, Accepted
<1>2. fills[c] = 0 /\ entries[c] = 0 /\ cleared[c] = 0 /\ unseen[c] = 0
  BY DEF Init, None
<1>3. Times(0) \in Nat
  BY TimesFacts
<1> QED BY <1>1, <1>2, <1>3, FillsAssumption DEF RoomFor, FillsCounted, Threads

\* The cap on fills is passed by one order per count, one count per dropped one
\* and the fills that nobody was told of, for any caps, coins and faults
\* (constraints.py:143, supervisor.py:119).
THEOREM FillsStayBounded == Spec => []FillsBounded
<1>1. ASSUME TypeOK, CountsInv
      PROVE  FillsBounded
  <2> SUFFICES ASSUME NEW c \in Coins
               PROVE  fills[c] <= (FillsCeiling + 1) * (cleared[c] + 1) + unseen[c]
    BY DEF FillsBounded
  <2>1. fills[c] \in Nat /\ entries[c] \in Nat /\ cleared[c] \in Nat /\ unseen[c] \in Nat
    BY <1>1, CountTypes
  <2>2. /\ Times(cleared[c]) \in Nat
        /\ (FillsCeiling + 1) * (cleared[c] + 1) = Times(cleared[c]) + FillsCeiling + 1
    <3>1. Times(cleared[c] + 1) = (FillsCeiling + 1) * (cleared[c] + 1)
      BY DEF Times
    <3> QED BY <2>1, <3>1, TimesFacts
  <2> DEFINE owed == Accepted("agent", c) + Accepted("worker", c)
  <2>3. owed \in Nat /\ entries[c] + owed <= FillsCeiling + 1
    BY <1>1, <2>1, OrderRange, FillsAssumption DEF CountsInv, RoomFor, Threads
  <2>4. fills[c] <= entries[c] + owed + Times(cleared[c]) + unseen[c]
    BY <1>1 DEF CountsInv, FillsCounted
  <2> HIDE DEF owed
  <2> QED BY <2>1, <2>2, <2>3, <2>4, FillsAssumption
<1>2. Init => CountsInv
  BY InitCounts
<1>3. TypeOK /\ CountsInv /\ [Next]_vars => CountsInv'
  BY NextCounts
<1> QED BY <1>1, <1>2, <1>3, TypeCorrect, PTL DEF Spec

-----------------------------------------------------------------------------
(* Once only: a signal is in one place at a time, and the places of a signal *)
(* that was tried are behind it.                                             *)

Queued == {queue[k] : k \in DOMAIN queue}

\* Each signal waits in at most one place, and at most once.
OnePlace ==
  /\ claimed \cap refused = {} /\ claimed \cap worker = {} /\ refused \cap worker = {}
  /\ Queued \cap (claimed \cup refused \cup worker) = {}
  /\ \A k, l \in DOMAIN queue : queue[k] = queue[l] => k = l
  /\ \A i, j \in worker : i = j

\* What waits is claimed, what has no row was not tried, and what was tried
\* waits nowhere but with a worker that is at it.
Ledger ==
  /\ \A i \in claimed \cup refused \cup worker \cup Queued : claims[i] = "queued"
  /\ \A i \in Ids : claims[i] = "absent" => attempts[i] = 0
  /\ \A i \in claimed \cup refused \cup Queued : attempts[i] = 0
  /\ job["worker"].at = "idle" => \A i \in worker : attempts[i] = 0

IngressInv == OnePlace /\ Ledger

\* The elements of a queue after an append and after a removal.
LEMMA QueueElements ==
  ASSUME NEW q \in Seq(Ids), NEW i \in Ids
  PROVE  /\ DOMAIN Append(q, i) = DOMAIN q \cup {Len(q) + 1} /\ Len(q) + 1 \notin DOMAIN q
         /\ Append(q, i)[Len(q) + 1] = i /\ \A k \in DOMAIN q : Append(q, i)[k] = q[k]
         /\ q # <<>> => /\ 1 \in DOMAIN q /\ Head(q) = q[1]
                        /\ \A k \in DOMAIN Tail(q) : k + 1 \in DOMAIN q /\ k + 1 # 1 /\ Tail(q)[k] = q[k + 1]
OBVIOUS

\* The ingress starts empty.
LEMMA InitIngressInv == Init => IngressInv
BY DEF Init, IngressInit, IngressInv, OnePlace, Ledger, Queued, Threads, Idle

\* A claim puts a new signal where no other is.
LEMMA ClaimKeepsPlaces ==
  ASSUME TypeOK, IngressInv, NEW i \in Ids, Claim(i), UNCHANGED job
  PROVE  IngressInv'
<1>1. i \notin claimed \cup refused \cup worker \cup Queued
  BY DEF Claim, IsNew, IngressInv, Ledger
<1>2. OnePlace'
  BY <1>1 DEF Claim, IngressInv, OnePlace, Queued
<1>3. Ledger'
  BY <1>1 DEF Claim, IsNew, IngressInv, Ledger, Queued, TypeOK, IngressTypeOK
<1> QED BY <1>2, <1>3 DEF IngressInv

\* Queueing moves a claimed signal to the end of the queue, or to the refused.
LEMMA EnqueueKeepsPlaces ==
  ASSUME TypeOK, IngressInv, NEW i \in Ids, Enqueue(i), UNCHANGED job
  PROVE  IngressInv'
<1>1. i \in claimed /\ i \notin Queued \cup refused \cup worker
  BY DEF Enqueue, IngressInv, OnePlace
<1>2. CASE Len(queue) < QueueMax
  <2>1. queue' = Append(queue, i) /\ queue \in Seq(Ids) /\ claimed' = claimed \ {i}
        /\ UNCHANGED <<claims, refused, worker, attempts>>
    BY <1>2 DEF Enqueue, TypeOK, IngressTypeOK
  <2>2. Queued' = Queued \cup {i}
    BY <2>1, QueueElements DEF Queued
  <2>3. \A k, l \in DOMAIN queue' : queue'[k] = queue'[l] => k = l
    BY <1>1, <2>1, QueueElements DEF IngressInv, OnePlace, Queued
  <2>4. OnePlace'
    BY <1>1, <2>1, <2>2, <2>3 DEF IngressInv, OnePlace
  <2>5. Ledger'
    BY <1>1, <2>1, <2>2 DEF IngressInv, Ledger
  <2> QED BY <2>4, <2>5 DEF IngressInv
<1>3. CASE ~(Len(queue) < QueueMax)
  <2>1. refused' = refused \cup {i} /\ claimed' = claimed \ {i}
        /\ UNCHANGED <<claims, queue, worker, attempts>>
    BY <1>3 DEF Enqueue
  <2> QED BY <1>1, <2>1 DEF IngressInv, OnePlace, Ledger, Queued
<1> QED BY <1>2, <1>3

\* A released signal waits nowhere, and was not tried.
LEMMA ReleaseKeepsPlaces ==
  ASSUME TypeOK, IngressInv, NEW i \in Ids, Release(i), UNCHANGED job
  PROVE  IngressInv'
<1>1. i \notin claimed \cup worker \cup Queued /\ attempts[i] = 0
  BY DEF Release, IngressInv, OnePlace, Ledger
<1> QED BY <1>1 DEF Release, Fault, IngressInv, OnePlace, Ledger, Queued, TypeOK, IngressTypeOK

\* The worker takes the head of the queue.
LEMMA TakeKeepsPlaces ==
  ASSUME TypeOK, IngressInv, TakeSignal, UNCHANGED job
  PROVE  IngressInv'
<1> DEFINE i == queue[1]
<1>1. /\ queue \in Seq(Ids) /\ queue # <<>> /\ worker = {} /\ worker' = {i} /\ queue' = Tail(queue)
      /\ i \in Queued /\ i \in Ids
  BY QueueElements DEF TakeSignal, TypeOK, IngressTypeOK, Queued
<1>2. Queued' \subseteq Queued \ {i}
  BY <1>1, QueueElements DEF IngressInv, OnePlace, Queued
<1>3. \A k, l \in DOMAIN queue' : queue'[k] = queue'[l] => k = l
  <2>1. \A k \in DOMAIN queue' : k \in Nat /\ k + 1 \in DOMAIN queue /\ queue'[k] = queue[k + 1]
    BY <1>1, QueueElements
  <2> QED BY <2>1 DEF IngressInv, OnePlace
<1>4. UNCHANGED <<claims, claimed, refused, attempts>>
  BY DEF TakeSignal
<1>5. OnePlace'
  BY <1>1, <1>2, <1>3, <1>4 DEF IngressInv, OnePlace
<1>6. Ledger'
  BY <1>1, <1>2, <1>4 DEF IngressInv, Ledger
<1> QED BY <1>5, <1>6 DEF IngressInv

\* A signal that is given up or recorded leaves the worker.
LEMMA SettleKeepsPlaces ==
  ASSUME TypeOK, IngressInv, NEW i \in worker, NEW st \in Settled, SettleSignal(i, st),
         UNCHANGED attempts
  PROVE  IngressInv'
<1>1. i \notin claimed \cup refused \cup Queued
  BY DEF IngressInv, OnePlace
<1>2. i \in Ids /\ worker' = {} /\ UNCHANGED <<claimed, refused, queue>>
      /\ (claims' = [claims EXCEPT ![i] = st] \/ claims' = claims)
  BY DEF SettleSignal, TypeOK, IngressTypeOK
<1>3. OnePlace'
  BY <1>2 DEF IngressInv, OnePlace, Queued
<1>4. Ledger'
  BY <1>1, <1>2 DEF IngressInv, Ledger, Queued, TypeOK, IngressTypeOK, Settled
<1> QED BY <1>3, <1>4 DEF IngressInv

\* The worker's attempt is at the signal it holds.
LEMMA TryKeepsPlaces ==
  ASSUME TypeOK, IngressInv, NEW i \in Ids, Try(i)
  PROVE  IngressInv'
<1>1. i \in worker /\ i \notin claimed \cup refused \cup Queued /\ claims[i] = "queued"
      /\ attempts' = [attempts EXCEPT ![i] = attempts[i] + 1]
      /\ UNCHANGED <<claims, claimed, refused, queue, worker>>
  BY DEF Try, IngressInv, OnePlace, Ledger
<1>2. job'["worker"].at # "idle"
  BY DEF Try, Checked, Order, Goto, TypeOK, Jobs, Threads
<1>3. OnePlace'
  BY <1>1 DEF IngressInv, OnePlace, Queued
<1>4. Ledger'
  BY <1>1, <1>2 DEF IngressInv, Ledger, Queued, TypeOK, IngressTypeOK
<1> QED BY <1>3, <1>4 DEF IngressInv

\* Nothing else touches the ingress; an order that goes on keeps the worker busy.
LEMMA OthersKeepPlaces ==
  ASSUME IngressInv, UNCHANGED <<claims, claimed, refused, queue, worker, attempts>>,
         job'["worker"].at = "idle" => job["worker"].at = "idle"
  PROVE  IngressInv'
BY DEF IngressInv, OnePlace, Ledger, Queued

\* Every step keeps each signal in one place.
LEMMA NextIngressInv ==
  ASSUME TypeOK, IngressInv, [Next]_vars
  PROVE  IngressInv'
<1>1. CASE Ingress
  BY <1>1, ClaimKeepsPlaces, EnqueueKeepsPlaces, ReleaseKeepsPlaces DEF Ingress, agentVars
<1>2. CASE Worker
  <2>1. CASE TakeSignal /\ UNCHANGED agentVars
    BY <2>1, TakeKeepsPlaces DEF agentVars
  <2>2. ASSUME NEW i \in Ids, GiveUp(i)
        PROVE  IngressInv'
    BY <2>2, SettleKeepsPlaces DEF GiveUp, Settled
  <2>3. ASSUME NEW i \in Ids, Try(i)
        PROVE  IngressInv'
    BY <2>3, TryKeepsPlaces
  <2>4. ASSUME NEW i \in Ids, WorkerRecord(i)
        PROVE  IngressInv'
    BY <2>4, SettleKeepsPlaces DEF WorkerRecord, Settled
  <2>5. CASE Submit("worker")
    <3>1. job'["worker"].at # "idle"
      BY <2>5 DEF Submit, AskSenpi, AskDegen, Goto, Answered, Order, TypeOK, Jobs, Threads
    <3> QED BY <2>5, <3>1, OthersKeepPlaces DEF Submit
  <2> QED BY <1>2, <2>1, <2>2, <2>3, <2>4, <2>5 DEF Worker
<1>3. CASE Agent
  <2>1. job'["worker"] = job["worker"]
    BY <1>3 DEF Agent, Fetch, Apply, Rank, CheckRegime, Deterministic, Execute, Close, Submit, AskSenpi, AskDegen, Answered,
                AgentRecord, CloseRecord, Goto, Finish, Order, Checked, TypeOK, Threads
  <2>2. UNCHANGED <<claims, claimed, refused, queue, worker, attempts>>
    BY <1>3 DEF Agent, Fetch, Apply, Rank, CheckRegime, Deterministic, Execute, Close, Submit,
                AgentRecord, CloseRecord, ingressVars
  <2> QED BY <2>1, <2>2, OthersKeepPlaces
<1>4. CASE VenueCloses \/ UNCHANGED vars
  BY <1>4, OthersKeepPlaces DEF VenueCloses, vars, ingressVars, agentVars
<1>5. CASE Restart
  BY <1>5 DEF Restart, IngressLost, IngressInv, OnePlace, Ledger, Queued
<1> QED BY <1>1, <1>2, <1>3, <1>4, <1>5 DEF Next

-----------------------------------------------------------------------------
(* The refinement. A step maps to what it does to the stage of its signal.   *)

\* A move of one signal's stage is a move of the abstract specification.
LEMMA StageMove ==
  ASSUME NEW i \in Ids, NEW from, NEW to, Stage(i) = from, Stage(i)' = to,
         \A j \in Ids : j # i => Stage(j)' = Stage(j)
  PROVE  Promise!Move(i, from, to)
BY DEF Promise!Move

\* What leaves the table and the attempts alone is a stutter.
LEMMA StageStutter ==
  ASSUME UNCHANGED <<claims, attempts>>
  PROVE  UNCHANGED Promise!vars
BY DEF Promise!vars, Stage

\* A signal whose outcome is recorded, or the record of which fails.
LEMMA SettleImplements ==
  ASSUME TypeOK, IngressInv, NEW i \in worker, NEW st \in Settled, SettleSignal(i, st),
         UNCHANGED attempts
  PROVE  [Promise!Next]_(Promise!vars)
<1>1. i \in Ids /\ claims[i] = "queued"
  BY DEF TypeOK, IngressTypeOK, IngressInv, Ledger
<1>2. CASE claims' = [claims EXCEPT ![i] = st]
  <2>1. Stage(i)' = "settled" /\ Stage(i) \in {"taken", "tried"}
    BY <1>1, <1>2 DEF Stage, TypeOK, IngressTypeOK, Settled
  <2>2. \A j \in Ids : j # i => Stage(j)' = Stage(j)
    BY <1>2 DEF Stage, TypeOK, IngressTypeOK
  <2>3. Promise!Settle(i)
    BY <1>1, <2>1, <2>2, StageMove DEF Promise!Settle
  <2> QED BY <1>1, <2>3 DEF Promise!Next
<1>3. CASE claims' = claims
  BY <1>3, StageStutter
<1> QED BY <1>2, <1>3 DEF SettleSignal

\* Every step is one of the abstract specification or a stutter.
LEMMA StepImplements ==
  ASSUME TypeOK, IngressInv, [Next]_vars
  PROVE  [Promise!Next]_(Promise!vars)
<1>1. ASSUME NEW i \in Ids, Claim(i)
      PROVE  [Promise!Next]_(Promise!vars)
  <2>1. CASE claims' = [claims EXCEPT ![i] = "queued"]
    <3>1. Stage(i) = "unknown" /\ Stage(i)' = "taken"
      BY <1>1, <2>1 DEF Claim, IsNew, Stage, IngressInv, Ledger, TypeOK, IngressTypeOK
    <3>2. \A j \in Ids : j # i => Stage(j)' = Stage(j)
      BY <1>1, <2>1 DEF Claim, Stage, TypeOK, IngressTypeOK
    <3>3. Promise!Take(i)
      BY <1>1, <3>1, <3>2, StageMove DEF Promise!Take, Claim
    <3> QED BY <3>3 DEF Promise!Next
  <2>2. CASE claims' = claims
    BY <1>1, <2>2, StageStutter DEF Claim
  <2> QED BY <1>1, <2>1, <2>2 DEF Claim
<1>2. ASSUME NEW i \in Ids, Release(i)
      PROVE  [Promise!Next]_(Promise!vars)
  <2>1. CASE claims' = [claims EXCEPT ![i] = "absent"]
    <3>1. Stage(i) = "taken" /\ Stage(i)' = "unknown"
      BY <1>2, <2>1 DEF Release, Stage, IngressInv, Ledger, TypeOK, IngressTypeOK
    <3>2. \A j \in Ids : j # i => Stage(j)' = Stage(j)
      BY <1>2, <2>1 DEF Release, Stage, TypeOK, IngressTypeOK
    <3>3. Promise!GiveBack(i)
      BY <1>2, <3>1, <3>2, StageMove DEF Promise!GiveBack, Release
    <3> QED BY <3>3 DEF Promise!Next
  <2>2. CASE claims' = claims
    BY <1>2, <2>2, StageStutter DEF Release
  <2> QED BY <1>2, <2>1, <2>2 DEF Release
<1>3. ASSUME NEW i \in Ids, Try(i)
      PROVE  [Promise!Next]_(Promise!vars)
  <2>1. attempts[i] = 0 /\ claims[i] = "queued" /\ attempts' = [attempts EXCEPT ![i] = attempts[i] + 1]
        /\ claims' = claims
    BY <1>3 DEF Try, IngressInv, Ledger
  <2>2. Stage(i) = "taken" /\ Stage(i)' = "tried"
    BY <2>1 DEF Stage, TypeOK, IngressTypeOK
  <2>3. \A j \in Ids : j # i => Stage(j)' = Stage(j)
    BY <2>1 DEF Stage, TypeOK, IngressTypeOK
  <2>4. Promise!Try(i)
    BY <2>1, <2>2, <2>3, StageMove DEF Promise!Try
  <2> QED BY <2>4 DEF Promise!Next
<1>4. ASSUME NEW i \in Ids, GiveUp(i) \/ WorkerRecord(i)
      PROVE  [Promise!Next]_(Promise!vars)
  BY <1>4, SettleImplements DEF GiveUp, WorkerRecord, Settled
<1>5. CASE UNCHANGED <<claims, attempts>>
  BY <1>5, StageStutter
<1>6. CASE \/ \E i \in Ids : Enqueue(i)
           \/ TakeSignal \/ Submit("worker") \/ Agent \/ VenueCloses \/ Restart
  BY <1>5, <1>6 DEF Enqueue, TakeSignal, Agent, Fetch, Apply, Rank, CheckRegime, Deterministic, Execute, Close,
                    Submit, AgentRecord, CloseRecord, VenueCloses, Restart, IngressLost, ingressVars
<1> QED BY <1>1, <1>2, <1>3, <1>4, <1>5, <1>6 DEF Next, Ingress, Worker, vars, ingressVars

\* The ingress keeps its promise to a sender that retries: a signal enters the
\* executor at most once and its outcome stays, for any number of signals,
\* failed statements and crashes (persistence.py:160, http_ingress.py:313).
THEOREM IngressIsOnceOnly == Spec => ImplementsOnceOnly
<1>1. Init => Promise!Init
  BY DEF Init, IngressInit, Promise!Init, Stage
<1>2. Init => IngressInv
  BY InitIngressInv
<1>3. TypeOK /\ IngressInv /\ [Next]_vars => IngressInv'
  BY NextIngressInv
<1>4. TypeOK /\ IngressInv /\ [Next]_vars => [Promise!Next]_(Promise!vars)
  BY StepImplements
<1> QED BY <1>1, <1>2, <1>3, <1>4, TypeCorrect, PTL DEF Spec, ImplementsOnceOnly, Promise!Spec
=============================================================================
