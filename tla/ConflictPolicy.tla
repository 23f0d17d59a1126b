--------------------------- MODULE ConflictPolicy ---------------------------
(***************************************************************************)
(* apply_conflict_policy (src/nxfh01/orchestration/conflict_policy.py):    *)
(* from the intents of one tick, at most one per coin survives, and none   *)
(* of a coin on which the strategies disagree.  An intent is a record with *)
(* at least the fields coin, side and engine.                              *)
(***************************************************************************)
EXTENDS Integers, Sequences

CONSTANTS
  ExecutionOrder,  \* orchestration.execution_order: the order intents arrive in
  Priority         \* orchestration.conflict.priority

ASSUME ConflictLists ==
  \A list \in {ExecutionOrder, Priority} :
    Len(list) \in Nat /\ DOMAIN list = 1..Len(list)

\* The index of a strategy in a list, one past its end when it is not listed.
IndexIn(list, engine) ==
  IF \E k \in DOMAIN list : list[k] = engine
    THEN CHOOSE k \in DOMAIN list :
           list[k] = engine /\ \A j \in 1..(k - 1) : list[j] # engine
    ELSE Len(list) + 1

\* The code's sort key; sorted() is stable, so ties keep the input order.
Outranks(i, j) ==
  \/ IndexIn(Priority, i.engine) < IndexIn(Priority, j.engine)
  \/ /\ IndexIn(Priority, i.engine) = IndexIn(Priority, j.engine)
     /\ IndexIn(ExecutionOrder, i.engine) < IndexIn(ExecutionOrder, j.engine)

SameCoin(intents, i) == {j \in intents : j.coin = i.coin}

\* Mutant: priority decides between opposite sides as well.
PriorityBreaksTies(intents) ==
  {i \in intents : \A j \in SameCoin(intents, i) \ {i} : Outranks(i, j)}

\* Both modes of the code keep the same intents; they differ in what they log.
ApplyConflictPolicy(intents) ==
  {i \in intents :
     /\ \A j \in SameCoin(intents, i) : j.side = i.side
     /\ \A j \in SameCoin(intents, i) \ {i} : Outranks(i, j)}
=============================================================================
