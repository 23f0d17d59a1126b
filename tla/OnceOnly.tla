------------------------------ MODULE OnceOnly ------------------------------
(* What the idempotency table of the signal ingress promises to a sender     *)
(* that may retry a signal as often as it likes: a signal is handed back     *)
(* only untried, it is tried at most once, and a settled one stays settled.  *)
EXTENDS Naturals

CONSTANT Ids   \* what the senders call signal_id

VARIABLES stage,    \* [Ids -> {"unknown", "taken", "tried", "settled"}]
          attempts  \* [Ids -> Nat], how often the executor was entered for it
vars == <<stage, attempts>>

Init == /\ stage = [i \in Ids |-> "unknown"]
        /\ attempts = [i \in Ids |-> 0]

Move(i, from, to) == stage[i] = from /\ stage' = [stage EXCEPT ![i] = to]

Take(i) == Move(i, "unknown", "taken") /\ UNCHANGED attempts

GiveBack(i) == Move(i, "taken", "unknown") /\ UNCHANGED attempts

Try(i) == /\ Move(i, "taken", "tried")
          /\ attempts' = [attempts EXCEPT ![i] = @ + 1]

Settle(i) == /\ Move(i, "taken", "settled") \/ Move(i, "tried", "settled")
             /\ UNCHANGED attempts

Next == \E i \in Ids : Take(i) \/ GiveBack(i) \/ Try(i) \/ Settle(i)

Spec == Init /\ [][Next]_vars
=============================================================================
