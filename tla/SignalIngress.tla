---------------------------- MODULE SignalIngress ----------------------------
(* The HTTP ingress of trade signals: request threads that claim a signal id *)
(* in SQLite and queue the signal, and the one worker thread that empties    *)
(* the queue. SkillAgent adds what the worker does with a signal.            *)
(*                                                                           *)
(* Requests that are refused before the claim (authentication, JSON,         *)
(* validation, allowlist, time in force) change nothing and have no action;  *)
(* so have duplicates. The audit table is written and never read: left out.  *)
EXTENDS Naturals, Sequences, SequencesExt

CONSTANTS Ids,        \* signal ids; a sender repeats an id as it likes
          QueueMax,   \* capacity of the queue
          MaxFaults   \* bound: crashes, failed statements, wrong answers

ASSUME IngressAssumption == QueueMax \in Nat \ {0} /\ MaxFaults \in Nat

VARIABLES
  claims,    \* signal_idempotency: [Ids -> last_status], "absent": no row
  claimed,   \* ids whose request thread has claimed them and not queued them
  refused,   \* ids whose request thread found the queue full
  queue,     \* self._q
  worker,    \* the signal the worker has taken and not finished: none or one
  attempts,  \* history: [Ids -> Nat], entries into the executor
  faults     \* how many of MaxFaults have happened
ingressVars == <<claims, claimed, refused, queue, worker, attempts, faults>>

\* "failed" stands for rejected, error and failed_no_mid.
Settled == {"executed", "failed"}

IngressInit ==
  /\ claims = [i \in Ids |-> "absent"]
  /\ claimed = {} /\ refused = {} /\ worker = {}
  /\ queue = <<>>
  /\ attempts = [i \in Ids |-> 0]
  /\ faults = 0

IngressTypeOK ==
  /\ claims \in [Ids -> {"absent", "queued"} \cup Settled]
  /\ claimed \subseteq Ids /\ refused \subseteq Ids /\ worker \subseteq Ids
  /\ queue \in Seq(Ids) /\ Len(queue) <= QueueMax
  /\ attempts \in [Ids -> Nat]
  /\ faults \in 0..MaxFaults

Fault == faults < MaxFaults /\ faults' = faults + 1

\* The variant of a table that replaces rows of unsettled signals.
IsNewOrUnsettled(i) == claims[i] \notin Settled

\* try_claim_signal_id: the primary key refuses an id that has a row.
IsNew(i) == claims[i] = "absent"
-----------------------------------------------------------------------------
\* do_POST up to the claim. A failed INSERT is answered as a duplicate; when it
\* is the commit that failed, the row goes into the table with the next one.
Claim(i) ==
  /\ IsNew(i)
  /\ \/ claims' = [claims EXCEPT ![i] = "queued"] /\ claimed' = claimed \cup {i}
        /\ UNCHANGED faults
     \/ Fault /\ UNCHANGED <<claims, claimed>>
     \/ Fault /\ claims' = [claims EXCEPT ![i] = "queued"] /\ UNCHANGED claimed
  /\ UNCHANGED <<refused, queue, worker, attempts>>

\* put_nowait: 202 accepted, or queue.Full.
Enqueue(i) ==
  /\ i \in claimed
  /\ claimed' = claimed \ {i}
  /\ IF Len(queue) < QueueMax
       THEN queue' = Append(queue, i) /\ UNCHANGED refused
       ELSE refused' = refused \cup {i} /\ UNCHANGED queue
  /\ UNCHANGED <<claims, worker, attempts, faults>>

\* release_signal_id and the answer 503. The DELETE may fail: the error is
\* logged and the row stays, with nothing queued behind it.
Release(i) ==
  /\ i \in refused
  /\ refused' = refused \ {i}
  /\ \/ claims' = [claims EXCEPT ![i] = "absent"] /\ UNCHANGED faults
     \/ Fault /\ UNCHANGED claims
  /\ UNCHANGED <<claimed, queue, worker, attempts>>

\* _run_worker: _q.get.
TakeSignal ==
  /\ worker = {} /\ queue # <<>>
  /\ worker' = {Head(queue)}
  /\ queue' = Tail(queue)
  /\ UNCHANGED <<claims, claimed, refused, attempts, faults>>

\* update_signal_id_status, with which _process_one ends on every path; the
\* UPDATE may fail, and then the row says "queued" for ever.
SettleSignal(i, status) ==
  /\ worker' = {}
  /\ \/ claims' = [claims EXCEPT ![i] = status] /\ UNCHANGED faults
     \/ Fault /\ UNCHANGED claims
  /\ UNCHANGED <<claimed, refused, queue>>

\* The variant that puts such a signal back.
GiveUpAndRetry(i) ==
  /\ i \in worker
  /\ Len(queue) < QueueMax
  /\ worker' = {}
  /\ queue' = Append(queue, i)
  /\ UNCHANGED <<claims, claimed, refused, attempts, faults>>

\* A signal that does not reach the executor: no mid price, a size hint
\* without equity, any other exception of the feed or the mapping.
GiveUp(i) ==
  /\ i \in worker
  /\ SettleSignal(i, "failed")
  /\ UNCHANGED attempts

\* The process dies: queue and threads are gone, the rows stay.
IngressLost ==
  /\ claimed' = {} /\ refused' = {} /\ worker' = {}
  /\ queue' = <<>>
  /\ UNCHANGED <<claims, attempts>>
=============================================================================
