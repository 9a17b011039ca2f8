-------------------------- MODULE CompletionBatcher --------------------------
(***************************************************************************)
(* The CompletionBatcher of src/faith_shared/protocol/subscriber.py: it    *)
(* takes events out of the stream until every expected key was seen, and   *)
(* then reports them in one batch event.  Every method is one action: the  *)
(* only awaits are the sleep of the timeout task and the call of the       *)
(* callback, after the batch has left the maps.                            *)
(*                                                                         *)
(* An event is a record; its key is its task_id or, when it has none, its  *)
(* source.  Both callbacks are set, as the PA's dispatcher does, so no     *)
(* batch:partial event is ever published.                                  *)
(***************************************************************************)
EXTENDS Naturals, Sequences

CONSTANTS Batches,    \* batch identifiers
          MaxExpects  \* bound on the calls of expect

VARIABLES order,     \* the keys of _pending, in the order of the dict
          pending,   \* _pending
          results,   \* _results
          timers,    \* the keys of _timeout_tasks
          current,   \* the number of the call of expect a batch id stands for; 0: none
          log        \* for every call of expect: what was expected, and its fate

batcherVars == <<order, pending, results, timers, current, log>>

Fates == {"open", "complete", "timeout", "cancelled", "replaced"}

BatcherInit ==
  /\ order = <<>>
  /\ pending = [b \in Batches |-> {}]
  /\ results = [b \in Batches |-> <<>>]
  /\ timers = {}
  /\ current = [b \in Batches |-> 0]
  /\ log = <<>>

\* The batch is in the maps.
Active(b) == current[b] # 0

\* The call of expect that b stands for has ended, with the results so far.
Ended(b, fate) ==
  [log EXCEPT ![current[b]] = [@ EXCEPT !.fate = fate, !.events = results[b]]]

\* The batch leaves the three maps.
Forget(b) ==
  /\ order' = SelectSeq(order, LAMBDA c : c # b)
  /\ pending' = [pending EXCEPT ![b] = {}]
  /\ results' = [results EXCEPT ![b] = <<>>]
  /\ timers' = timers \ {b}
  /\ current' = [current EXCEPT ![b] = 0]

\* A bug the runs must notice: the buffered results survive a new expectation.
ExpectKeepsResults(b, S) ==
  /\ Len(log) < MaxExpects
  /\ order' = IF Active(b) THEN order ELSE Append(order, b)
  /\ pending' = [pending EXCEPT ![b] = S]
  /\ UNCHANGED results
  /\ timers' = timers \cup {b}
  /\ current' = [current EXCEPT ![b] = Len(log) + 1]
  /\ log' = Append(IF Active(b) THEN Ended(b, "replaced") ELSE log,
                   [keys |-> S, fate |-> "open", events |-> <<>>])

\* expect: a batch id that is active is started over.
Expect(b, S) ==
  /\ Len(log) < MaxExpects
  /\ order' = IF Active(b) THEN order ELSE Append(order, b)
  /\ pending' = [pending EXCEPT ![b] = S]
  /\ results' = [results EXCEPT ![b] = <<>>]
  /\ timers' = timers \cup {b}
  /\ current' = [current EXCEPT ![b] = Len(log) + 1]
  /\ log' = Append(IF Active(b) THEN Ended(b, "replaced") ELSE log,
                   [keys |-> S, fate |-> "open", events |-> <<>>])

\* The batch that takes the event: the first in the dict that waits for its key.
Takes(b, e) ==
  \E i \in DOMAIN order :
    /\ order[i] = b
    /\ e.key \in pending[b]
    /\ \A j \in 1..(i - 1) : e.key \notin pending[order[j]]

\* on_event for an event that a batch takes and that is not its last one.
Buffer(b, e) ==
  /\ Takes(b, e)
  /\ pending[b] # {e.key}
  /\ pending' = [pending EXCEPT ![b] = @ \ {e.key}]
  /\ results' = [results EXCEPT ![b] = Append(@, e)]
  /\ UNCHANGED <<order, timers, current, log>>

\* A bug the runs must notice: the batch is reported when one key is missing.
CompleteTooEarly(b, e) ==
  /\ Takes(b, e)
  /\ \A k, l \in pending[b] \ {e.key} : k = l
  /\ log' = [log EXCEPT ![current[b]] =
               [@ EXCEPT !.fate = "complete", !.events = Append(results[b], e)]]
  /\ Forget(b)

\* on_event for the last one: _fire_batch, up to the call of the callback.
Complete(b, e) ==
  /\ Takes(b, e)
  /\ pending[b] = {e.key}
  /\ log' = [log EXCEPT ![current[b]] =
               [@ EXCEPT !.fate = "complete", !.events = Append(results[b], e)]]
  /\ Forget(b)

\* _watch_timeout after its sleep.
TimedOut(b) ==
  /\ b \in timers
  /\ log' = Ended(b, "timeout")
  /\ Forget(b)

\* cancel; of a batch that is not active it does nothing.
Cancel(b) ==
  /\ Active(b)
  /\ log' = Ended(b, "cancelled")
  /\ Forget(b)

-----------------------------------------------------------------------------
(* Properties.                                                             *)

\* A batch that is reported complete holds exactly one event for every key that
\* its own call of expect asked for, whatever other batches wait for the same
\* keys and however often the id was started over.
CompleteIsWhole ==
  \A n \in DOMAIN log : log[n].fate = "complete" =>
    /\ \A k \in log[n].keys : \E i \in DOMAIN log[n].events : log[n].events[i].key = k
    /\ \A i \in DOMAIN log[n].events : log[n].events[i].key \in log[n].keys
    /\ \A i, j \in DOMAIN log[n].events :
         log[n].events[i].key = log[n].events[j].key => i = j

\* What the n-th call of expect has collected: reported, dropped or still held.
Collected(n) ==
  {log[n].events[i] : i \in DOMAIN log[n].events} \cup
  UNION {{results[b][i] : i \in DOMAIN results[b]} : b \in {c \in Batches : current[c] = n}}

\* An event is collected for one call of expect only, and what was collected for
\* a batch that is started over never counts for the new one.
CollectedOnce ==
  \A m, n \in DOMAIN log : m # n => Collected(m) \cap Collected(n) = {}

\* No call of expect is forgotten: as long as it is open, an identifier stands for
\* it and has a timer running, whatever happened to earlier calls with the same id.
OpenHasTimer ==
  \A n \in DOMAIN log : log[n].fate = "open" => \E b \in Batches : current[b] = n /\ b \in timers
=============================================================================
