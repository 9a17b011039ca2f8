-------------------------------- MODULE KVStore --------------------------------
(***************************************************************************)
(* The session-scoped key-value store of src/faith_mcp/kv_store.  Every    *)
(* command of a call to Redis is a step of its own: the value is written   *)
(* before the index of persistent keys, and the cleanup of a session reads *)
(* the index, deletes the other keys one by one and then the index.        *)
(***************************************************************************)
EXTENDS Naturals, FiniteSets

CONSTANTS Keys, KVSessions, KVClients,
          MaxSets          \* bound on the calls of set

ASSUME KVConstants == MaxSets \in Nat

NoCall == [op |-> "none"]

VARIABLES stored,      \* the keys of each session that have a value
          expiring,    \* those with a time to live
          persistent,  \* the index of each session
          pending,     \* what each client has yet to do
          cleaning,    \* a cleanup: the index it read, and the keys left to see
          durable,     \* persistent keys that were set before the first cleanup
          sets

kvVars == <<stored, expiring, persistent, pending, cleaning, durable, sets>>

NotCleaning == [on |-> FALSE, keep |-> {}, left |-> {}]

KVInit ==
  /\ stored = [s \in KVSessions |-> {}]
  /\ expiring = [s \in KVSessions |-> {}]
  /\ persistent = [s \in KVSessions |-> {}]
  /\ pending = [c \in KVClients |-> NoCall]
  /\ cleaning = [s \in KVSessions |-> NotCleaning]
  /\ durable = [s \in KVSessions |-> {}]
  /\ sets = 0

\* set: SET or SETEX, ...
SetValue(c, s, k, ttl, keep) ==
  /\ pending[c] = NoCall /\ sets < MaxSets
  /\ sets' = sets + 1
  /\ stored' = [stored EXCEPT ![s] = @ \cup {k}]
  /\ expiring' = [expiring EXCEPT ![s] = IF ttl THEN @ \cup {k} ELSE @ \ {k}]
  /\ pending' = [pending EXCEPT ![c] = [op |-> "index", s |-> s, k |-> k, keep |-> keep]]
  /\ durable' = [durable EXCEPT ![s] = @ \ {k}]
  /\ UNCHANGED <<persistent, cleaning>>

\* ... then SADD or SREM.  The second half of delete is a SREM as well.
SetIndex(c) ==
  /\ pending[c].op = "index"
  /\ LET s == pending[c].s k == pending[c].k keep == pending[c].keep
     IN /\ persistent' = [persistent EXCEPT ![s] = IF keep THEN @ \cup {k} ELSE @ \ {k}]
        /\ durable' = [durable EXCEPT ![s] = IF keep /\ k \in stored[s] /\ ~cleaning[s].on
                                             THEN @ \cup {k} ELSE @ \ {k}]
  /\ pending' = [pending EXCEPT ![c] = NoCall]
  /\ UNCHANGED <<stored, expiring, cleaning, sets>>

\* delete: DEL, then SREM.
DeleteKey(c, s, k) ==
  /\ pending[c] = NoCall /\ k \in stored[s]
  /\ stored' = [stored EXCEPT ![s] = @ \ {k}]
  /\ expiring' = [expiring EXCEPT ![s] = @ \ {k}]
  /\ pending' = [pending EXCEPT ![c] = [op |-> "index", s |-> s, k |-> k, keep |-> FALSE]]
  /\ durable' = [durable EXCEPT ![s] = @ \ {k}]
  /\ UNCHANGED <<persistent, cleaning, sets>>

\* Redis drops a key when its time has come; the index is not told.
Expire(s, k) ==
  /\ k \in expiring[s]
  /\ stored' = [stored EXCEPT ![s] = @ \ {k}]
  /\ expiring' = [expiring EXCEPT ![s] = @ \ {k}]
  /\ durable' = [durable EXCEPT ![s] = @ \ {k}]
  /\ UNCHANGED <<persistent, pending, cleaning, sets>>

\* A bug the runs must notice: the cleanup does not read the index.
CleanupWithoutIndex(s) ==
  /\ ~cleaning[s].on /\ stored[s] # {}
  /\ cleaning' = [cleaning EXCEPT ![s] = [on |-> TRUE, keep |-> {}, left |-> stored[s]]]
  /\ UNCHANGED <<stored, expiring, persistent, pending, durable, sets>>

\* cleanup_session: SMEMBERS.  The scan that follows sees a key that is there
\* all the time, and may see one that comes.
CleanupBegins(s) ==
  /\ ~cleaning[s].on /\ stored[s] # {}
  /\ cleaning' = [cleaning EXCEPT ![s] =
                    [on |-> TRUE, keep |-> persistent[s], left |-> stored[s]]]
  /\ UNCHANGED <<stored, expiring, persistent, pending, durable, sets>>

\* The scan returns a key and deletes it, unless the index held it.
CleanupSees(s, k) ==
  /\ cleaning[s].on /\ k \in stored[s] \cup cleaning[s].left
  /\ cleaning' = [cleaning EXCEPT ![s].left = @ \ {k}]
  /\ IF k \in cleaning[s].keep THEN UNCHANGED <<stored, expiring>>
     ELSE /\ stored' = [stored EXCEPT ![s] = @ \ {k}]
          /\ expiring' = [expiring EXCEPT ![s] = @ \ {k}]
  /\ UNCHANGED <<persistent, pending, durable, sets>>

\* The index is deleted: a second cleanup keeps nothing.
CleanupEnds(s) ==
  /\ cleaning[s].on /\ cleaning[s].left = {}
  /\ cleaning' = [cleaning EXCEPT ![s] = NotCleaning]
  /\ persistent' = [persistent EXCEPT ![s] = {}]
  /\ durable' = [durable EXCEPT ![s] = {}]
  /\ UNCHANGED <<stored, expiring, pending, sets>>

KVNext ==
  \/ \E c \in KVClients : \/ SetIndex(c)
                          \/ \E s \in KVSessions, k \in Keys :
                               \/ \E ttl, keep \in BOOLEAN : SetValue(c, s, k, ttl, keep)
                               \/ DeleteKey(c, s, k)
  \/ \E s \in KVSessions : \/ CleanupBegins(s) \/ CleanupEnds(s)
                           \/ \E k \in Keys : Expire(s, k) \/ CleanupSees(s, k)

(***************************************************************************)
(* A key that was marked persistent before the cleanup of its session      *)
(* began, and has neither expired nor been set or deleted since, survives  *)
(* the cleanup, whatever the clients do meanwhile.                         *)
(***************************************************************************)
PersistentSurvivesCleanup ==
  \A s \in KVSessions : durable[s] \subseteq stored[s]
=============================================================================
