------------------------- MODULE SandboxManagerProofs -------------------------
(* Theorems about the sandbox manager, for every value of its constants. *)
EXTENDS SandboxManager, FiniteSetTheorems, TLAPS

-----------------------------------------------------------------------------
(* The records are those with numbers up to the counter, and every task,   *)
(* reset and pointer refers to one of them.                                *)

Recorded ==
  /\ \A s \in Boxes : state[s] = "none" <=> s > counter
  /\ \A s \in Boxes : state[s] = "destroyed" => s \in everDestroyed
  /\ \A t \in Tasks : task[t].at # "idle" => task[t].box \in Boxes /\ state[task[t].box] # "none"
  /\ \A r \in Resets : reset[r].at # "idle" => reset[r].box \in Boxes /\ state[reset[r].box] # "none"
  /\ shared # None => shared \in Boxes /\ mode[shared] = "shared" /\ state[shared] # "none"

\* The type invariant, what refers to what, and the two invariants about who
\* shares what; they are preserved together.
SharingInv == TypeOK /\ Recorded /\ IsolationHolds /\ OneSharedSandbox

\* Initially there are no records, so the invariant holds.
LEMMA SharingInit == Init => SharingInv
<1> SUFFICES ASSUME Init PROVE SharingInv
  OBVIOUS
<1>1. 0 \in 0..MaxBoxes
  BY SandboxAssumption
<1>2. TypeOK
  BY <1>1 DEF Init, TypeOK, States, Modes
<1>3. \A s \in Boxes : s > 0
  BY SandboxAssumption DEF Boxes
<1>4. Recorded
  BY <1>3 DEF Init, Recorded, Idle
<1>5. IsolationHolds /\ OneSharedSandbox
  BY DEF Init, IsolationHolds, OneSharedSandbox, Live
<1> QED BY <1>2, <1>4, <1>5 DEF SharingInv

\* Every step of a task or of a reset preserves the invariant.
LEMMA SharingStep == SharingInv /\ [Next]_vars => SharingInv'
<1> SUFFICES ASSUME SharingInv, [Next]_vars PROVE SharingInv'
  OBVIOUS
<1> USE DEF SharingInv, TypeOK, Recorded, Idle
<1>a. MaxBoxes \in Nat /\ AgentOf \in [Tasks -> Agents] /\ None \notin Boxes
  BY SandboxAssumption DEF Boxes, None
<1>1. ASSUME NEW t \in Tasks, Reuse(t) PROVE SharingInv'
  <2>1. shared \in Boxes /\ mode[shared] = "shared" /\ state[shared] # "none"
    BY <1>1 DEF Reuse
  <2>2. TypeOK'
    BY <1>a, <1>1, <2>1 DEF Reuse, At
  <2>3. Recorded'
    BY <1>1, <2>1 DEF Reuse, At
  <2>4. IsolationHolds'
    BY <1>1, <2>1 DEF Reuse, IsolationHolds, Modes
  <2>5. OneSharedSandbox'
    BY <1>1 DEF Reuse, OneSharedSandbox, Live
  <2> QED BY <2>2, <2>3, <2>4, <2>5
<1>2. ASSUME NEW t \in Tasks, NEW shareable \in BOOLEAN, Allocate(t, shareable) PROVE SharingInv'
  <2> DEFINE s == counter + 1
  <2>1. s \in Boxes /\ state[s] = "none" /\ counter' = s
    BY <1>a, <1>2 DEF Allocate, NewRecord, Boxes
  <2>2. state' = [state EXCEPT ![s] = "creating"] /\ agents' = [agents EXCEPT ![s] = {AgentOf[t]}]
        /\ mode' = [mode EXCEPT ![s] = IF shareable THEN "shared" ELSE "isolated"]
        /\ shared' = (IF shareable THEN s ELSE shared)
        /\ UNCHANGED <<reset, everDestroyed>>
    BY <1>2 DEF Allocate, NewRecord
  <2>3. \/ running' = running \cup {s} /\ task' = [task EXCEPT ![t] = [at |-> "starting", box |-> s]]
        \/ UNCHANGED <<running, task>>
    BY <1>2, <2>1 DEF Allocate, At
  <2>4. shareable => shared = None
    BY <1>2 DEF Allocate
  <2>5. TypeOK'
    <3>1. counter' \in 0..MaxBoxes
      BY <1>a, <2>1 DEF Boxes
    <3>2. state' \in [Boxes -> States] /\ mode' \in [Boxes -> Modes] /\ agents' \in [Boxes -> SUBSET Agents]
      BY <1>a, <2>1, <2>2 DEF States, Modes
    <3>3. shared' \in Boxes \cup {None} /\ everDestroyed' \subseteq Boxes
          /\ reset' \in [Resets -> {Idle} \cup [at : ResetSteps \ {"idle"}, box : Boxes]]
      BY <2>1, <2>2
    <3> HIDE DEF s
    <3>4. running' \subseteq Boxes
      BY <2>1, <2>3
    <3>5. task' \in [Tasks -> {Idle} \cup [at : {"starting", "holding", "auditing", "destroying"}, box : Boxes]]
      BY <2>1, <2>3
    <3> QED BY <3>1, <3>2, <3>3, <3>4, <3>5
  <2>6. Recorded'
    <3>1. \A x \in Boxes : state'[x] = "none" <=> x > counter'
      BY <2>1, <2>2 DEF Boxes
    <3>2. \A x \in Boxes : state[x] # "none" => state'[x] = state[x] /\ mode'[x] = mode[x]
      BY <2>1, <2>2
    <3>3. state'[s] = "creating" /\ (shareable => mode'[s] = "shared")
      BY <2>1, <2>2
    <3>4. \A x \in Boxes : state'[x] = "destroyed" => x \in everDestroyed'
      BY <2>1, <2>2
    <3> HIDE DEF s
    <3>5. \A o \in Tasks : task'[o].at # "idle" => task'[o].box \in Boxes /\ state'[task'[o].box] # "none"
      BY <2>1, <2>3, <3>2, <3>3
    <3>6. \A r \in Resets : reset'[r].at # "idle" => reset'[r].box \in Boxes /\ state'[reset'[r].box] # "none"
      BY <2>2, <3>2
    <3>7. shared' # None => shared' \in Boxes /\ mode'[shared'] = "shared" /\ state'[shared'] # "none"
      BY <2>1, <2>2, <3>2, <3>3
    <3> QED BY <3>1, <3>4, <3>5, <3>6, <3>7
  <2>7. IsolationHolds'
    BY <2>1, <2>2 DEF IsolationHolds
  <2>8. OneSharedSandbox'
    BY <1>a, <2>1, <2>2, <2>4 DEF OneSharedSandbox, Live
  <2> QED BY <2>5, <2>6, <2>7, <2>8
<1>3. ASSUME NEW t \in Tasks, Started(t) PROVE SharingInv'
  <2>1. task[t].box \in Boxes /\ state[task[t].box] # "none"
    BY <1>3 DEF Started
  <2>2. TypeOK' /\ Recorded'
    BY <1>3, <2>1 DEF Started, At, States
  <2>3. IsolationHolds' /\ OneSharedSandbox'
    BY <1>3, <2>1 DEF Started, IsolationHolds, OneSharedSandbox, Live
  <2> QED BY <2>2, <2>3
<1>4. ASSUME NEW t \in Tasks, Release(t) PROVE SharingInv'
  <2>1. task[t].box \in Boxes
    BY <1>4 DEF Release
  <2>2. TypeOK' /\ Recorded'
    BY <1>4, <2>1 DEF Release, At
  <2>3. IsolationHolds' /\ OneSharedSandbox'
    BY <1>4, <2>1 DEF Release, IsolationHolds, OneSharedSandbox, Live
  <2> QED BY <2>2, <2>3
<1>5. ASSUME NEW t \in Tasks, Audited(t) PROVE SharingInv'
  <2>1. task[t].box \in Boxes
    BY <1>5 DEF Audited
  <2>2. UNCHANGED <<counter, state, mode, agents, shared, reset, everDestroyed>> /\ running' \subseteq running
    BY <1>5 DEF Audited, Remove
  <2>3. task' = [task EXCEPT ![t] = [at |-> "destroying", box |-> task[t].box]]
        \/ task' = [task EXCEPT ![t] = Idle]
    BY <1>5 DEF Audited, At, Idle
  <2>4. state[task[t].box] # "none"
    BY <1>5 DEF Audited
  <2>5. TypeOK' /\ Recorded'
    BY <2>1, <2>2, <2>3, <2>4
  <2>6. IsolationHolds' /\ OneSharedSandbox'
    BY <2>2 DEF IsolationHolds, OneSharedSandbox, Live
  <2> QED BY <2>5, <2>6
<1>6. ASSUME NEW t \in Tasks, Destroyed(t) PROVE SharingInv'
  <2>1. task[t].box \in Boxes /\ state[task[t].box] # "none"
    BY <1>6 DEF Destroyed
  <2>2. TypeOK' /\ Recorded'
    BY <1>6, <2>1 DEF Destroyed, At, States
  <2>3. IsolationHolds' /\ OneSharedSandbox'
    BY <1>6, <2>1 DEF Destroyed, IsolationHolds, OneSharedSandbox, Live
  <2> QED BY <2>2, <2>3
<1>7. ASSUME NEW r \in Resets, NEW s \in Boxes, BeginReset(r, s) PROVE SharingInv'
  <2>1. TypeOK' /\ Recorded'
    BY <1>7 DEF BeginReset, States, ResetSteps, Remove
  <2>2. IsolationHolds' /\ OneSharedSandbox'
    BY <1>7 DEF BeginReset, IsolationHolds, OneSharedSandbox, Live
  <2> QED BY <2>1, <2>2
<1>8. ASSUME NEW r \in Resets, Cleared(r) PROVE SharingInv'
  <2>1. reset[r].box \in Boxes
    BY <1>8 DEF Cleared, ResetSteps
  <2>2. TypeOK' /\ Recorded'
    BY <1>8, <2>1 DEF Cleared, ResetSteps
  <2>3. IsolationHolds' /\ OneSharedSandbox'
    BY <1>8 DEF Cleared, IsolationHolds, OneSharedSandbox, Live
  <2> QED BY <2>2, <2>3
<1>9. ASSUME NEW r \in Resets, Restarted(r) PROVE SharingInv'
  <2>1. reset[r].box \in Boxes /\ state[reset[r].box] # "none"
    BY <1>9 DEF Restarted
  <2>2. TypeOK' /\ Recorded'
    BY <1>9, <2>1 DEF Restarted, States, ResetSteps
  <2>3. IsolationHolds' /\ OneSharedSandbox'
    BY <1>9, <2>1 DEF Restarted, IsolationHolds, OneSharedSandbox, Live
  <2> QED BY <2>2, <2>3
<1>10. CASE UNCHANGED vars
  BY <1>10 DEF vars, IsolationHolds, OneSharedSandbox, Live
<1> QED BY <1>1, <1>2, <1>3, <1>4, <1>5, <1>6, <1>7, <1>8, <1>9, <1>10 DEF Next, TaskStep

\* An isolated sandbox is only ever attached to one agent.
THEOREM Isolation == Spec => []IsolationHolds
<1>1. SharingInv => IsolationHolds
  BY DEF SharingInv
<1> QED BY <1>1, SharingInit, SharingStep, PTL DEF Spec

\* There is at most one live shared sandbox, and the pointer finds it.
THEOREM OneShared == Spec => []OneSharedSandbox
<1>1. SharingInv => OneSharedSandbox
  BY DEF SharingInv
<1> QED BY <1>1, SharingInit, SharingStep, PTL DEF Spec

-----------------------------------------------------------------------------
(* The quota.                                                              *)

\* There are finitely many records, so they can be counted.
LEMMA BoxesFinite == IsFiniteSet(Boxes)
  BY SandboxAssumption, FS_Interval DEF Boxes

\* A subset of a finite set of sandboxes with one element more at most.
LEMMA OneMore ==
  ASSUME NEW S, NEW T, NEW s, IsFiniteSet(S), T \subseteq S \cup {s}
  PROVE  Cardinality(T) <= Cardinality(S) + 1
<1>1. IsFiniteSet(S \cup {s}) /\ Cardinality(S \cup {s}) <= Cardinality(S) + 1
  <2>1. Cardinality(S) \in Nat
    BY FS_CardinalityType
  <2>2. IsFiniteSet(S \cup {s})
        /\ Cardinality(S \cup {s}) = IF s \in S THEN Cardinality(S) ELSE Cardinality(S) + 1
    BY FS_AddElement
  <2> QED BY <2>1, <2>2
<1>2. Cardinality(T) <= Cardinality(S \cup {s}) /\ IsFiniteSet(T)
  BY <1>1, FS_Subset
<1> QED BY <1>1, <1>2, FS_CardinalityType

\* A step that makes no new live sandbox keeps the quota.
LEMMA QuotaQuiet == ASSUME QuotaHolds, Live' \subseteq Live PROVE QuotaHolds'
<1>1. IsFiniteSet(Live) /\ Live \subseteq Boxes
  BY BoxesFinite, FS_Subset DEF Live
<1>2. Cardinality(Live') <= Cardinality(Live)
  BY <1>1, FS_Subset
<1> QED BY <1>1, <1>2, FS_Subset, FS_CardinalityType, SandboxAssumption DEF QuotaHolds

\* Initially nothing is live.
LEMMA QuotaInit == Init => QuotaHolds
<1> SUFFICES ASSUME Init PROVE QuotaHolds
  OBVIOUS
<1>1. Live = {}
  BY DEF Init, Live
<1> QED BY <1>1, FS_EmptySet, SandboxAssumption DEF QuotaHolds

\* Only Allocate adds a live sandbox, and it has counted the active ones before.
LEMMA QuotaStep == SharingInv /\ QuotaHolds /\ [Next]_vars => QuotaHolds'
<1> SUFFICES ASSUME SharingInv, QuotaHolds, [Next]_vars PROVE QuotaHolds'
  OBVIOUS
<1>1. ASSUME NEW t \in Tasks, NEW shareable \in BOOLEAN, Allocate(t, shareable) PROVE QuotaHolds'
  <2>1. Live \subseteq Active
    BY DEF Live, Active, SharingInv, Recorded
  <2>2. Live' \subseteq Active \cup {counter + 1}
    BY <1>1, <2>1 DEF Allocate, NewRecord, Live, SharingInv, TypeOK
  <2>3. IsFiniteSet(Active)
    BY BoxesFinite, FS_Subset DEF Active
  <2>4. Cardinality(Live') <= Cardinality(Active) + 1
    BY <2>2, <2>3, OneMore
  <2>5. Cardinality(Active) < Quota
    BY <1>1 DEF Allocate, WithinQuota
  <2>6. Cardinality(Active) \in Nat /\ Cardinality(Live') \in Nat
    BY <2>2, <2>3, FS_CardinalityType, FS_AddElement, FS_Subset
  <2> QED BY <2>4, <2>5, <2>6, SandboxAssumption DEF QuotaHolds
<1>2. CASE \A t \in Tasks, shareable \in BOOLEAN : ~Allocate(t, shareable)
  <2>1. \A s \in Boxes : state'[s] # "none" => state[s] # "none"
    BY <1>2 DEF Next, TaskStep, Reuse, Started, Release, Audited, Destroyed, BeginReset, Cleared,
                Restarted, vars, SharingInv, TypeOK, Recorded
  <2>2. everDestroyed \subseteq everDestroyed'
    BY <1>2 DEF Next, TaskStep, Reuse, Started, Release, Audited, Destroyed, BeginReset, Cleared,
                Restarted, vars
  <2>3. Live' \subseteq Live
    BY <2>1, <2>2 DEF Live
  <2> QED BY <2>3, QuotaQuiet
<1> QED BY <1>1, <1>2

\* Never more than Quota sandboxes are allocated and not yet destroyed.
THEOREM QuotaTheorem == Spec => []QuotaHolds
<1>1. Init => SharingInv /\ QuotaHolds
  BY SharingInit, QuotaInit
<1>2. (SharingInv /\ QuotaHolds) /\ [Next]_vars => (SharingInv /\ QuotaHolds)'
  BY SharingStep, QuotaStep
<1> QED BY <1>1, <1>2, PTL DEF Spec

-----------------------------------------------------------------------------
(* READY means running.                                                    *)

\* The container of s is there, or somebody has taken it away on purpose.
Accounted(s) ==
  \/ s \in running \cup everDestroyed
  \/ \E t \in Tasks : task[t] = [at |-> "destroying", box |-> s]
  \/ \E r \in Resets : reset[r].box = s /\ reset[r].at \in {"clearing", "failed"}

\* So it is of the records that are READY, and of those a call is about to make
\* READY: others may remove the container while that call is suspended.
AccountedInv ==
  /\ \A s \in Boxes : state[s] = "ready" => Accounted(s)
  /\ \A t \in Tasks : task[t].at = "starting" => Accounted(task[t].box)
  /\ \A r \in Resets : reset[r].at = "recreating" => Accounted(reset[r].box)

\* What is accounted for stays so: each step that removes a container, or ends
\* one of the reasons for its absence, leaves another reason.
LEMMA AccountedStays ==
  ASSUME SharingInv, [Next]_vars, NEW s \in Boxes, Accounted(s)
  PROVE  Accounted(s)'
<1> USE DEF SharingInv, TypeOK, Accounted
<1>1. ASSUME NEW t \in Tasks, Reuse(t) PROVE Accounted(s)'
  BY <1>1 DEF Reuse, At
<1>2. ASSUME NEW t \in Tasks, NEW shareable \in BOOLEAN, Allocate(t, shareable) PROVE Accounted(s)'
  <2>1. /\ running \subseteq running' /\ UNCHANGED <<reset, everDestroyed>>
        /\ task[t].at = "idle"
        /\ \A u \in Tasks \ {t} : task'[u] = task[u]
    BY <1>2 DEF Allocate, At
  <2> QED BY <2>1
<1>3. ASSUME NEW t \in Tasks, Started(t) PROVE Accounted(s)'
  BY <1>3 DEF Started, At
<1>4. ASSUME NEW t \in Tasks, Release(t) PROVE Accounted(s)'
  BY <1>4 DEF Release, At
<1>5. ASSUME NEW t \in Tasks, Audited(t) PROVE Accounted(s)'
  <2>1. UNCHANGED <<reset, everDestroyed>> /\ task[t].at = "auditing"
        /\ \A u \in Tasks \ {t} : task'[u] = task[u]
    BY <1>5 DEF Audited, At
  <2>2. CASE running' = running
    BY <2>1, <2>2
  <2>3. CASE running' = running \ {task[t].box} /\ task'[t] = [at |-> "destroying", box |-> task[t].box]
    BY <2>1, <2>3
  <2> QED BY <1>5, <2>2, <2>3 DEF Audited, Remove, At
<1>6. ASSUME NEW t \in Tasks, Destroyed(t) PROVE Accounted(s)'
  <2>1. /\ UNCHANGED <<running, reset>> /\ everDestroyed' = everDestroyed \cup {task[t].box}
        /\ \A u \in Tasks \ {t} : task'[u] = task[u]
    BY <1>6 DEF Destroyed, At
  <2> QED BY <2>1
<1>7. ASSUME NEW r \in Resets, NEW b \in Boxes, BeginReset(r, b) PROVE Accounted(s)'
  <2>1. /\ UNCHANGED <<task, everDestroyed>> /\ running' \in {running \ {b}, running}
        /\ reset'[r] = [at |-> "clearing", box |-> b] /\ reset[r].at = "idle"
        /\ \A q \in Resets \ {r} : reset'[q] = reset[q]
    BY <1>7 DEF BeginReset, Remove
  <2> QED BY <2>1
<1>8. ASSUME NEW r \in Resets, Cleared(r) PROVE Accounted(s)'
  <2>1. /\ UNCHANGED <<task, everDestroyed>> /\ running \subseteq running'
        /\ \A q \in Resets \ {r} : reset'[q] = reset[q]
        /\ \/ reset[r].box \in running'
           \/ reset'[r].box = reset[r].box /\ reset'[r].at = "failed"
    <3>1. reset[r] \in [at : ResetSteps \ {"idle"}, box : Boxes]
      BY <1>8 DEF Cleared, Idle
    <3> QED BY <1>8, <3>1 DEF Cleared
  <2> QED BY <2>1
<1>9. ASSUME NEW r \in Resets, Restarted(r) PROVE Accounted(s)'
  <2>1. /\ UNCHANGED <<task, everDestroyed, running>> /\ reset[r].at = "recreating"
        /\ \A q \in Resets \ {r} : reset'[q] = reset[q]
    BY <1>9 DEF Restarted
  <2> QED BY <2>1
<1>10. CASE UNCHANGED vars
  BY <1>10 DEF vars
<1> QED BY <1>1, <1>2, <1>3, <1>4, <1>5, <1>6, <1>7, <1>8, <1>9, <1>10 DEF Next, TaskStep

\* Initially nothing is READY or about to be.
LEMMA AccountedInit == Init => AccountedInv
BY DEF Init, AccountedInv, Idle

\* Allocate and Cleared create the containers of what will be READY.
LEMMA AccountedStep == SharingInv /\ AccountedInv /\ [Next]_vars => AccountedInv'
<1> SUFFICES ASSUME SharingInv, AccountedInv, [Next]_vars PROVE AccountedInv'
  OBVIOUS
<1>1. \A s \in Boxes : Accounted(s) => Accounted(s)'
  BY AccountedStays
<1>2. /\ \A t \in Tasks : task[t].at # "idle" => task[t].box \in Boxes
      /\ \A r \in Resets : reset[r].at # "idle" => reset[r].box \in Boxes
  BY DEF SharingInv, Recorded
<1>3. ASSUME NEW s \in Boxes, state'[s] = "ready" PROVE Accounted(s)'
  <2>1. \/ state[s] = "ready"
        \/ \E t \in Tasks : Started(t) /\ task[t].box = s
        \/ \E r \in Resets : Restarted(r) /\ reset[r].box = s
    BY <1>3 DEF Next, TaskStep, Reuse, Allocate, NewRecord, Started, Release, Audited, Destroyed,
                BeginReset, Cleared, Restarted, vars, SharingInv, TypeOK
  <2> QED BY <2>1, <1>1 DEF AccountedInv, Started, Restarted
<1>4. ASSUME NEW t \in Tasks, task'[t].at = "starting" PROVE (Accounted(task[t].box))'
  <2>1. \/ task'[t] = task[t]
        \/ \E shareable \in BOOLEAN : Allocate(t, shareable) /\ task'[t].box \in running'
    BY <1>4 DEF Next, TaskStep, Reuse, Allocate, Started, Release, Audited, Destroyed,
                BeginReset, Cleared, Restarted, vars, SharingInv, TypeOK, At
  <2> QED BY <2>1, <1>1, <1>2, <1>4 DEF AccountedInv, Accounted
<1>5. ASSUME NEW r \in Resets, reset'[r].at = "recreating" PROVE (Accounted(reset[r].box))'
  <2>a. ASSUME NEW q \in Resets, Cleared(q) PROVE reset'[r] = reset[r] \/ reset'[r].box \in running'
    <3>1. reset[q] \in [at : ResetSteps \ {"idle"}, box : Boxes]
      BY <2>a DEF Cleared, Idle, SharingInv, TypeOK
    <3> QED BY <2>a, <3>1, <1>5 DEF Cleared, SharingInv, TypeOK
  <2>b. ASSUME NEW q \in Resets, NEW s \in Boxes, BeginReset(q, s) PROVE reset'[r] = reset[r]
    BY <1>5, <2>b DEF BeginReset, SharingInv, TypeOK
  <2>c. ASSUME NEW q \in Resets, Restarted(q) PROVE reset'[r] = reset[r]
    <3>1. reset[q] \in [at : ResetSteps \ {"idle"}, box : Boxes]
      BY <2>c DEF Restarted, Idle, SharingInv, TypeOK
    <3> QED BY <1>5, <2>c, <3>1 DEF Restarted, SharingInv, TypeOK
  <2>1. reset'[r] = reset[r] \/ reset'[r].box \in running'
    BY <2>a, <2>b, <2>c DEF Next, TaskStep, Reuse, Allocate, Started, Release, Audited, Destroyed, vars
  <2> QED BY <2>1, <1>1, <1>2, <1>5 DEF AccountedInv, Accounted
<1> QED BY <1>3, <1>4, <1>5 DEF AccountedInv

\* A sandbox that is READY has its container, unless somebody has taken it away
\* on purpose and its record still tells.
THEOREM ReadyMeansRunning == Spec => []ReadySandboxRuns
<1>1. Init => SharingInv /\ AccountedInv
  BY SharingInit, AccountedInit
<1>2. (SharingInv /\ AccountedInv) /\ [Next]_vars => (SharingInv /\ AccountedInv)'
  BY SharingStep, AccountedStep
<1>3. AccountedInv => ReadySandboxRuns
  BY DEF AccountedInv, Accounted, ReadySandboxRuns
<1> QED BY <1>1, <1>2, <1>3, PTL DEF Spec
=============================================================================
