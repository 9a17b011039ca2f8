----------------------------- MODULE ApprovalFlow -----------------------------
(***************************************************************************)
(* The approval request/response flow of                                   *)
(* src/faith_pa/security/approval_flow.py together with the engine it      *)
(* updates.  Everything runs on one asyncio loop, so an action is the code *)
(* between two awaits:                                                     *)
(*                                                                         *)
(*   request_approval   Request -> (await publish) -> Published            *)
(*                      -> (await future) -> Return | TimeOut | Cancel...  *)
(*   resolve_request    BeginResolve -> (await publish) -> FinishResolve   *)
(*   clear_session      ClearSession                                       *)
(*                                                                         *)
(* and the process may stop between two of them, or inside the rewriting   *)
(* of security.yaml, and start again.                                      *)
(***************************************************************************)
EXTENDS ApprovalEngine, Sequences

CONSTANTS Requests,    \* the calls of request_approval
          Calls,       \* the calls of resolve_request
          Decisions,   \* the decisions users take
          Scopes,      \* the scopes a rule can be generated for
          Cover,       \* Cover[x][s]: the rule generated for action x, scope s
          Overrides,   \* rules the user may write in place of the generated one
          MaxEra,      \* bound on ClearSession and restarts
          MaxEdits     \* bound on the edits of security.yaml by hand

AllDecisions == {"allow_once", "approve_session", "always_allow",
                 "always_ask", "deny_once", "deny_permanently"}

ASSUME ConstantsAssumption ==
  /\ Decisions \subseteq AllDecisions
  /\ Cover \in [Actions -> [Scopes -> Rules]]
  /\ Overrides \subseteq Rules
  /\ MaxEra \in Nat
  /\ MaxEdits \in Nat

VARIABLES pc,         \* where the call of request_approval is
          info,       \* its ApprovalRequest
          outcome,    \* what its caller was told
          pending,    \* the requests in self.pending
          waiters,    \* the requests with a future in self._futures
          future,     \* the state of the future of a request
          counter,    \* self._counter
          call,       \* the calls of resolve_request
          audit,      \* the decisions in the audit log, per request
          era,        \* how often the session was cleared or the process restarted
          edits,      \* the number of edits by hand so far
          revoked,    \* the learned rules deleted by hand
          torn        \* whether a stop inside a write has lost the file's contents

flowVars  == <<pc, info, outcome, pending, waiters, future, counter>>
ghostVars == <<era, edits, revoked, torn>>
vars == <<securityYaml, agentRules, sessionMemory, flowVars, call, audit, ghostVars>>

Permanent == {"always_allow", "always_ask", "deny_permanently"}
NoRule == {}

\* PERMANENT_RULE_SECTION.
SectionOf == [d \in Permanent |->
  CASE d = "always_allow"     -> "always_allow_learned"
    [] d = "always_ask"       -> "always_ask_learned"
    [] d = "deny_permanently" -> "always_deny_learned"]

Exceptions == {"timeout", "cancelled", "lost"}
InfoType == [agent : Agents, action : Actions, id : Nat, era : Nat]
NoInfo == [id |-> 0]
CallType == [at : {"publishing", "done", "cancelled", "lost"}, card : Requests,
             req : Requests, decision : AllDecisions, rule : Rules]
Idle == [at |-> "idle"]

TypeOK ==
  /\ EngineTypeOK
  /\ pc \in [Requests -> {"new", "publishing", "waiting", "done"}]
  /\ info \in [Requests -> InfoType \cup {NoInfo}]
  /\ outcome \in [Requests -> {"none"} \cup AllDecisions \cup Exceptions]
  /\ pending \subseteq Requests
  /\ waiters \subseteq Requests
  /\ future \in [Requests -> {"unset", "cancelled"} \cup AllDecisions]
  /\ counter \in Nat
  /\ call \in [Calls -> CallType \cup {Idle}]
  /\ audit \in [Requests -> Seq(AllDecisions)]
  /\ era \in Nat
  /\ edits \in Nat
  /\ revoked \subseteq (Learned \X Agents \X Rules)
  /\ torn \in BOOLEAN

Init ==
  /\ EngineInit
  /\ pc = [u \in Requests |-> "new"]
  /\ info = [u \in Requests |-> NoInfo]
  /\ outcome = [u \in Requests |-> "none"]
  /\ pending = {}
  /\ waiters = {}
  /\ future = [u \in Requests |-> "unset"]
  /\ counter = 0
  /\ call = [k \in Calls |-> Idle]
  /\ audit = [u \in Requests |-> <<>>]
  /\ era = 0
  /\ edits = 0
  /\ revoked = {}
  /\ torn = FALSE

-----------------------------------------------------------------------------
(* request_approval.                                                       *)

\* A bug the runs must notice: ids are numbered by the requests still pending.
RequestCountsPending(u, a, x) ==
  /\ pc[u] = "new"
  /\ pc' = [pc EXCEPT ![u] = "publishing"]
  /\ counter' = Cardinality(pending) + 1
  /\ info' = [info EXCEPT ![u] =
       [agent |-> a, action |-> x, id |-> counter', era |-> era]]
  /\ pending' = pending \cup {u}
  /\ waiters' = waiters \cup {u}
  /\ UNCHANGED <<securityYaml, engineVars, outcome, future, call, audit, ghostVars>>

\* From the call up to the await of the "approval:requested" event.
Request(u, a, x) ==
  /\ pc[u] = "new"
  /\ pc' = [pc EXCEPT ![u] = "publishing"]
  /\ counter' = counter + 1
  /\ info' = [info EXCEPT ![u] =
       [agent |-> a, action |-> x, id |-> counter', era |-> era]]
  /\ pending' = pending \cup {u}
  /\ waiters' = waiters \cup {u}
  /\ UNCHANGED <<securityYaml, engineVars, outcome, future, call, audit, ghostVars>>

\* The event is out and the future is not done: the call suspends on it.
Published(u) ==
  /\ pc[u] = "publishing"
  /\ future[u] = "unset"
  /\ pc' = [pc EXCEPT ![u] = "waiting"]
  /\ UNCHANGED <<securityYaml, engineVars, info, outcome, pending, waiters, future,
                 counter, call, audit, ghostVars>>

\* The finally clause, which runs however the await of the future ended.
Leave(u, o) ==
  /\ pc' = [pc EXCEPT ![u] = "done"]
  /\ outcome' = [outcome EXCEPT ![u] = o]
  /\ waiters' = waiters \ {u}
  /\ pending' = pending \ {u}
  /\ UNCHANGED <<securityYaml, engineVars, info, future, counter, call, audit, ghostVars>>

\* The future is done: the call returns its value, or raises CancelledError.
\* An answer that came during the publish is found without suspending again.
Return(u) ==
  /\ pc[u] \in {"publishing", "waiting"}
  /\ future[u] # "unset"
  /\ Leave(u, future[u])

\* wait_for gives up, if the caller gave a timeout at all: the action may happen
\* but need not.  The timer may also fire when the future is done but the
\* caller has not run yet; which of the two it then sees depends on the version
\* of asyncio, so both are possible.
TimeOut(u) ==
  /\ pc[u] = "waiting"
  /\ Leave(u, "timeout")

\* The calling task is cancelled while it waits for the future.
CancelWaiting(u) ==
  /\ pc[u] = "waiting"
  /\ Leave(u, "cancelled")

\* The calling task is cancelled inside the publish, which is before the try:
\* the request stays in both maps.
CancelPublishing(u) ==
  /\ pc[u] = "publishing"
  /\ pc' = [pc EXCEPT ![u] = "done"]
  /\ outcome' = [outcome EXCEPT ![u] = "cancelled"]
  /\ UNCHANGED <<securityYaml, engineVars, info, pending, waiters, future,
                 counter, call, audit, ghostVars>>

-----------------------------------------------------------------------------
(* resolve_request.                                                        *)

\* The request that an id names now.  The user answers a card; the card shows
\* the request it was made for, the code knows the id only.
Named(card) == {u \in pending : info[u].id = info[card].id}

\* The rule a decision leaves behind.  An override only replaces the rule of a
\* permanent decision.
RulesFor(u, d) ==
  CASE d = "approve_session" -> {Cover[info[u].action][s] : s \in Scopes}
    [] d \in Permanent -> {Cover[info[u].action][s] : s \in Scopes} \cup Overrides
    [] OTHER -> {NoRule}

\* _write_learned_rule: the file with one more rule in a learned section.
WithRule(table, section, a, rule) == [table EXCEPT ![section][a] = @ \cup {rule}]

\* A bug the runs must notice: allow-once decisions are remembered as well.
ApplyRemembersOnce(u, d, rule) ==
  LET a == info[u].agent IN
  CASE d \in {"approve_session", "allow_once"} ->
         /\ RecordSessionApproval(a, IF d = "allow_once" THEN {info[u].action} ELSE rule)
         /\ UNCHANGED <<securityYaml, agentRules, revoked>>
    [] d \in Permanent ->
         /\ securityYaml' = WithRule(securityYaml, SectionOf[d], a, rule)
         /\ agentRules' = securityYaml'
         /\ revoked' = revoked \ {<<SectionOf[d], a, rule>>}
         /\ UNCHANGED sessionMemory
    [] OTHER -> UNCHANGED <<securityYaml, engineVars, revoked>>

\* What a decision does to the engine and to security.yaml.
Apply(u, d, rule) ==
  LET a == info[u].agent IN
  CASE d = "approve_session" ->
         /\ RecordSessionApproval(a, rule)
         /\ UNCHANGED <<securityYaml, agentRules, revoked>>
    [] d \in Permanent ->
         /\ securityYaml' = WithRule(securityYaml, SectionOf[d], a, rule)
         /\ agentRules' = securityYaml'
         /\ revoked' = revoked \ {<<SectionOf[d], a, rule>>}
         /\ UNCHANGED sessionMemory
    [] OTHER -> UNCHANGED <<securityYaml, engineVars, revoked>>

\* From the call up to the await of the "approval:decision" event.  An id that
\* names no pending request raises KeyError and changes nothing.
BeginResolve(k, card, d) ==
  /\ call[k] = Idle
  /\ pc[card] # "new"
  /\ \E u \in Named(card) : \E rule \in RulesFor(u, d) :
       /\ call' = [call EXCEPT ![k] = [at |-> "publishing", card |-> card, req |-> u,
                                       decision |-> d, rule |-> rule]]
       /\ Apply(u, d, rule)
  /\ UNCHANGED <<flowVars, audit, era, edits, torn>>

\* A bug the runs must notice: a future that is done is set again.
FinishOverwrites(k) ==
  /\ call[k].at = "publishing"
  /\ LET u == call[k].req  d == call[k].decision IN
       /\ audit' = [audit EXCEPT ![u] = Append(@, d)]
       /\ future' = [future EXCEPT ![u] = IF u \in waiters THEN d ELSE @]
  /\ call' = [call EXCEPT ![k].at = "done"]
  /\ UNCHANGED <<securityYaml, engineVars, pc, info, outcome, pending, waiters,
                 counter, ghostVars>>

\* A bug the runs must notice: the future is not looked up.
FinishForgetsFuture(k) ==
  /\ call[k].at = "publishing"
  /\ audit' = [audit EXCEPT ![call[k].req] = Append(@, call[k].decision)]
  /\ call' = [call EXCEPT ![k].at = "done"]
  /\ UNCHANGED <<securityYaml, engineVars, flowVars, ghostVars>>

\* The rest of the call: the audit entry, then the future if it is still there
\* and not done.
FinishResolve(k) ==
  /\ call[k].at = "publishing"
  /\ LET u == call[k].req  d == call[k].decision IN
       /\ audit' = [audit EXCEPT ![u] = Append(@, d)]
       /\ future' = [future EXCEPT ![u] =
            IF u \in waiters /\ future[u] = "unset" THEN d ELSE @]
  /\ call' = [call EXCEPT ![k].at = "done"]
  /\ UNCHANGED <<securityYaml, engineVars, pc, info, outcome, pending, waiters,
                 counter, ghostVars>>

\* The resolving task is cancelled inside the publish: its decision is applied
\* but neither recorded nor delivered.
CancelResolve(k) ==
  /\ call[k].at = "publishing"
  /\ call' = [call EXCEPT ![k].at = "cancelled"]
  /\ UNCHANGED <<securityYaml, engineVars, flowVars, audit, ghostVars>>

-----------------------------------------------------------------------------
(* The session, the file and the process.                                  *)

\* clear_session.
ClearSession ==
  /\ era < MaxEra
  /\ era' = era + 1
  /\ ClearSessionMemory
  /\ future' = [u \in Requests |->
       IF u \in waiters /\ future[u] = "unset" THEN "cancelled" ELSE future[u]]
  /\ waiters' = {}
  /\ pending' = {}
  /\ UNCHANGED <<securityYaml, agentRules, pc, info, outcome, counter, call, audit,
                 edits, revoked, torn>>

\* clear_agent_session_memory, called by the engine's owner.
ForgetAgent(a) ==
  /\ sessionMemory[a] # {}
  /\ ClearAgentSessionMemory(a)
  /\ UNCHANGED <<flowVars, call, audit, ghostVars>>

\* The user deletes a learned rule from security.yaml with an editor.
RevokeByHand(section, a, rule) ==
  /\ edits < MaxEdits
  /\ edits' = edits + 1
  /\ rule \in securityYaml[section][a]
  /\ securityYaml' = [securityYaml EXCEPT ![section][a] = @ \ {rule}]
  /\ revoked' = revoked \cup {<<section, a, rule>>}
  /\ UNCHANGED <<engineVars, flowVars, call, audit, era, torn>>

\* reload_rules, called by the engine's owner after an edit by hand.
Reload ==
  /\ agentRules # securityYaml
  /\ ReloadRules
  /\ UNCHANGED <<flowVars, call, audit, ghostVars>>

\* The process stops and starts again: what is in memory is gone and the rules
\* are those of the file, whose contents are now yaml.
RestartWith(yaml) ==
  /\ era < MaxEra
  /\ era' = era + 1
  /\ securityYaml' = yaml
  /\ agentRules' = yaml
  /\ ClearSessionMemory
  /\ pending' = {}
  /\ waiters' = {}
  /\ counter' = 0
  /\ pc' = [u \in Requests |-> IF pc[u] = "new" THEN "new" ELSE "done"]
  /\ outcome' = [u \in Requests |->
       IF pc[u] \in {"publishing", "waiting"} THEN "lost" ELSE outcome[u]]
  /\ call' = [k \in Calls |->
       IF call[k].at = "publishing"
       THEN [call[k] EXCEPT !.at = "lost"] ELSE call[k]]
  /\ UNCHANGED <<info, future, audit, edits, revoked>>

Restart ==
  /\ RestartWith(securityYaml)
  /\ UNCHANGED torn

\* The process stops inside _write_learned_rule, after open("w") has truncated
\* the file and before the buffer is flushed: the file is empty.
StopInWrite(card, d) ==
  /\ d \in Permanent
  /\ pc[card] # "new"
  /\ Named(card) # {}
  /\ RestartWith([section \in Sections |-> [a \in Agents |-> {}]])
  /\ torn' = TRUE

-----------------------------------------------------------------------------

Requester(u) ==
  \/ \E a \in Agents, x \in Actions : Request(u, a, x)
  \/ Published(u)
  \/ Return(u)
  \/ TimeOut(u)
  \/ CancelWaiting(u)
  \/ CancelPublishing(u)

Resolver(k) ==
  \/ \E card \in Requests, d \in Decisions : BeginResolve(k, card, d)
  \/ FinishResolve(k)
  \/ CancelResolve(k)

Environment ==
  \/ ClearSession
  \/ \E a \in Agents : ForgetAgent(a)
  \/ \E section \in Learned, a \in Agents, rule \in Rules : RevokeByHand(section, a, rule)
  \/ Reload
  \/ Restart
  \/ \E card \in Requests, d \in Decisions : StopInWrite(card, d)

Next ==
  \/ \E u \in Requests : Requester(u)
  \/ \E k \in Calls : Resolver(k)
  \/ Environment

\* The event loop runs what is ready: a publish that returns and a call whose
\* future is done.  Nothing makes a user answer or a timer exist.
Fairness == \A u \in Requests : WF_vars(Published(u)) /\ WF_vars(Return(u))

Spec == Init /\ [][Next]_vars

FairSpec == Spec /\ Fairness

-----------------------------------------------------------------------------
(* Properties.                                                             *)

\* A caller that is given a decision is given the first one that the audit log
\* holds for its request, however many calls of resolve_request, timeouts,
\* cancellations and session ends interleave with it: what is enforced is
\* what was recorded first.
FirstAuditWins ==
  \A u \in Requests :
    outcome[u] \in AllDecisions => audit[u] # <<>> /\ outcome[u] = Head(audit[u])

\* The abstract gate, with the same audit log and the callers' outcomes.
Gate == INSTANCE ApprovalGate WITH Decisions <- AllDecisions, verdict <- outcome

\* The flow implements the gate: futures, maps and suspension points never show.
GateSpec == Gate!Spec

\* An action runs without a prompt only if the rules the user wrote allow it, or
\* a user decision for the same agent does: "always allow", or "approve for
\* this session" on a request of the session that is still going on.
SilentAllowIsGranted ==
  \A a \in Agents, x \in Actions :
    Evaluate(a, x) \in Silent =>
      \/ \E section \in {"always_allow", "always_allow_learned"} :
           \E rule \in InitialRules[section][a] : x \in rule
      \/ \E k \in Calls :
           /\ call[k] # Idle
           /\ info[call[k].req].agent = a
           /\ x \in call[k].rule
           /\ \/ call[k].decision = "always_allow"
              \/ call[k].decision = "approve_session" /\ info[call[k].req].era = era

\* The learned rule of a call of resolve_request is still the user's will.
InForce(k) ==
  /\ call[k] # Idle
  /\ call[k].decision \in Permanent
  /\ <<SectionOf[call[k].decision], info[call[k].req].agent, call[k].rule>> \notin revoked

\* "Deny permanently" and "always ask" outlive restarts, session ends and every
\* other decision: until the user deletes the rule by hand (or a stop inside a
\* write loses the file) what they cover never runs without a prompt, and what
\* "always ask" covers always prompts.
DurableDecisionsHold ==
  \A k \in Calls : InForce(k) /\ ~torn =>
    LET a == info[call[k].req].agent IN
    \A x \in call[k].rule :
      /\ call[k].decision = "deny_permanently" => Evaluate(a, x) \in {"always_deny", "always_ask"}
      /\ call[k].decision = "always_ask" => Evaluate(a, x) = "always_ask"

\* No caller waits for ever: once a decision for its request is in the audit log
\* it returns, even when the answer came before it waited for one, and so it does
\* when clear_session has dropped the request.
CallersReturn ==
  \A u \in Requests :
    \/ audit[u] # <<>>
    \/ pc[u] \in {"publishing", "waiting"} /\ u \notin waiters
    ~> pc[u] = "done"

\* FAITH-020: a request is decided by one call of resolve_request and a second one
\* is refused.  It does not hold: the id is looked up in pending only, which names
\* the request until its caller has left.
DecidedOnce ==
  \A j, k \in Calls :
    (call[j].at = "done" /\ call[k].at = "done"
       /\ call[j].req = call[k].req) => j = k

\* FAITH-020: a learned rule that was written is in the file until the user deletes
\* it.  It does not hold of a process that stops within the rewriting in place.
WrittenRulesSurvive ==
  \A k \in Calls : InForce(k) =>
    call[k].rule \in securityYaml[SectionOf[call[k].decision]][info[call[k].req].agent]

\* Within one session of one process an id names one request: the decision a user
\* takes on a card is applied to the request the card was made for.
AnswerReachesItsRequest ==
  \A k \in Calls : call[k] # Idle =>
    call[k].req = call[k].card \/ info[call[k].req].era # info[call[k].card].era
=============================================================================
