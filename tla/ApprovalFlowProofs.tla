-------------------------- MODULE ApprovalFlowProofs --------------------------
(* Theorems about the approval flow, for every value of its constants. *)
EXTENDS ApprovalFlow, SequenceTheorems, TLAPS

-----------------------------------------------------------------------------
(* What the operators of the model do to the rules.                        *)

\* The learned section of a permanent decision.
LEMMA SectionOfType == ASSUME NEW d \in Permanent PROVE SectionOf[d] \in Learned
  BY DEF SectionOf, Permanent, Learned

\* The learned section of each permanent decision, spelled out.
LEMMA SectionOfValues ==
  /\ SectionOf["always_allow"] = "always_allow_learned"
  /\ SectionOf["always_ask"] = "always_ask_learned"
  /\ SectionOf["deny_permanently"] = "always_deny_learned"
  BY DEF SectionOf, Permanent

\* Adding a rule to one section of one agent keeps a table a table.
LEMMA WithRuleType ==
  ASSUME NEW table \in RuleTable, NEW section \in Sections, NEW a \in Agents, NEW rule \in Rules
  PROVE  WithRule(table, section, a, rule) \in RuleTable
<1>1. table[section] \in [Agents -> SUBSET Rules]
  BY DEF RuleTable
<1>2. [table[section] EXCEPT ![a] = @ \cup {rule}] \in [Agents -> SUBSET Rules]
  BY <1>1
<1> QED BY <1>2 DEF RuleTable, WithRule

\* Every rule a decision can leave behind is a rule.
LEMMA RulesForType ==
  ASSUME NEW u, info[u] \in InfoType, NEW d, NEW rule \in RulesFor(u, d)
  PROVE  rule \in Rules
<1>1. info[u].action \in Actions
  BY DEF InfoType
<1>2. \A s \in Scopes : Cover[info[u].action][s] \in Rules
  BY <1>1, ConstantsAssumption
<1>3. {} \in Rules
  BY DEF Rules
<1>4. Overrides \subseteq Rules
  BY ConstantsAssumption
<1>5. CASE d = "approve_session"
  BY <1>2, <1>5 DEF RulesFor, Permanent
<1>6. CASE d # "approve_session" /\ d \in Permanent
  BY <1>2, <1>4, <1>6 DEF RulesFor
<1>7. CASE d # "approve_session" /\ d \notin Permanent
  BY <1>3, <1>7 DEF RulesFor, NoRule
<1> QED BY <1>5, <1>6, <1>7

\* The three ways a decision is applied.
LEMMA ApplyCases ==
  ASSUME NEW u, NEW d, NEW rule, Apply(u, d, rule)
  PROVE  \/ /\ d = "approve_session"
            /\ RecordSessionApproval(info[u].agent, rule)
            /\ UNCHANGED <<securityYaml, agentRules, revoked>>
         \/ /\ d \in Permanent
            /\ securityYaml' = WithRule(securityYaml, SectionOf[d], info[u].agent, rule)
            /\ agentRules' = securityYaml'
            /\ revoked' = revoked \ {<<SectionOf[d], info[u].agent, rule>>}
            /\ UNCHANGED sessionMemory
         \/ /\ d \notin Permanent \cup {"approve_session"}
            /\ UNCHANGED <<securityYaml, engineVars, revoked>>
<1>1. CASE d = "approve_session"
  BY <1>1 DEF Apply
<1>2. CASE d # "approve_session" /\ d \in Permanent
  BY <1>2 DEF Apply
<1>3. CASE d # "approve_session" /\ d \notin Permanent
  BY <1>3 DEF Apply
<1> QED BY <1>1, <1>2, <1>3

-----------------------------------------------------------------------------
(* Type correctness.  A request that was never made has no ApprovalRequest *)
(* and nothing refers to it.                                               *)

\* Everything that refers to a request refers to one that was made.
Made ==
  /\ \A u \in Requests : pc[u] # "new" => info[u] \in InfoType
  /\ \A u \in pending \cup waiters : pc[u] # "new"
  /\ \A k \in Calls : call[k] # Idle => pc[call[k].req] # "new"

\* Initially nothing has been requested.
LEMMA InitType == Init => TypeOK /\ Made
<1> SUFFICES ASSUME Init PROVE TypeOK /\ Made
  OBVIOUS
<1>1. EngineTypeOK
  BY InitialRulesAssumption DEF Init, EngineInit, EngineTypeOK
<1>2. audit \in [Requests -> Seq(AllDecisions)]
  BY DEF Init
<1> QED BY <1>1, <1>2 DEF Init, TypeOK, Made, NoInfo, Idle

\* Every step keeps the types and refers only to requests that were made.
LEMMA TypeStep == TypeOK /\ Made /\ [Next]_vars => TypeOK' /\ Made'
<1> SUFFICES ASSUME TypeOK, Made, [Next]_vars PROVE TypeOK' /\ Made'
  OBVIOUS
<1> USE DEF TypeOK, Made
<1>1. ASSUME NEW u \in Requests, NEW a \in Agents, NEW x \in Actions, Request(u, a, x)
      PROVE  TypeOK' /\ Made'
  BY <1>1 DEF Request, engineVars, ghostVars, EngineTypeOK, InfoType, Idle, CallType
<1>2. ASSUME NEW u \in Requests, Published(u) PROVE TypeOK' /\ Made'
  BY <1>2 DEF Published, engineVars, ghostVars, EngineTypeOK, Idle, CallType
<1>3. ASSUME NEW u \in Requests, NEW o \in AllDecisions \cup Exceptions, pc[u] # "new", Leave(u, o)
      PROVE  TypeOK' /\ Made'
  BY <1>3 DEF Leave, engineVars, ghostVars, EngineTypeOK, Idle, CallType
<1>4. ASSUME NEW u \in Requests, CancelPublishing(u) PROVE TypeOK' /\ Made'
  BY <1>4 DEF CancelPublishing, engineVars, ghostVars, EngineTypeOK, Exceptions, Idle, CallType
<1>5. ASSUME NEW k \in Calls, NEW card \in Requests, NEW d \in Decisions, BeginResolve(k, card, d)
      PROVE  TypeOK' /\ Made'
  <2>a. PICK u \in Named(card) : \E rule \in RulesFor(u, d) :
          /\ call' = [call EXCEPT ![k] = [at |-> "publishing", card |-> card, req |-> u,
                                          decision |-> d, rule |-> rule]]
          /\ Apply(u, d, rule)
    BY <1>5 DEF BeginResolve
  <2>1. PICK rule \in RulesFor(u, d) :
          /\ call' = [call EXCEPT ![k] = [at |-> "publishing", card |-> card, req |-> u,
                                          decision |-> d, rule |-> rule]]
          /\ Apply(u, d, rule)
    BY <2>a
  <2>2. u \in Requests /\ pc[u] # "new" /\ info[u] \in InfoType
    BY DEF Named
  <2>3. rule \in Rules
    BY <2>2, RulesForType
  <2>4. d \in AllDecisions
    BY ConstantsAssumption
  <2>5. call' \in [Calls -> CallType \cup {Idle}]
    BY <2>1, <2>2, <2>3, <2>4 DEF CallType
  <2>6. EngineTypeOK' /\ revoked' \subseteq (Learned \X Agents \X Rules)
    <3>1. info[u].agent \in Agents
      BY <2>2 DEF InfoType
    <3>2. CASE d \in Permanent /\ securityYaml' = WithRule(securityYaml, SectionOf[d], info[u].agent, rule)
               /\ agentRules' = securityYaml' /\ UNCHANGED sessionMemory
               /\ revoked' = revoked \ {<<SectionOf[d], info[u].agent, rule>>}
      <4>1. SectionOf[d] \in Sections
        BY <3>2, SectionOfType DEF Sections
      <4>2. securityYaml' \in RuleTable
        BY <2>3, <3>1, <3>2, <4>1, WithRuleType DEF EngineTypeOK
      <4> QED BY <3>2, <4>2 DEF EngineTypeOK
    <3>3. CASE RecordSessionApproval(info[u].agent, rule) /\ UNCHANGED <<securityYaml, agentRules, revoked>>
      BY <2>3, <3>1, <3>3 DEF RecordSessionApproval, EngineTypeOK
    <3>4. CASE UNCHANGED <<securityYaml, engineVars, revoked>>
      BY <3>4 DEF EngineTypeOK, engineVars
    <3> QED BY <2>1, <3>2, <3>3, <3>4, ApplyCases
  <2>7. UNCHANGED <<flowVars, audit, era, edits, torn>>
    BY <1>5 DEF BeginResolve
  <2>8. TypeOK'
    BY <2>5, <2>6, <2>7 DEF flowVars
  <2>9. Made'
    BY <2>1, <2>2, <2>7 DEF flowVars, Idle
  <2> QED BY <2>8, <2>9
<1>6. ASSUME NEW k \in Calls, FinishResolve(k) PROVE TypeOK' /\ Made'
  <2>1. call[k] \in CallType /\ call[k].req \in Requests /\ call[k].decision \in AllDecisions
    BY <1>6 DEF FinishResolve, CallType, Idle
  <2>2. call' \in [Calls -> CallType \cup {Idle}]
    BY <1>6, <2>1 DEF FinishResolve, CallType
  <2>3. audit' \in [Requests -> Seq(AllDecisions)]
    BY <1>6, <2>1 DEF FinishResolve
  <2>4. future' \in [Requests -> {"unset", "cancelled"} \cup AllDecisions]
    BY <1>6, <2>1 DEF FinishResolve
  <2>5. UNCHANGED <<securityYaml, engineVars, pc, info, outcome, pending, waiters, counter, ghostVars>>
    BY <1>6 DEF FinishResolve
  <2>6. TypeOK'
    BY <2>2, <2>3, <2>4, <2>5 DEF engineVars, ghostVars, EngineTypeOK
  <2>7. \A j \in Calls : call'[j] # Idle => call[j] # Idle /\ call'[j].req = call[j].req
    BY <1>6, <2>1 DEF FinishResolve, CallType, Idle
  <2> QED BY <2>5, <2>6, <2>7
<1>7. ASSUME NEW k \in Calls, CancelResolve(k) PROVE TypeOK' /\ Made'
  <2>1. call[k] \in CallType
    BY <1>7 DEF CancelResolve, CallType, Idle
  <2>2. call' \in [Calls -> CallType \cup {Idle}]
    BY <1>7, <2>1 DEF CancelResolve, CallType
  <2>3. \A j \in Calls : call'[j] # Idle => call[j] # Idle /\ call'[j].req = call[j].req
    BY <1>7, <2>1 DEF CancelResolve, CallType, Idle
  <2> QED BY <1>7, <2>2, <2>3 DEF CancelResolve, flowVars, engineVars, ghostVars, EngineTypeOK
<1>8. CASE ClearSession
  BY <1>8 DEF ClearSession, ClearSessionMemory, EngineTypeOK
<1>9. ASSUME NEW a \in Agents, ForgetAgent(a) PROVE TypeOK' /\ Made'
  BY <1>9 DEF ForgetAgent, ClearAgentSessionMemory, EngineTypeOK, flowVars, ghostVars
<1>10. ASSUME NEW section \in Learned, NEW a \in Agents, NEW rule \in Rules, RevokeByHand(section, a, rule)
       PROVE  TypeOK' /\ Made'
  <2>1. securityYaml[section] \in [Agents -> SUBSET Rules] /\ section \in Sections
    BY DEF EngineTypeOK, RuleTable, Sections
  <2>2. [securityYaml[section] EXCEPT ![a] = @ \ {rule}] \in [Agents -> SUBSET Rules]
    BY <2>1
  <2>3. securityYaml' \in RuleTable
    BY <1>10, <2>1, <2>2 DEF RevokeByHand, EngineTypeOK, RuleTable
  <2> QED BY <1>10, <2>3 DEF RevokeByHand, EngineTypeOK, engineVars, flowVars
<1>11. CASE Reload
  BY <1>11 DEF Reload, ReloadRules, EngineTypeOK, flowVars, ghostVars
<1>12. ASSUME NEW yaml \in RuleTable, RestartWith(yaml), torn' \in BOOLEAN PROVE TypeOK' /\ Made'
  <2>a. \A j \in Calls : call[j].at = "publishing" => call[j] \in CallType
    BY DEF CallType, Idle
  <2>b. \A r \in CallType : [r EXCEPT !.at = "lost"] \in CallType
    BY DEF CallType
  <2>1. call' \in [Calls -> CallType \cup {Idle}]
    BY <1>12, <2>a, <2>b DEF RestartWith
  <2>2. \A j \in Calls : call'[j] # Idle => call[j] # Idle /\ call'[j].req = call[j].req
    BY <1>12 DEF RestartWith, CallType, Idle
  <2>3. pc' \in [Requests -> {"new", "publishing", "waiting", "done"}]
        /\ \A u \in Requests : pc'[u] # "new" <=> pc[u] # "new"
    BY <1>12 DEF RestartWith
  <2>4. outcome' \in [Requests -> {"none"} \cup AllDecisions \cup Exceptions]
    BY <1>12 DEF RestartWith, Exceptions
  <2>5. EngineTypeOK'
    BY <1>12 DEF RestartWith, ClearSessionMemory, EngineTypeOK
  <2>6. TypeOK'
    BY <1>12, <2>1, <2>3, <2>4, <2>5 DEF RestartWith
  <2>7. \A j \in Calls : call[j] # Idle => call[j].req \in Requests
    BY DEF CallType
  <2> QED BY <1>12, <2>2, <2>3, <2>6, <2>7 DEF RestartWith
<1>13. CASE UNCHANGED vars
  BY <1>13 DEF vars, flowVars, ghostVars, EngineTypeOK
<1>14. ASSUME NEW u \in Requests, Requester(u) PROVE TypeOK' /\ Made'
  <2>1. ASSUME Return(u) PROVE future[u] \in AllDecisions \cup Exceptions
    BY <2>1 DEF Return, Exceptions
  <2> QED BY <1>1, <1>2, <1>3, <1>4, <1>14, <2>1
          DEF Requester, Return, TimeOut, CancelWaiting, Exceptions
<1>15. CASE Environment
  <2>1. CASE Restart
    BY <1>12, <2>1 DEF Restart, EngineTypeOK
  <2>2. ASSUME NEW card \in Requests, NEW d \in Decisions, StopInWrite(card, d) PROVE TypeOK' /\ Made'
    <3>1. [section \in Sections |-> [a \in Agents |-> {}]] \in RuleTable
      BY DEF RuleTable
    <3> QED BY <1>12, <2>2, <3>1 DEF StopInWrite
  <2> QED BY <1>8, <1>9, <1>10, <1>11, <1>15, <2>1, <2>2 DEF Environment
<1> QED BY <1>5, <1>6, <1>7, <1>13, <1>14, <1>15 DEF Next, Resolver

\* Every state of the flow is well typed.
THEOREM TypeCorrect == Spec => []TypeOK
<1>1. Spec => [](TypeOK /\ Made)
  BY InitType, TypeStep, PTL DEF Spec
<1> QED BY <1>1, PTL

-----------------------------------------------------------------------------
(* The caller gets the first decision recorded.  The invariant follows the *)
(* value on its way: a future in the map that is not done has nothing      *)
(* recorded, a future with a decision has it recorded first.               *)

FirstAuditInv ==
  /\ FirstAuditWins
  /\ \A u \in Requests : future[u] \in AllDecisions => audit[u] # <<>> /\ future[u] = Head(audit[u])
  /\ \A u \in waiters : future[u] = "unset" => audit[u] = <<>>
  /\ \A u \in Requests : pc[u] = "new" => audit[u] = <<>> /\ future[u] = "unset"
  /\ \A u \in Requests : pc[u] # "done" => outcome[u] = "none"

\* A record added to an audit log never changes the first one.
LEMMA AppendHead ==
  ASSUME NEW S, NEW s \in Seq(S), NEW e \in S
  PROVE  /\ Append(s, e) # <<>>
         /\ s = <<>> => Head(Append(s, e)) = e
         /\ s # <<>> => Head(Append(s, e)) = Head(s)
  BY AppendProperties, HeadTailAppend

\* Initially nothing is recorded and nobody was told anything.
LEMMA FirstAuditInit == Init => FirstAuditInv
  BY DEF Init, FirstAuditInv, FirstAuditWins, AllDecisions

\* What the steps that leave the audit log alone do to the rest.
LEMMA FirstAuditQuiet ==
  ASSUME TypeOK, FirstAuditInv, UNCHANGED <<pc, outcome, waiters, future, audit>>
  PROVE  FirstAuditInv'
  BY DEF FirstAuditInv, FirstAuditWins

\* Every step preserves the invariant; FinishResolve is the one that records and
\* sets the future together.
LEMMA FirstAuditStep == TypeOK /\ Made /\ FirstAuditInv /\ [Next]_vars => FirstAuditInv'
<1> SUFFICES ASSUME TypeOK, Made, FirstAuditInv, [Next]_vars PROVE FirstAuditInv'
  OBVIOUS
<1> USE DEF FirstAuditInv, FirstAuditWins
<1>1. ASSUME NEW u \in Requests, NEW a \in Agents, NEW x \in Actions, Request(u, a, x)
      PROVE  FirstAuditInv'
  BY <1>1 DEF Request, TypeOK
<1>2. ASSUME NEW u \in Requests, Published(u) PROVE FirstAuditInv'
  BY <1>2 DEF Published, TypeOK
<1>3. ASSUME NEW u \in Requests, NEW o, Leave(u, o), pc[u] # "new",
             o \in AllDecisions => audit[u] # <<>> /\ o = Head(audit[u])
      PROVE  FirstAuditInv'
  BY <1>3 DEF Leave, TypeOK
<1>4. ASSUME NEW u \in Requests, CancelPublishing(u) PROVE FirstAuditInv'
  BY <1>4 DEF CancelPublishing, TypeOK, AllDecisions
<1>5. ASSUME NEW u \in Requests, Requester(u) PROVE FirstAuditInv'
  BY <1>1, <1>2, <1>3, <1>4, <1>5
     DEF Requester, Return, TimeOut, CancelWaiting, AllDecisions
<1>6. ASSUME NEW k \in Calls, FinishResolve(k) PROVE FirstAuditInv'
  <2> DEFINE u == call[k].req
             d == call[k].decision
  <2>1. u \in Requests /\ d \in AllDecisions /\ pc[u] # "new"
    BY <1>6 DEF FinishResolve, TypeOK, Made, CallType, Idle
  <2>2. audit' = [audit EXCEPT ![u] = Append(@, d)]
        /\ future' = [future EXCEPT ![u] = IF u \in waiters /\ future[u] = "unset" THEN d ELSE @]
        /\ UNCHANGED <<pc, outcome, waiters>>
    BY <1>6 DEF FinishResolve
  <2>3. audit[u] \in Seq(AllDecisions)
    BY <2>1 DEF TypeOK
  <2>4. \A v \in Requests : v # u => audit'[v] = audit[v] /\ future'[v] = future[v]
    BY <2>1, <2>2 DEF TypeOK
  <2>5. audit'[u] = Append(audit[u], d)
        /\ future'[u] = IF u \in waiters /\ future[u] = "unset" THEN d ELSE future[u]
    BY <2>1, <2>2 DEF TypeOK
  <2>6. audit'[u] # <<>> /\ (audit[u] = <<>> => Head(audit'[u]) = d)
        /\ (audit[u] # <<>> => Head(audit'[u]) = Head(audit[u]))
    BY <2>1, <2>3, <2>5, AppendHead
  <2>7. u \in waiters => future'[u] # "unset"
    BY <2>1, <2>5 DEF AllDecisions
  <2>8. waiters \subseteq Requests
    BY DEF TypeOK
  <2> HIDE DEF u, d
  <2>9. FirstAuditWins'
    BY <2>1, <2>2, <2>4, <2>6
  <2>10. \A v \in Requests : future'[v] \in AllDecisions => audit'[v] # <<>> /\ future'[v] = Head(audit'[v])
    BY <2>1, <2>4, <2>5, <2>6 DEF AllDecisions
  <2>11. \A v \in waiters : future'[v] = "unset" => audit'[v] = <<>>
    BY <2>4, <2>7, <2>8
  <2>12. \A v \in Requests : pc[v] = "new" => audit'[v] = <<>> /\ future'[v] = "unset"
    BY <2>1, <2>4
  <2> QED BY <2>2, <2>9, <2>10, <2>11, <2>12
<1>7. ASSUME NEW k \in Calls, Resolver(k) PROVE FirstAuditInv'
  <2>1. ASSUME NEW card \in Requests, NEW d \in Decisions, BeginResolve(k, card, d) PROVE FirstAuditInv'
    BY <2>1, FirstAuditQuiet DEF BeginResolve, flowVars
  <2>2. CASE CancelResolve(k)
    BY <2>2, FirstAuditQuiet DEF CancelResolve, flowVars
  <2> QED BY <1>6, <1>7, <2>1, <2>2 DEF Resolver
<1>8. CASE ClearSession
  <2>1. \A u \in Requests : future'[u] = future[u] \/ (future'[u] = "cancelled" /\ u \in waiters)
    BY <1>8 DEF ClearSession
  <2>2. waiters' = {} /\ UNCHANGED <<pc, outcome, audit>>
    BY <1>8 DEF ClearSession
  <2>3. \A u \in Requests : pc[u] = "new" => u \notin waiters
    BY DEF Made, TypeOK
  <2> QED BY <2>1, <2>2, <2>3 DEF AllDecisions
<1>9. ASSUME NEW yaml, RestartWith(yaml) PROVE FirstAuditInv'
  BY <1>9 DEF RestartWith, TypeOK, AllDecisions
<1>10. CASE Environment
  <2>1. ASSUME NEW a \in Agents, ForgetAgent(a) PROVE FirstAuditInv'
    BY <2>1, FirstAuditQuiet DEF ForgetAgent, flowVars
  <2>2. ASSUME NEW section, NEW a, NEW rule, RevokeByHand(section, a, rule) PROVE FirstAuditInv'
    BY <2>2, FirstAuditQuiet DEF RevokeByHand, flowVars
  <2>3. CASE Reload
    BY <2>3, FirstAuditQuiet DEF Reload, flowVars
  <2> QED BY <1>8, <1>9, <1>10, <2>1, <2>2, <2>3 DEF Environment, Restart, StopInWrite
<1>11. CASE UNCHANGED vars
  BY <1>11, FirstAuditQuiet DEF vars, flowVars
<1> QED BY <1>5, <1>7, <1>10, <1>11 DEF Next

\* The caller of request_approval is told the first decision in the audit log.
THEOREM CallerGetsFirstAudit == Spec => []FirstAuditWins
<1>1. Init => TypeOK /\ Made /\ FirstAuditInv
  BY InitType, FirstAuditInit
<1>2. (TypeOK /\ Made /\ FirstAuditInv) /\ [Next]_vars => (TypeOK /\ Made /\ FirstAuditInv)'
  BY TypeStep, FirstAuditStep
<1>3. FirstAuditInv => FirstAuditWins
  BY DEF FirstAuditInv
<1> QED BY <1>1, <1>2, <1>3, PTL DEF Spec

-----------------------------------------------------------------------------
(* The flow implements the abstract gate: the end of a call of             *)
(* resolve_request records a decision, the end of a call of                *)
(* request_approval returns or raises, and every other step is hidden.     *)

\* The initial state of the flow is the initial state of the gate.
LEMMA GateInit == Init => Gate!Init
  BY DEF Init, Gate!Init, Gate!NoVerdict

\* Every step of the flow is a step of the gate or a stutter.
LEMMA GateStep ==
  TypeOK /\ Made /\ FirstAuditInv /\ [Next]_vars => [Gate!Next]_<<audit, outcome>>
<1> SUFFICES ASSUME TypeOK, Made, FirstAuditInv, [Next]_vars
             PROVE  Gate!Next \/ UNCHANGED <<audit, outcome>>
  BY DEF Gate!Next
<1> USE DEF Gate!Next
<1>1. ASSUME NEW u \in Requests, NEW o, Leave(u, o), pc[u] # "done",
             o \in AllDecisions => audit[u] # <<>> /\ o = Head(audit[u]),
             o \in AllDecisions \cup Exceptions
      PROVE  Gate!Next
  <2>1. outcome[u] = "none" /\ outcome' = [outcome EXCEPT ![u] = o] /\ UNCHANGED audit
    BY <1>1 DEF Leave, FirstAuditInv
  <2>2. CASE o \in AllDecisions
    BY <1>1, <2>1, <2>2 DEF Gate!Return, Gate!NoVerdict
  <2>3. CASE o \in Exceptions
    <3>1. outcome' = [v \in Requests |-> IF v \in {u} THEN o ELSE outcome[v]]
      BY <2>1 DEF TypeOK
    <3>2. Gate!Raise({u})
      BY <2>1, <2>3, <3>1 DEF Gate!Raise, Gate!NoVerdict, Gate!Exceptions, Exceptions
    <3> QED BY <3>2
  <2> QED BY <1>1, <2>2, <2>3
<1>2. ASSUME NEW u \in Requests, CancelPublishing(u) PROVE Gate!Next
  <2>1. outcome[u] = "none" /\ UNCHANGED audit
    BY <1>2 DEF CancelPublishing, FirstAuditInv
  <2>2. outcome' = [v \in Requests |-> IF v \in {u} THEN "cancelled" ELSE outcome[v]]
    BY <1>2 DEF CancelPublishing, TypeOK
  <2>3. Gate!Raise({u})
    BY <2>1, <2>2 DEF Gate!Raise, Gate!NoVerdict, Gate!Exceptions
  <2> QED BY <2>3
<1>3. ASSUME NEW u \in Requests, Requester(u) PROVE Gate!Next \/ UNCHANGED <<audit, outcome>>
  <2>1. CASE Return(u)
    <3>1. future[u] \in AllDecisions \cup {"cancelled"} /\ pc[u] # "done" /\ Leave(u, future[u])
      BY <2>1 DEF Return, TypeOK
    <3> QED BY <1>1, <3>1 DEF FirstAuditInv, AllDecisions, Exceptions
  <2>2. CASE TimeOut(u)
    BY <1>1, <2>2 DEF TimeOut, AllDecisions, Exceptions
  <2>3. CASE CancelWaiting(u)
    BY <1>1, <2>3 DEF CancelWaiting, AllDecisions, Exceptions
  <2> QED BY <1>2, <1>3, <2>1, <2>2, <2>3 DEF Requester, Request, Published
<1>4. ASSUME NEW k \in Calls, FinishResolve(k) PROVE Gate!Next
  <2>1. call[k].req \in Requests /\ call[k].decision \in AllDecisions
    BY <1>4 DEF FinishResolve, TypeOK, CallType, Idle
  <2> QED BY <1>4, <2>1 DEF FinishResolve, Gate!Record
<1>5. ASSUME NEW yaml, RestartWith(yaml) PROVE Gate!Next
  <2> DEFINE U == {u \in Requests : pc[u] \in {"publishing", "waiting"}}
  <2>1. outcome' = [u \in Requests |-> IF u \in U THEN "lost" ELSE outcome[u]] /\ UNCHANGED audit
    BY <1>5 DEF RestartWith
  <2>2. \A u \in U : outcome[u] = "none"
    BY DEF FirstAuditInv
  <2>3. Gate!Raise(U)
    BY <2>1, <2>2 DEF Gate!Raise, Gate!NoVerdict, Gate!Exceptions
  <2> QED BY <2>3
<1>6. CASE Environment
  BY <1>5, <1>6
     DEF Environment, ClearSession, ForgetAgent, RevokeByHand, Reload, Restart, StopInWrite, flowVars
<1>7. CASE UNCHANGED vars
  BY <1>7 DEF vars, flowVars
<1> QED BY <1>3, <1>4, <1>6, <1>7 DEF Next, Resolver, BeginResolve, CancelResolve, flowVars

\* The approval flow implements the abstract approval gate.
THEOREM FlowImplementsGate == Spec => GateSpec
<1>1. Init => TypeOK /\ Made /\ FirstAuditInv
  BY InitType, FirstAuditInit
<1>2. (TypeOK /\ Made /\ FirstAuditInv) /\ [Next]_vars => (TypeOK /\ Made /\ FirstAuditInv)'
  BY TypeStep, FirstAuditStep
<1> QED BY <1>1, <1>2, GateInit, GateStep, PTL DEF Spec, GateSpec, Gate!Spec

-----------------------------------------------------------------------------
(* Durable decisions.  The engine knows every rule of the file, and the    *)
(* file holds the rule of every durable decision that is still in force.   *)

DurableInv ==
  /\ \A section \in Sections, a \in Agents : securityYaml[section][a] \subseteq agentRules[section][a]
  /\ ~torn => WrittenRulesSurvive

\* What the invariant says about evaluation.
LEMMA DurableImplies == TypeOK /\ Made /\ DurableInv => DurableDecisionsHold
<1> SUFFICES ASSUME TypeOK, Made, DurableInv, ~torn,
                    NEW k \in Calls, InForce(k), NEW x \in call[k].rule
             PROVE  LET a == info[call[k].req].agent IN
                    /\ call[k].decision = "deny_permanently" => Evaluate(a, x) \in {"always_deny", "always_ask"}
                    /\ call[k].decision = "always_ask" => Evaluate(a, x) = "always_ask"
  BY DEF DurableDecisionsHold
<1> DEFINE a == info[call[k].req].agent
           section == SectionOf[call[k].decision]
<1>1. call[k] # Idle /\ call[k].decision \in Permanent
  BY DEF InForce
<1>2. a \in Agents
  BY <1>1 DEF TypeOK, Made, CallType, InfoType
<1>3. section \in Sections
  BY <1>1, SectionOfType DEF Sections
<1>4. call[k].rule \in agentRules[section][a]
  BY <1>2, <1>3 DEF DurableInv, WrittenRulesSurvive
<1>5. call[k].decision = "deny_permanently" => Denies(a, x)
  BY <1>4, SectionOfValues DEF Denies, Matches
<1>6. call[k].decision = "always_ask" => AsksAlways(a, x)
  BY <1>4, SectionOfValues DEF AsksAlways, Matches
<1> HIDE DEF a
<1>7. /\ call[k].decision = "deny_permanently" => Evaluate(a, x) \in {"always_deny", "always_ask"}
      /\ call[k].decision = "always_ask" => Evaluate(a, x) = "always_ask"
  BY <1>5, <1>6 DEF Evaluate
<1> QED BY <1>7 DEF a

\* Initially the engine has the rules of the file and no decision was taken.
LEMMA DurableInit == Init => DurableInv
  BY DEF Init, EngineInit, DurableInv, WrittenRulesSurvive, InForce

\* Steps that leave the rules alone, and turn no call into a durable decision.
LEMMA DurableQuiet ==
  ASSUME TypeOK, Made, DurableInv,
         UNCHANGED <<securityYaml, agentRules, revoked, torn>>,
         \A k \in Calls : call'[k] # Idle =>
           /\ call[k] # Idle
           /\ call'[k].req = call[k].req
           /\ call'[k].decision = call[k].decision
           /\ call'[k].rule = call[k].rule,
         \A k \in Calls : call[k] # Idle => info'[call[k].req] = info[call[k].req]
  PROVE  DurableInv'
  BY DEF DurableInv, WrittenRulesSurvive, InForce

\* A restart with the file as it is, or with an empty one and torn set.
LEMMA DurableRestart ==
  ASSUME TypeOK, Made, DurableInv, NEW yaml, RestartWith(yaml), (yaml = securityYaml /\ torn' = torn) \/ torn'
  PROVE  DurableInv'
<1>1. \A k \in Calls : call'[k] # Idle =>
           /\ call[k] # Idle
           /\ call'[k].req = call[k].req
           /\ call'[k].decision = call[k].decision
           /\ call'[k].rule = call[k].rule
  BY DEF RestartWith, TypeOK, CallType, Idle
<1>2. securityYaml' = yaml /\ agentRules' = yaml /\ info' = info /\ revoked' = revoked
  BY DEF RestartWith
<1> QED BY <1>1, <1>2 DEF DurableInv, WrittenRulesSurvive, InForce

\* Every step preserves the invariant, the edit by hand by ending the force of the
\* rule it deletes.
LEMMA DurableStep == TypeOK /\ Made /\ DurableInv /\ [Next]_vars => DurableInv'
<1> SUFFICES ASSUME TypeOK, Made, DurableInv, [Next]_vars PROVE DurableInv'
  OBVIOUS
<1>1. ASSUME NEW u \in Requests, Requester(u) PROVE DurableInv'
  <2>1. UNCHANGED <<securityYaml, agentRules, revoked, torn, call>>
    BY <1>1 DEF Requester, Request, Published, Return, TimeOut, CancelWaiting, CancelPublishing,
                Leave, engineVars, ghostVars
  <2>2. \A v \in Requests : pc[v] # "new" => info'[v] = info[v]
    BY <1>1 DEF Requester, Request, Published, Return, TimeOut, CancelWaiting, CancelPublishing,
                Leave, TypeOK
  <2>3. \A k \in Calls : call[k] # Idle => info'[call[k].req] = info[call[k].req]
    BY <2>2 DEF TypeOK, Made, CallType
  <2> QED BY <2>1, <2>3, DurableQuiet
<1>2. ASSUME NEW k \in Calls, FinishResolve(k) \/ CancelResolve(k) PROVE DurableInv'
  <2>1. \A j \in Calls : call'[j] # Idle =>
           /\ call[j] # Idle
           /\ call'[j].req = call[j].req
           /\ call'[j].decision = call[j].decision
           /\ call'[j].rule = call[j].rule
    <3>1. CASE FinishResolve(k)
      BY <3>1 DEF FinishResolve, TypeOK, CallType, Idle
    <3>2. CASE CancelResolve(k)
      BY <3>2 DEF CancelResolve, TypeOK, CallType, Idle
    <3> QED BY <1>2, <3>1, <3>2
  <2>2. UNCHANGED <<securityYaml, agentRules, revoked, torn, info>>
    BY <1>2 DEF FinishResolve, CancelResolve, engineVars, ghostVars, flowVars
  <2> QED BY <2>1, <2>2, DurableQuiet
<1>3. ASSUME NEW k \in Calls, NEW card \in Requests, NEW d \in Decisions, BeginResolve(k, card, d)
      PROVE  DurableInv'
  <2>a. PICK u \in Named(card) : \E rule \in RulesFor(u, d) :
          /\ call' = [call EXCEPT ![k] = [at |-> "publishing", card |-> card, req |-> u,
                                          decision |-> d, rule |-> rule]]
          /\ Apply(u, d, rule)
    BY <1>3 DEF BeginResolve
  <2>1. PICK rule \in RulesFor(u, d) :
          /\ call' = [call EXCEPT ![k] = [at |-> "publishing", card |-> card, req |-> u,
                                          decision |-> d, rule |-> rule]]
          /\ Apply(u, d, rule)
    BY <2>a
  <2>2. u \in Requests /\ info[u] \in InfoType /\ info[u].agent \in Agents
    BY DEF Named, TypeOK, Made, InfoType
  <2>3. rule \in Rules
    BY <2>2, RulesForType
  <2>4. UNCHANGED <<info, torn>>
    BY <1>3 DEF BeginResolve, flowVars
  <2>5. /\ \A j \in Calls : j # k => call'[j] = call[j]
        /\ call'[k].req = u /\ call'[k].decision = d /\ call'[k].rule = rule
    BY <2>1 DEF TypeOK
  <2>6. CASE d \notin Permanent /\ UNCHANGED <<securityYaml, agentRules, revoked>>
    <3>1. ASSUME NEW j \in Calls, InForce(j)' PROVE j # k /\ InForce(j)
      BY <2>4, <2>5, <2>6, <3>1 DEF InForce
    <3> QED BY <2>4, <2>5, <2>6, <3>1 DEF DurableInv, WrittenRulesSurvive
  <2>7. CASE /\ d \in Permanent
             /\ securityYaml' = WithRule(securityYaml, SectionOf[d], info[u].agent, rule)
             /\ agentRules' = securityYaml'
             /\ revoked' = revoked \ {<<SectionOf[d], info[u].agent, rule>>}
    <3>1. SectionOf[d] \in Sections
      BY <2>7, SectionOfType DEF Sections
    <3>2. \A section \in Sections, a \in Agents :
            securityYaml[section][a] \subseteq securityYaml'[section][a]
      BY <2>2, <2>7, <3>1 DEF WithRule, TypeOK, EngineTypeOK, RuleTable
    <3>3. rule \in securityYaml'[SectionOf[d]][info[u].agent]
      BY <2>2, <2>7, <3>1 DEF WithRule, TypeOK, EngineTypeOK, RuleTable
    <3>4. ASSUME ~torn, NEW j \in Calls, InForce(j)'
          PROVE  call'[j].rule \in securityYaml'[SectionOf[call'[j].decision]][info[call'[j].req].agent]
      <4>1. CASE j = k
        BY <2>5, <3>3, <4>1
      <4>2. CASE j # k
        <5>1. call[j] # Idle /\ call[j].decision \in Permanent /\ call'[j] = call[j]
              /\ <<SectionOf[call[j].decision], info[call[j].req].agent, call[j].rule>> \notin revoked'
          BY <2>4, <2>5, <3>4, <4>2 DEF InForce
        <5>2. CASE InForce(j)
          <6>1. call[j].rule \in securityYaml[SectionOf[call[j].decision]][info[call[j].req].agent]
            BY <3>4, <5>2 DEF DurableInv, WrittenRulesSurvive
          <6>2. SectionOf[call[j].decision] \in Sections
            BY <5>1, SectionOfType DEF Sections
          <6>3. info[call[j].req].agent \in Agents
            BY <5>1 DEF TypeOK, Made, CallType, InfoType
          <6> QED BY <3>2, <5>1, <6>1, <6>2, <6>3
        <5>3. CASE ~InForce(j)
          <6>1. SectionOf[call[j].decision] = SectionOf[d] /\ info[call[j].req].agent = info[u].agent
                /\ call[j].rule = rule
            BY <2>7, <5>1, <5>3 DEF InForce
          <6> QED BY <3>3, <5>1, <6>1
        <5> QED BY <5>2, <5>3
      <4> QED BY <4>1, <4>2
    <3> QED BY <2>4, <2>7, <3>4 DEF DurableInv, WrittenRulesSurvive
  <2> QED BY <2>1, <2>6, <2>7, ApplyCases DEF engineVars, Permanent
<1>4. ASSUME NEW section \in Learned, NEW a \in Agents, NEW rule \in Rules, RevokeByHand(section, a, rule)
      PROVE  DurableInv'
  <2>1. UNCHANGED <<agentRules, call, info, torn>> /\ revoked' = revoked \cup {<<section, a, rule>>}
    BY <1>4 DEF RevokeByHand, engineVars, flowVars
  <2>2. \A s \in Sections, b \in Agents :
          /\ securityYaml'[s][b] \subseteq securityYaml[s][b]
          /\ \A r \in securityYaml[s][b] : <<s, b, r>> # <<section, a, rule>> => r \in securityYaml'[s][b]
    BY <1>4 DEF RevokeByHand, TypeOK, EngineTypeOK, RuleTable, Sections
  <2>3. ASSUME ~torn, NEW j \in Calls, InForce(j)'
        PROVE  call[j].rule \in securityYaml'[SectionOf[call[j].decision]][info[call[j].req].agent]
    <3>1. InForce(j)
          /\ <<SectionOf[call[j].decision], info[call[j].req].agent, call[j].rule>> # <<section, a, rule>>
      BY <2>1, <2>3 DEF InForce
    <3>2. SectionOf[call[j].decision] \in Sections
      BY <3>1, SectionOfType DEF InForce, Sections
    <3>3. info[call[j].req].agent \in Agents
      BY <3>1 DEF InForce, TypeOK, Made, CallType, InfoType
    <3>4. call[j].rule \in securityYaml[SectionOf[call[j].decision]][info[call[j].req].agent]
      BY <2>3, <3>1 DEF DurableInv, WrittenRulesSurvive
    <3> QED BY <2>2, <3>1, <3>2, <3>3, <3>4
  <2>4. (~torn => WrittenRulesSurvive)'
    BY <2>1, <2>3 DEF WrittenRulesSurvive
  <2> QED BY <2>1, <2>2, <2>4 DEF DurableInv
<1>5. CASE Environment
  <2>1. CASE ClearSession
    BY <2>1, DurableQuiet DEF ClearSession
  <2>2. ASSUME NEW a \in Agents, ForgetAgent(a) PROVE DurableInv'
    BY <2>2, DurableQuiet DEF ForgetAgent, ClearAgentSessionMemory, flowVars, ghostVars
  <2>3. CASE Reload
    BY <2>3 DEF Reload, ReloadRules, flowVars, ghostVars, DurableInv, WrittenRulesSurvive, InForce
  <2>4. CASE Restart
    BY <2>4, DurableRestart DEF Restart
  <2>5. ASSUME NEW card, NEW d, StopInWrite(card, d) PROVE DurableInv'
    BY <2>5, DurableRestart DEF StopInWrite
  <2> QED BY <1>4, <1>5, <2>1, <2>2, <2>3, <2>4, <2>5 DEF Environment
<1>6. CASE UNCHANGED vars
  BY <1>6, DurableQuiet DEF vars, flowVars, ghostVars
<1> QED BY <1>1, <1>2, <1>3, <1>5, <1>6 DEF Next, Resolver

\* Durable decisions hold until the user deletes their rule by hand.
THEOREM DurableDecisions == Spec => []DurableDecisionsHold
<1>1. Init => TypeOK /\ Made /\ DurableInv
  BY InitType, DurableInit
<1>2. (TypeOK /\ Made /\ DurableInv) /\ [Next]_vars => (TypeOK /\ Made /\ DurableInv)'
  BY TypeStep, DurableStep
<1> QED BY <1>1, <1>2, DurableImplies, PTL DEF Spec

-----------------------------------------------------------------------------
(* What is not forgotten.  A request keeps its ApprovalRequest once it was *)
(* made and a call of resolve_request keeps what it was called for, over   *)
(* session ends and restarts too.                                          *)

\* A step keeps the requests that were made and the calls that were begun.
NothingForgotten ==
  /\ \A u \in Requests : pc[u] # "new" => pc'[u] # "new" /\ info'[u] = info[u]
  /\ \A k \in Calls : call[k] # Idle =>
       /\ call'[k] # Idle
       /\ call'[k].card = call[k].card
       /\ call'[k].req = call[k].req
       /\ call'[k].decision = call[k].decision
       /\ call'[k].rule = call[k].rule

\* No step forgets a request or a call.
LEMMA StepForgetsNothing == TypeOK /\ [Next]_vars => NothingForgotten
<1> SUFFICES ASSUME TypeOK, [Next]_vars PROVE NothingForgotten
  OBVIOUS
<1>1. ASSUME NEW u \in Requests, Requester(u) PROVE NothingForgotten
  BY <1>1 DEF Requester, Request, Published, Return, TimeOut, CancelWaiting, CancelPublishing,
              Leave, TypeOK, NothingForgotten
<1>2. ASSUME NEW k \in Calls, FinishResolve(k) \/ CancelResolve(k) PROVE NothingForgotten
  <2>a. call[k] \in CallType /\ \E at \in {"done", "cancelled"} : call' = [call EXCEPT ![k].at = at]
    BY <1>2 DEF FinishResolve, CancelResolve, TypeOK, Idle
  <2>1. \A j \in Calls : call[j] # Idle =>
          /\ call'[j] # Idle
          /\ call'[j].card = call[j].card
          /\ call'[j].req = call[j].req
          /\ call'[j].decision = call[j].decision
          /\ call'[j].rule = call[j].rule
    BY <2>a DEF TypeOK, CallType, Idle
  <2>2. UNCHANGED <<pc, info>>
    BY <1>2 DEF FinishResolve, CancelResolve, flowVars
  <2> QED BY <2>1, <2>2 DEF NothingForgotten
<1>3. ASSUME NEW k \in Calls, NEW card, NEW d, BeginResolve(k, card, d) PROVE NothingForgotten
  <2>1. call[k] = Idle /\ \A j \in Calls \ {k} : call'[j] = call[j]
    BY <1>3 DEF BeginResolve, TypeOK
  <2> QED BY <1>3, <2>1 DEF BeginResolve, flowVars, NothingForgotten
<1>4. ASSUME NEW yaml, RestartWith(yaml) PROVE NothingForgotten
  <2>1. \A j \in Calls : call[j] # Idle =>
          /\ call'[j] # Idle
          /\ call'[j].card = call[j].card
          /\ call'[j].req = call[j].req
          /\ call'[j].decision = call[j].decision
          /\ call'[j].rule = call[j].rule
    BY <1>4 DEF RestartWith, TypeOK, CallType, Idle
  <2> QED BY <1>4, <2>1 DEF RestartWith, NothingForgotten
<1>5. CASE Environment
  BY <1>4, <1>5 DEF Environment, ClearSession, ForgetAgent, RevokeByHand, Reload, Restart,
                    StopInWrite, flowVars, NothingForgotten
<1>6. CASE UNCHANGED vars
  BY <1>6 DEF vars, flowVars, NothingForgotten
<1> QED BY <1>1, <1>2, <1>3, <1>5, <1>6 DEF Next, Resolver

-----------------------------------------------------------------------------
(* An answer reaches the request its card was made for.  The counter       *)
(* starts again with the process, so ids are only unique within an era.    *)

IdsInv ==
  /\ \A u \in Requests : pc[u] # "new" =>
       info[u].era <= era /\ (info[u].era = era => info[u].id <= counter)
  /\ \A u, v \in Requests :
       pc[u] # "new" /\ pc[v] # "new" /\ info[u].era = info[v].era /\ info[u].id = info[v].id => u = v
  /\ \A u \in pending : info[u].era = era
  /\ \A k \in Calls : call[k] # Idle => pc[call[k].card] # "new"
  /\ AnswerReachesItsRequest

\* Initially there are no ids.
LEMMA IdsInit == Init => IdsInv
  BY DEF Init, IdsInv, AnswerReachesItsRequest

\* What the steps that make no request and begin no call do.
LEMMA IdsQuiet ==
  ASSUME TypeOK, Made, IdsInv, NothingForgotten,
         \A u \in Requests : pc[u] = "new" => pc'[u] = "new",
         \A k \in Calls : call[k] = Idle => call'[k] = Idle,
         pending' \subseteq pending,
         (era' = era /\ counter' = counter) \/ (era' = era + 1 /\ pending' = {})
  PROVE  IdsInv'
<1>1. \A u \in Requests : pc[u] # "new" => info[u].id \in Nat /\ info[u].era \in Nat
  BY DEF Made, InfoType
<1>2. era \in Nat /\ counter \in Nat /\ pending \subseteq Requests
  BY DEF TypeOK
<1>3. \A u \in Requests : pc'[u] # "new" => pc[u] # "new" /\ info'[u] = info[u]
  BY DEF NothingForgotten
<1>4. \A u \in Requests : pc'[u] # "new" =>
        info'[u].era <= era' /\ (info'[u].era = era' => info'[u].id <= counter')
  <2> SUFFICES ASSUME NEW u \in Requests, pc'[u] # "new"
               PROVE  info'[u].era <= era' /\ (info'[u].era = era' => info'[u].id <= counter')
    OBVIOUS
  <2>1. info'[u] = info[u] /\ info[u].era <= era /\ (info[u].era = era => info[u].id <= counter)
        /\ info[u].era \in Nat
    BY <1>1, <1>3 DEF IdsInv
  <2> QED BY <1>2, <2>1
<1>5. \A u, v \in Requests :
        pc'[u] # "new" /\ pc'[v] # "new" /\ info'[u].era = info'[v].era /\ info'[u].id = info'[v].id => u = v
  BY <1>3 DEF IdsInv
<1>6. \A u \in pending' : info'[u].era = era'
  BY <1>2, <1>3 DEF IdsInv, Made, NothingForgotten
<1>7. \A k \in Calls : call'[k] # Idle =>
        /\ call[k] # Idle /\ call'[k].card = call[k].card /\ call'[k].req = call[k].req
        /\ call[k].card \in Requests /\ call[k].req \in Requests
        /\ pc[call[k].card] # "new" /\ pc[call[k].req] # "new"
  BY DEF NothingForgotten, IdsInv, TypeOK, Made, CallType
<1>8. \A k \in Calls : call'[k] # Idle => pc'[call'[k].card] # "new"
  BY <1>7 DEF NothingForgotten
<1>9. AnswerReachesItsRequest'
  <2> SUFFICES ASSUME NEW k \in Calls, call'[k] # Idle
               PROVE  call'[k].req = call'[k].card \/ info'[call'[k].req].era # info'[call'[k].card].era
    BY DEF AnswerReachesItsRequest
  <2>1. info'[call[k].req] = info[call[k].req] /\ info'[call[k].card] = info[call[k].card]
    BY <1>7 DEF NothingForgotten
  <2> QED BY <1>7, <2>1 DEF IdsInv, AnswerReachesItsRequest
<1> QED BY <1>4, <1>5, <1>6, <1>8, <1>9 DEF IdsInv

\* Every step preserves the invariant: a request takes an id above all ids of its
\* era, and a call takes its request from those pending in this era.
LEMMA IdsStep == TypeOK /\ Made /\ IdsInv /\ [Next]_vars => IdsInv'
<1> SUFFICES ASSUME TypeOK, Made, IdsInv, [Next]_vars PROVE IdsInv'
  OBVIOUS
<1>a. NothingForgotten
  BY StepForgetsNothing
<1>b. era \in Nat /\ counter \in Nat /\ pending \subseteq Requests
  BY DEF TypeOK
<1>1. ASSUME NEW r \in Requests, NEW a \in Agents, NEW x \in Actions, Request(r, a, x) PROVE IdsInv'
  <2>1. /\ pc[r] = "new" /\ UNCHANGED <<call, era>> /\ counter' = counter + 1
        /\ pending' = pending \cup {r}
        /\ info'[r].id = counter + 1 /\ info'[r].era = era
        /\ \A u \in Requests \ {r} : info'[u] = info[u] /\ pc'[u] = pc[u]
    BY <1>1 DEF Request, TypeOK, ghostVars
  <2>2. \A u \in Requests \ {r} : pc'[u] # "new" =>
          /\ info'[u].id \in Nat
          /\ info'[u].era <= era /\ (info'[u].era = era => info'[u].id <= counter)
    BY <2>1 DEF IdsInv, Made, InfoType
  <2>3. \A u \in Requests : pc'[u] # "new" =>
          info'[u].era <= era' /\ (info'[u].era = era' => info'[u].id <= counter')
    BY <1>b, <2>1, <2>2
  <2>4. \A u, v \in Requests :
          pc'[u] # "new" /\ pc'[v] # "new" /\ info'[u].era = info'[v].era /\ info'[u].id = info'[v].id => u = v
    <3> SUFFICES ASSUME NEW u \in Requests, NEW v \in Requests, u # v,
                        pc'[u] # "new", pc'[v] # "new", info'[u].era = info'[v].era, info'[u].id = info'[v].id
                 PROVE  FALSE
      OBVIOUS
    <3>1. CASE u # r /\ v # r
      BY <2>1, <3>1 DEF IdsInv
    <3>2. CASE u = r
      BY <1>b, <2>1, <2>2, <3>2
    <3>3. CASE v = r
      BY <1>b, <2>1, <2>2, <3>3
    <3> QED BY <3>1, <3>2, <3>3
  <2>5. \A u \in pending' : info'[u].era = era'
    BY <1>b, <2>1 DEF IdsInv
  <2>6. \A k \in Calls : call'[k] # Idle =>
          /\ call'[k] = call[k] /\ call[k].card \in Requests \ {r} /\ call[k].req \in Requests \ {r}
          /\ pc[call[k].card] # "new"
    BY <2>1 DEF IdsInv, Made, TypeOK, CallType
  <2>7. AnswerReachesItsRequest' /\ \A k \in Calls : call'[k] # Idle => pc'[call'[k].card] # "new"
    BY <2>1, <2>6 DEF IdsInv, AnswerReachesItsRequest
  <2> QED BY <2>3, <2>4, <2>5, <2>7 DEF IdsInv
<1>2. ASSUME NEW u \in Requests, Requester(u) PROVE IdsInv'
  <2>1. CASE Published(u) \/ Return(u) \/ TimeOut(u) \/ CancelWaiting(u) \/ CancelPublishing(u)
    <3>1. /\ \A v \in Requests : pc[v] = "new" => pc'[v] = "new"
          /\ UNCHANGED <<call, era, counter>> /\ pending' \subseteq pending
      BY <2>1 DEF Published, Return, TimeOut, CancelWaiting, CancelPublishing, Leave, TypeOK, ghostVars
    <3> QED BY <1>a, <3>1, IdsQuiet
  <2> QED BY <1>1, <1>2, <2>1 DEF Requester
<1>3. ASSUME NEW k \in Calls, FinishResolve(k) \/ CancelResolve(k) PROVE IdsInv'
  <2>1. \A j \in Calls : call[j] = Idle => call'[j] = Idle
    BY <1>3 DEF FinishResolve, CancelResolve, TypeOK, CallType, Idle
  <2>2. UNCHANGED <<pc, pending, era, counter>>
    BY <1>3 DEF FinishResolve, CancelResolve, flowVars, ghostVars
  <2> QED BY <1>a, <2>1, <2>2, IdsQuiet
<1>4. ASSUME NEW k \in Calls, NEW card \in Requests, NEW d \in Decisions, BeginResolve(k, card, d)
      PROVE  IdsInv'
  <2>1. PICK u \in Named(card) : \E rule \in RulesFor(u, d) :
          call' = [call EXCEPT ![k] = [at |-> "publishing", card |-> card, req |-> u,
                                       decision |-> d, rule |-> rule]]
    BY <1>4 DEF BeginResolve
  <2>2. call'[k].card = card /\ call'[k].req = u /\ \A j \in Calls \ {k} : call'[j] = call[j]
    BY <2>1 DEF TypeOK
  <2>3. UNCHANGED <<pc, info, pending, era, counter>> /\ pc[card] # "new"
    BY <1>4 DEF BeginResolve, flowVars
  <2>4. u \in Requests /\ pc[u] # "new" /\ info[u].id = info[card].id
    BY <1>b DEF Named, Made
  <2>5. u = card \/ info[u].era # info[card].era
    BY <2>3, <2>4 DEF IdsInv
  <2>6. AnswerReachesItsRequest' /\ \A j \in Calls : call'[j] # Idle => pc'[call'[j].card] # "new"
    BY <2>2, <2>3, <2>5 DEF IdsInv, AnswerReachesItsRequest
  <2> QED BY <2>3, <2>6 DEF IdsInv
<1>5. ASSUME NEW yaml, RestartWith(yaml) PROVE IdsInv'
  <2>1. /\ \A v \in Requests : pc[v] = "new" => pc'[v] = "new"
        /\ \A j \in Calls : call[j] = Idle => call'[j] = Idle
        /\ era' = era + 1 /\ pending' = {}
    BY <1>5 DEF RestartWith, Idle
  <2> QED BY <1>a, <2>1, IdsQuiet
<1>6. CASE Environment
  <2>1. CASE ClearSession
    BY <1>a, <2>1, IdsQuiet DEF ClearSession
  <2>2. ASSUME NEW a, ForgetAgent(a) PROVE IdsInv'
    BY <1>a, <2>2, IdsQuiet DEF ForgetAgent, flowVars, ghostVars
  <2>3. ASSUME NEW section, NEW a, NEW rule, RevokeByHand(section, a, rule) PROVE IdsInv'
    BY <1>a, <2>3, IdsQuiet DEF RevokeByHand, flowVars
  <2>4. CASE Reload
    BY <1>a, <2>4, IdsQuiet DEF Reload, flowVars, ghostVars
  <2> QED BY <1>5, <1>6, <2>1, <2>2, <2>3, <2>4 DEF Environment, Restart, StopInWrite
<1>7. CASE UNCHANGED vars
  BY <1>a, <1>7, IdsQuiet DEF vars, flowVars, ghostVars
<1> QED BY <1>2, <1>3, <1>4, <1>6, <1>7 DEF Next, Resolver

\* The decision taken on a card is applied to the request the card was made for,
\* unless the two belong to different sessions or processes.
THEOREM AnswersReachTheirRequests == Spec => []AnswerReachesItsRequest
<1>1. Init => TypeOK /\ Made /\ IdsInv
  BY InitType, IdsInit
<1>2. (TypeOK /\ Made /\ IdsInv) /\ [Next]_vars => (TypeOK /\ Made /\ IdsInv)'
  BY TypeStep, IdsStep
<1>3. IdsInv => AnswerReachesItsRequest
  BY DEF IdsInv
<1> QED BY <1>1, <1>2, <1>3, PTL DEF Spec

-----------------------------------------------------------------------------
(* What runs silently was granted.  Every rule of an allowing section, in  *)
(* the file or compiled, was authored at the start or is the rule of an    *)
(* "always allow"; every rule remembered for the session is the rule of an *)
(* approval for a request of the era that is still going on.               *)

Allowing == {"always_allow", "always_allow_learned"}

AllowedForGood(a, rule) ==
  \/ \E section \in Allowing : rule \in InitialRules[section][a]
  \/ \E k \in Calls : /\ call[k] # Idle
                      /\ info[call[k].req].agent = a
                      /\ call[k].rule = rule
                      /\ call[k].decision = "always_allow"

AllowedThisSession(a, rule) ==
  \E k \in Calls : /\ call[k] # Idle
                   /\ info[call[k].req].agent = a
                   /\ call[k].rule = rule
                   /\ call[k].decision = "approve_session"
                   /\ info[call[k].req].era = era

GrantInv ==
  /\ \A section \in Allowing, a \in Agents :
       \A rule \in securityYaml[section][a] \cup agentRules[section][a] : AllowedForGood(a, rule)
  /\ \A a \in Agents : \A rule \in sessionMemory[a] : AllowedThisSession(a, rule)

\* Initially the rules are the authored ones and nothing is remembered.
LEMMA GrantInit == Init => GrantInv
<1> SUFFICES ASSUME Init PROVE GrantInv
  OBVIOUS
<1>1. \A section \in Allowing, a \in Agents :
        \A rule \in securityYaml[section][a] \cup agentRules[section][a] : AllowedForGood(a, rule)
  BY DEF Init, EngineInit, AllowedForGood
<1>2. \A a \in Agents : sessionMemory[a] = {}
  BY DEF Init, EngineInit
<1> QED BY <1>1, <1>2 DEF GrantInv

\* Only "always allow" leaves a rule in an allowing section.
LEMMA SectionIsAllowing ==
  ASSUME NEW d \in Permanent, SectionOf[d] \in Allowing PROVE d = "always_allow"
  BY SectionOfValues DEF Permanent, Allowing

\* The invariant says that what runs silently was granted.
LEMMA GrantImplies == TypeOK /\ Made /\ GrantInv => SilentAllowIsGranted
<1> SUFFICES ASSUME TypeOK, Made, GrantInv, NEW a \in Agents, NEW x \in Actions, Evaluate(a, x) \in Silent
             PROVE  \/ \E section \in Allowing : \E rule \in InitialRules[section][a] : x \in rule
                    \/ \E k \in Calls :
                         /\ call[k] # Idle
                         /\ info[call[k].req].agent = a
                         /\ x \in call[k].rule
                         /\ \/ call[k].decision = "always_allow"
                            \/ call[k].decision = "approve_session" /\ info[call[k].req].era = era
  BY DEF SilentAllowIsGranted, Allowing
<1>1. Allows(a, x) \/ Remembers(a, x)
  BY DEF Evaluate, Silent
<1>2. CASE Allows(a, x)
  <2>1. PICK section \in Allowing : \E rule \in agentRules[section][a] : x \in rule
    BY <1>2 DEF Allows, Matches, Allowing
  <2>2. PICK rule \in agentRules[section][a] : x \in rule
    BY <2>1
  <2>3. AllowedForGood(a, rule)
    BY <2>2 DEF GrantInv
  <2> QED BY <2>2, <2>3 DEF AllowedForGood
<1>3. CASE Remembers(a, x)
  <2>1. PICK rule \in sessionMemory[a] : x \in rule
    BY <1>3 DEF Remembers
  <2>2. AllowedThisSession(a, rule)
    BY DEF GrantInv
  <2> QED BY <2>1, <2>2 DEF AllowedThisSession
<1> QED BY <1>1, <1>2, <1>3

\* A grant outlives every step, that of a session until the era changes.
LEMMA GrantStays ==
  ASSUME TypeOK, Made, NothingForgotten, NEW a, NEW rule
  PROVE  /\ AllowedForGood(a, rule) => AllowedForGood(a, rule)'
         /\ AllowedThisSession(a, rule) /\ era' = era => AllowedThisSession(a, rule)'
<1>1. \A k \in Calls : call[k] # Idle =>
        call'[k] # Idle /\ info'[call'[k].req] = info[call[k].req]
        /\ call'[k].rule = call[k].rule /\ call'[k].decision = call[k].decision
  BY DEF NothingForgotten, TypeOK, Made, CallType
<1> QED BY <1>1 DEF AllowedForGood, AllowedThisSession

\* Steps that add no rule anywhere, and forget the session when the era changes.
LEMMA GrantQuiet ==
  ASSUME TypeOK, Made, GrantInv, NothingForgotten,
         \A section \in Allowing, a \in Agents :
           securityYaml'[section][a] \cup agentRules'[section][a]
             \subseteq securityYaml[section][a] \cup agentRules[section][a],
         \A a \in Agents : sessionMemory'[a] \subseteq sessionMemory[a],
         era' = era \/ \A a \in Agents : sessionMemory'[a] = {}
  PROVE  GrantInv'
<1>1. \A section \in Allowing, a \in Agents :
        \A rule \in securityYaml'[section][a] \cup agentRules'[section][a] : AllowedForGood(a, rule)'
  BY GrantStays DEF GrantInv
<1>2. \A a \in Agents : \A rule \in sessionMemory'[a] : AllowedThisSession(a, rule)'
  BY GrantStays DEF GrantInv
<1> QED BY <1>1, <1>2 DEF GrantInv

\* Every step preserves the invariant: the one that adds a rule begins the call
\* whose rule it is.
LEMMA GrantStep == TypeOK /\ Made /\ IdsInv /\ GrantInv /\ [Next]_vars => GrantInv'
<1> SUFFICES ASSUME TypeOK, Made, IdsInv, GrantInv, [Next]_vars PROVE GrantInv'
  OBVIOUS
<1>a. NothingForgotten
  BY StepForgetsNothing
<1>b. Allowing \subseteq Sections
  BY DEF Allowing, Sections, Authored, Learned
<1>1. ASSUME UNCHANGED <<securityYaml, agentRules, sessionMemory, era>> PROVE GrantInv'
  BY <1>1, <1>a, GrantQuiet
<1>2. ASSUME NEW u \in Requests, Requester(u) PROVE GrantInv'
  BY <1>1, <1>2 DEF Requester, Request, Published, Return, TimeOut, CancelWaiting, CancelPublishing,
                    Leave, engineVars, ghostVars
<1>3. ASSUME NEW k \in Calls, FinishResolve(k) \/ CancelResolve(k) PROVE GrantInv'
  BY <1>1, <1>3 DEF FinishResolve, CancelResolve, engineVars, ghostVars
<1>4. ASSUME NEW k \in Calls, NEW card \in Requests, NEW d \in Decisions, BeginResolve(k, card, d)
      PROVE  GrantInv'
  <2>a. PICK u \in Named(card) : \E rule \in RulesFor(u, d) :
          /\ call' = [call EXCEPT ![k] = [at |-> "publishing", card |-> card, req |-> u,
                                          decision |-> d, rule |-> rule]]
          /\ Apply(u, d, rule)
    BY <1>4 DEF BeginResolve
  <2>1. PICK rule \in RulesFor(u, d) :
          /\ call' = [call EXCEPT ![k] = [at |-> "publishing", card |-> card, req |-> u,
                                          decision |-> d, rule |-> rule]]
          /\ Apply(u, d, rule)
    BY <2>a
  <2>2. call'[k] # Idle /\ call'[k].req = u /\ call'[k].decision = d /\ call'[k].rule = rule
    BY <2>1 DEF TypeOK, Idle
  <2>3. UNCHANGED <<info, era>>
    BY <1>4 DEF BeginResolve, flowVars
  <2>4. info[u].era = era /\ info[u].agent \in Agents
    BY DEF Named, IdsInv, TypeOK, Made, InfoType
  <2>5. CASE d = "approve_session" /\ RecordSessionApproval(info[u].agent, rule)
             /\ UNCHANGED <<securityYaml, agentRules, revoked>>
    <3>1. AllowedThisSession(info[u].agent, rule)'
      BY <2>2, <2>3, <2>4, <2>5 DEF AllowedThisSession
    <3>2. \A a \in Agents : \A r \in sessionMemory'[a] :
            r \in sessionMemory[a] \/ (a = info[u].agent /\ r = rule)
      BY <2>4, <2>5 DEF RecordSessionApproval, TypeOK, EngineTypeOK
    <3>3. \A a \in Agents : \A r \in sessionMemory'[a] : AllowedThisSession(a, r)'
      BY <1>a, <2>3, <3>1, <3>2, GrantStays DEF GrantInv
    <3>4. \A section \in Allowing, a \in Agents :
            \A r \in securityYaml'[section][a] \cup agentRules'[section][a] : AllowedForGood(a, r)'
      BY <1>a, <2>5, GrantStays DEF GrantInv
    <3> QED BY <3>3, <3>4 DEF GrantInv
  <2>6. CASE /\ d \in Permanent
             /\ securityYaml' = WithRule(securityYaml, SectionOf[d], info[u].agent, rule)
             /\ agentRules' = securityYaml'
             /\ UNCHANGED sessionMemory
    <3>1. \A section \in Sections, a \in Agents : \A r \in securityYaml'[section][a] :
            r \in securityYaml[section][a] \/ (section = SectionOf[d] /\ a = info[u].agent /\ r = rule)
      BY <2>4, <2>6, SectionOfType DEF WithRule, TypeOK, EngineTypeOK, RuleTable, Sections
    <3>2. ASSUME NEW section \in Allowing, NEW a \in Agents, NEW r \in securityYaml'[section][a]
          PROVE  AllowedForGood(a, r)'
      <4>1. CASE r \in securityYaml[section][a]
        BY <1>a, <4>1, GrantStays DEF GrantInv
      <4>2. CASE section = SectionOf[d] /\ a = info[u].agent /\ r = rule
        <5>1. d = "always_allow"
          BY <2>6, <4>2, SectionIsAllowing
        <5> QED BY <2>2, <2>3, <4>2, <5>1 DEF AllowedForGood
      <4> QED BY <1>b, <3>1, <4>1, <4>2
    <3>3. \A section \in Allowing, a \in Agents :
            \A r \in securityYaml'[section][a] \cup agentRules'[section][a] : AllowedForGood(a, r)'
      BY <2>6, <3>2
    <3>4. \A a \in Agents : \A r \in sessionMemory'[a] : AllowedThisSession(a, r)'
      BY <1>a, <2>3, <2>6, GrantStays DEF GrantInv
    <3> QED BY <3>3, <3>4 DEF GrantInv
  <2>7. CASE UNCHANGED <<securityYaml, engineVars, revoked>>
    BY <1>1, <2>3, <2>7 DEF engineVars
  <2> QED BY <2>1, <2>5, <2>6, <2>7, ApplyCases
<1>5. ASSUME NEW section \in Learned, NEW a \in Agents, NEW rule \in Rules, RevokeByHand(section, a, rule)
      PROVE  GrantInv'
  <2>1. UNCHANGED <<agentRules, sessionMemory, era>>
    BY <1>5 DEF RevokeByHand, engineVars
  <2>2. \A s \in Sections, b \in Agents : securityYaml'[s][b] \subseteq securityYaml[s][b]
    BY <1>5 DEF RevokeByHand, TypeOK, EngineTypeOK, RuleTable, Sections
  <2> QED BY <1>a, <1>b, <2>1, <2>2, GrantQuiet
<1>6. ASSUME NEW yaml, RestartWith(yaml),
             \A section \in Allowing, a \in Agents : yaml[section][a] \subseteq securityYaml[section][a]
      PROVE  GrantInv'
  BY <1>a, <1>6, GrantQuiet DEF RestartWith, ClearSessionMemory
<1>7. CASE Environment
  <2>1. CASE ClearSession
    BY <1>a, <2>1, GrantQuiet DEF ClearSession, ClearSessionMemory
  <2>2. ASSUME NEW a \in Agents, ForgetAgent(a) PROVE GrantInv'
    <3>1. UNCHANGED <<securityYaml, agentRules, era>>
          /\ \A b \in Agents : sessionMemory'[b] \subseteq sessionMemory[b]
      BY <2>2 DEF ForgetAgent, ClearAgentSessionMemory, ghostVars, TypeOK, EngineTypeOK
    <3> QED BY <1>a, <3>1, GrantQuiet
  <2>3. CASE Reload
    BY <1>a, <2>3, GrantQuiet DEF Reload, ReloadRules, ghostVars
  <2>4. CASE Restart
    BY <1>6, <2>4 DEF Restart
  <2>5. ASSUME NEW card, NEW d, StopInWrite(card, d) PROVE GrantInv'
    BY <1>6, <1>b, <2>5 DEF StopInWrite
  <2> QED BY <1>5, <1>7, <2>1, <2>2, <2>3, <2>4, <2>5 DEF Environment
<1>8. CASE UNCHANGED vars
  BY <1>1, <1>8 DEF vars, ghostVars
<1> QED BY <1>2, <1>3, <1>4, <1>7, <1>8 DEF Next, Resolver

\* What runs without a prompt was allowed by the user: in the file he wrote, by an
\* "always allow" or by an approval for the session that is still going on.
THEOREM SilenceIsGranted == Spec => []SilentAllowIsGranted
<1>1. Init => TypeOK /\ Made /\ IdsInv /\ GrantInv
  BY InitType, IdsInit, GrantInit
<1>2. (TypeOK /\ Made /\ IdsInv /\ GrantInv) /\ [Next]_vars => (TypeOK /\ Made /\ IdsInv /\ GrantInv)'
  BY TypeStep, IdsStep, GrantStep
<1> QED BY <1>1, <1>2, GrantImplies, PTL DEF Spec
=============================================================================
