--------------------------- MODULE ApprovalEngine ---------------------------
(***************************************************************************)
(* The approval-rule engine of src/faith_pa/security/approval_engine.py    *)
(* and the security.yaml file it loads.                                    *)
(*                                                                         *)
(* A rule is a compiled regular expression.  The only thing the engine     *)
(* does with it is to search an action key, so a rule is represented by    *)
(* the set of action keys it matches; an expression that does not compile  *)
(* is skipped by the loader and is the empty set.                          *)
(***************************************************************************)
EXTENDS Naturals, FiniteSets

CONSTANTS Agents,       \* agent identifiers
          Actions,      \* action keys, "tool:action:target"
          InitialRules  \* security.yaml as the user wrote it

Rules == SUBSET Actions

Authored == {"always_ask", "always_deny", "always_allow"}
Learned  == {"always_ask_learned", "always_deny_learned", "always_allow_learned"}
Sections == Authored \cup Learned

RuleTable == [Sections -> [Agents -> SUBSET Rules]]

ASSUME InitialRulesAssumption == InitialRules \in RuleTable

VARIABLES securityYaml,   \* the rule sections of .faith/security.yaml
          agentRules,     \* _agent_rules: the rules the engine has compiled
          sessionMemory   \* _session_memory: the rules approved for the session

engineVars == <<agentRules, sessionMemory>>

-----------------------------------------------------------------------------
(* Evaluation.                                                             *)

\* _match_any over one section of the rules of agent a.
Matches(section, a, x) == \E rule \in agentRules[section][a] : x \in rule

AsksAlways(a, x) == Matches("always_ask", a, x) \/ Matches("always_ask_learned", a, x)
Denies(a, x)     == Matches("always_deny", a, x) \/ Matches("always_deny_learned", a, x)
Allows(a, x)     == Matches("always_allow", a, x) \/ Matches("always_allow_learned", a, x)

\* _match_session_memory: every remembered rule has the tier approve_session,
\* because record_session_decision is only reached through record_session_approval.
Remembers(a, x) == \E rule \in sessionMemory[a] : x \in rule

Tiers == {"always_ask", "always_deny", "always_allow", "approve_session", "ask_first"}

\* A bug the runs must notice: allow rules are looked up before deny rules.
EvaluateAllowFirst(a, x) ==
  IF AsksAlways(a, x)      THEN "always_ask"
  ELSE IF Allows(a, x)     THEN "always_allow"
  ELSE IF Denies(a, x)     THEN "always_deny"
  ELSE IF Remembers(a, x)  THEN "approve_session"
  ELSE "ask_first"

\* The tier of an action: user-authored and learned sections of one tier are
\* looked up together, because nothing distinguishes their results.
Evaluate(a, x) ==
  IF AsksAlways(a, x)      THEN "always_ask"
  ELSE IF Denies(a, x)     THEN "always_deny"
  ELSE IF Allows(a, x)     THEN "always_allow"
  ELSE IF Remembers(a, x)  THEN "approve_session"
  ELSE "ask_first"

\* Tiers under which the action is executed without asking the user.
Silent == {"always_allow", "approve_session"}

-----------------------------------------------------------------------------
(* State changes.                                                          *)

EngineInit ==
  /\ securityYaml = InitialRules
  /\ agentRules = InitialRules
  /\ sessionMemory = [a \in Agents |-> {}]

\* record_session_approval.
RecordSessionApproval(a, rule) ==
  sessionMemory' = [sessionMemory EXCEPT ![a] = @ \cup {rule}]

\* clear_session_memory.
ClearSessionMemory == sessionMemory' = [a \in Agents |-> {}]

\* clear_agent_session_memory.
ClearAgentSessionMemory(a) ==
  /\ sessionMemory' = [sessionMemory EXCEPT ![a] = {}]
  /\ UNCHANGED <<securityYaml, agentRules>>

\* reload_rules: the compiled rules are replaced by those of the file.
ReloadRules ==
  /\ agentRules' = securityYaml
  /\ UNCHANGED <<securityYaml, sessionMemory>>

EngineTypeOK ==
  /\ securityYaml \in RuleTable
  /\ agentRules \in RuleTable
  /\ sessionMemory \in [Agents -> SUBSET Rules]
=============================================================================
