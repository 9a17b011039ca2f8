------------------------------- MODULE TokenLog -------------------------------
(***************************************************************************)
(* The TokenLogger of src/faith_pa/logging/token_logger.py: the prices of  *)
(* the models, the log of the calls, the session total in memory and the   *)
(* cost warning.  A price is a number per call.                            *)
(***************************************************************************)
EXTENDS Naturals, Sequences, FiniteSets, FiniteSetsExt, Functions

CONSTANTS Models, Agents, Sessions,
          Catalogs,       \* what a catalog file may hold: prices of some models; Unusable
          Unusable,
          Threshold,      \* cost_threshold_usd
          MaxCalls,       \* bound on the calls logged
          QueryLimit      \* the limit of a query

\* A catalog has prices of some models, a price is a number, a query returns something.
ASSUME TokenConstants ==
  /\ \A c \in Catalogs : DOMAIN c \subseteq Models /\ \A m \in DOMAIN c : c[m] \in Nat
  /\ Threshold \in Nat /\ MaxCalls \in Nat /\ QueryLimit \in Nat \ {0}

VARIABLES prices,      \* _pricing_breakdown
          loadedFrom,  \* the catalog the prices came from
          calls,       \* tokens.log
          total,       \* _session_total_cost_usd
          warnedOnce,  \* _warning_emitted
          notices      \* the warnings given: the agent and the model they name

tokenVars == <<prices, loadedFrom, calls, total, warnedOnce, notices>>

NoPrices == <<>>

TokenInit ==
  /\ prices = NoPrices
  /\ loadedFrom = "none"
  /\ calls = <<>>
  /\ total = 0
  /\ warnedOnce = FALSE
  /\ notices = <<>>

\* load_pricing_catalog: the cache when it has a usable price, else the default.
LoadCatalog(cache, default) ==
  /\ loadedFrom = "none"
  /\ LET usable(c) == c # Unusable /\ c # NoPrices
     IN /\ prices' = IF usable(cache) THEN cache ELSE IF usable(default) THEN default ELSE prices
        /\ loadedFrom' = IF usable(cache) THEN "cache" ELSE IF usable(default) THEN "default" ELSE "nothing"
  /\ UNCHANGED <<calls, total, warnedOnce, notices>>

\* estimate_cost: nothing when the model has no price.
Cost(model) == IF model \in DOMAIN prices THEN prices[model] ELSE 0

\* log_api_call
LogApiCall(s, agent, model) ==
  /\ Len(calls) < MaxCalls
  /\ calls' = Append(calls, [session |-> s, agent |-> agent, model |-> model, cost |-> Cost(model)])
  /\ total' = total + Cost(model)
  /\ UNCHANGED <<prices, loadedFrom, warnedOnce, notices>>

\* reset_session_total
ResetSessionTotal ==
  /\ total' = 0
  /\ warnedOnce' = FALSE
  /\ UNCHANGED <<prices, loadedFrom, calls, notices>>

\* The calls that _query matches, and those it returns: the newest, up to the limit
\* (query_session, query_agent).
CallsOf(s, agents) == {i \in DOMAIN calls : calls[i].session = s /\ calls[i].agent \in agents}

Query(s, agents) ==
  {i \in CallsOf(s, agents) : Cardinality({j \in CallsOf(s, agents) : j >= i}) <= QueryLimit}

\* The cost of the calls of one agent among those at the positions I.
CostAmong(I, agent) ==
  SumFunctionOnSet([i \in DOMAIN calls |-> calls[i].cost], {i \in I : calls[i].agent = agent})

\* calculate_agent_cost, get_agent_stats
CostOf(s, agent) == CostAmong(Query(s, {agent}), agent)

\* A bug the runs must notice: the agent that called last is named.
LastAgent(s) == calls[Max(Query(s, Agents))].agent

\* highest_cost_agent: the dearest in what the query of the session returned, among
\* equals the one that called last.
HighestCostAgent(s) ==
  LET returned == Query(s, Agents)
      dearest == {i \in returned : \A j \in returned :
                    CostAmong(returned, calls[j].agent) <= CostAmong(returned, calls[i].agent)}
  IN calls[Max(dearest)].agent

\* cheaper_model_option: the cheapest of those that are cheaper; none: the model itself.
CheaperModel(model) ==
  LET cheaper == {m \in DOMAIN prices : model \in DOMAIN prices /\ prices[m] < prices[model]}
  IN IF cheaper = {} THEN model
     ELSE CHOOSE m \in cheaper : \A n \in cheaper : prices[m] <= prices[n]

\* consume_threshold_warning and the warning the runtime makes of it.
Warn(s, model) ==
  /\ total >= Threshold
  /\ ~warnedOnce
  /\ \E i \in DOMAIN calls : calls[i].session = s
  /\ warnedOnce' = TRUE
  /\ notices' = Append(notices, [session |-> s, agent |-> HighestCostAgent(s), model |-> model,
                                 cheaper |-> CheaperModel(model)])
  /\ UNCHANGED <<prices, loadedFrom, calls, total>>

TokenNext ==
  \/ \E cache, default \in Catalogs \cup {Unusable} : LoadCatalog(cache, default)
  \/ \E s \in Sessions, agent \in Agents, model \in Models : LogApiCall(s, agent, model)
  \/ ResetSessionTotal
  \/ \E s \in Sessions, model \in Models : Warn(s, model)

(***************************************************************************)
(* The warning names an agent of the session that no other agent has cost  *)
(* more than, among the calls that a query returns and, while the session  *)
(* has no more calls than that, in what each agent has cost; and a model   *)
(* that costs less whenever there is one.                                  *)
(***************************************************************************)
WarningNamesTheDearest ==
  [][notices' # notices =>
       LET n == notices'[Len(notices')]
           returned == Query(n.session, Agents)
       IN /\ \E i \in returned : calls[i].agent = n.agent
          /\ \A agent \in Agents :
               /\ CostAmong(returned, agent) <= CostAmong(returned, n.agent)
               /\ Cardinality(CallsOf(n.session, Agents)) <= QueryLimit =>
                    CostOf(n.session, agent) <= CostOf(n.session, n.agent)
          /\ \A m \in DOMAIN prices : n.model \in DOMAIN prices =>
               prices[n.cheaper] <= prices[m] \/ prices[m] >= prices[n.model]]_tokenVars
=============================================================================
