---------------------------- MODULE StallDetector ----------------------------
(***************************************************************************)
(* The StallDetector of src/faith_shared/protocol/subscriber.py.  Time is  *)
(* reduced to what the detector compares: quiet holds the channels, and    *)
(* silent the agents, whose last activity is at least the timeout ago.     *)
(*                                                                         *)
(* The tick loop takes a snapshot of all channels, then of all agents, and *)
(* suspends in the publication of every report; the rest of the snapshot   *)
(* is judged by the old activity, the flags are looked up afresh.          *)
(***************************************************************************)
EXTENDS Naturals

CONSTANTS Channels, Agents

VARIABLES channels,         \* the keys of _channel_activity
          quiet,            \* those that were last active a timeout ago or more
          stalledChannels,  \* _stalled_channels
          agents,           \* the keys of _agent_heartbeats
          silent,           \* those that last beat too long ago
          erroredAgents,    \* _errored_agents
          tick,             \* where the tick loop is
          due               \* what the loop has yet to look at: quiet when it began

detectorVars == <<channels, quiet, stalledChannels, agents, silent, erroredAgents, tick, due>>
activityVars == <<channels, quiet, agents, silent>>

DetectorTypeOK ==
  /\ channels \subseteq Channels
  /\ quiet \subseteq channels
  /\ stalledChannels \subseteq Channels
  /\ agents \subseteq Agents
  /\ silent \subseteq agents
  /\ erroredAgents \subseteq Agents
  /\ tick \in {"off", "asleep", "channels", "agents"}
  /\ tick = "channels" => due \subseteq Channels
  /\ tick = "agents" => due \subseteq Agents
  /\ tick \in {"off", "asleep"} => due = {}

DetectorInit ==
  /\ channels = {} /\ quiet = {} /\ stalledChannels = {}
  /\ agents = {} /\ silent = {} /\ erroredAgents = {}
  /\ tick = "off" /\ due = {}

RegisterChannel(c) ==
  /\ channels' = channels \cup {c}
  /\ quiet' = quiet \ {c}
  /\ stalledChannels' = stalledChannels \ {c}
  /\ UNCHANGED <<agents, silent, erroredAgents, tick, due>>

UnregisterChannel(c) ==
  /\ c \in channels \cup stalledChannels
  /\ channels' = channels \ {c}
  /\ quiet' = quiet \ {c}
  /\ stalledChannels' = stalledChannels \ {c}
  /\ UNCHANGED <<agents, silent, erroredAgents, tick, due>>

RegisterAgent(a) ==
  /\ agents' = agents \cup {a}
  /\ silent' = silent \ {a}
  /\ erroredAgents' = erroredAgents \ {a}
  /\ UNCHANGED <<channels, quiet, stalledChannels, tick, due>>

UnregisterAgent(a) ==
  /\ a \in agents \cup erroredAgents
  /\ agents' = agents \ {a}
  /\ silent' = silent \ {a}
  /\ erroredAgents' = erroredAgents \ {a}
  /\ UNCHANGED <<channels, quiet, stalledChannels, tick, due>>

\* Time passes without activity.
BecomesQuiet(c) ==
  /\ c \in channels \ quiet
  /\ quiet' = quiet \cup {c}
  /\ UNCHANGED <<channels, stalledChannels, agents, silent, erroredAgents, tick, due>>
BecomesSilent(a) ==
  /\ a \in agents \ silent
  /\ silent' = silent \cup {a}
  /\ UNCHANGED <<channels, quiet, stalledChannels, agents, erroredAgents, tick, due>>

\* record_event: any event with a registered channel is activity on it, a
\* heartbeat of a registered agent is a beat.
RecordEvent(e) ==
  LET active == {e.channel} \cap channels
      beats  == IF e.type = "agent:heartbeat" THEN {e.key} \cap agents ELSE {}
  IN /\ quiet' = quiet \ active
     /\ stalledChannels' = stalledChannels \ active
     /\ silent' = silent \ beats
     /\ erroredAgents' = erroredAgents \ beats
     /\ UNCHANGED <<channels, agents, tick, due>>

\* _check_heartbeats from one await to the next, when the entries S of the
\* snapshot are left: those that are flagged are passed, the next one is flagged
\* and published; skipped are the ones before it in the dict.
AgentsFrom(S) ==
  \/ \E a \in S \ erroredAgents, skipped \in SUBSET (S \cap erroredAgents) :
       /\ erroredAgents' = erroredAgents \cup {a}
       /\ tick' = "agents" /\ due' = S \ (skipped \cup {a})
  \/ /\ S \subseteq erroredAgents
     /\ tick' = "asleep" /\ due' = {}
     /\ UNCHANGED erroredAgents

\* _check_channels likewise; after the last entry comes the snapshot of agents.
ChannelsFrom(S) ==
  \/ \E c \in S \ stalledChannels, skipped \in SUBSET (S \cap stalledChannels) :
       /\ stalledChannels' = stalledChannels \cup {c}
       /\ tick' = "channels" /\ due' = S \ (skipped \cup {c})
       /\ UNCHANGED erroredAgents
  \/ /\ S \subseteq stalledChannels
     /\ AgentsFrom(silent)
     /\ UNCHANGED stalledChannels

\* A bug the runs must notice: the snapshot is not taken anew after the sleep.
TickWithOldSnapshot ==
  /\ \/ tick \in {"asleep", "channels"} /\ ChannelsFrom(due)
     \/ tick = "agents" /\ AgentsFrom(due) /\ UNCHANGED stalledChannels
  /\ UNCHANGED activityVars

\* _tick_loop from one await to the next.
TickStep ==
  /\ \/ tick = "asleep" /\ ChannelsFrom(quiet)
     \/ tick = "channels" /\ ChannelsFrom(due)
     \/ tick = "agents" /\ AgentsFrom(due) /\ UNCHANGED stalledChannels
  /\ UNCHANGED activityVars

StartDetector ==
  /\ tick' = IF tick = "off" THEN "asleep" ELSE tick
  /\ UNCHANGED <<activityVars, stalledChannels, erroredAgents, due>>

\* stop: the tick loop is cancelled wherever it is.
StopDetector ==
  /\ tick' = "off" /\ due' = {}
  /\ UNCHANGED <<activityVars, stalledChannels, erroredAgents>>
=============================================================================
