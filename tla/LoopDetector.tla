----------------------------- MODULE LoopDetector -----------------------------
(***************************************************************************)
(* The LoopDetector of src/faith_pa/pa/loop_detector.py: of each channel a *)
(* window of what its agents said and of the state they said it in, three  *)
(* checks of the window, and the channels that were halted.  A hash is     *)
(* modelled by what it is taken of.                                        *)
(***************************************************************************)
EXTENDS Naturals, Sequences, FiniteSets, SequenceParts

CONSTANTS LoopChannels, Speakers, Sayings,
          WorkStates,      \* of the files and decisions named in a message
          LoopConfigs      \* [enabled, window, threshold]: loop_detection of system.yaml

ASSUME LoopConstants ==
  \A c \in LoopConfigs : c.window \in Nat \ {0} /\ c.threshold \in Nat \ {0}

VARIABLES loopConfig,  \* config
          tracker,     \* _channels: of those there are, the window
          halted,      \* halted_channels
          judgedBy,    \* the configuration each channel was last checked under
          loopReports  \* channel:loop_detected: the channels and the kinds of loop

loopVars == <<loopConfig, tracker, halted, judgedBy, loopReports>>

Put(f, c, v) == [d \in DOMAIN f \cup {c} |-> IF d = c THEN v ELSE f[d]]
Times(w, Test(_)) == Cardinality({i \in DOMAIN w : Test(w[i])})

LoopInit ==
  /\ loopConfig \in LoopConfigs
  /\ tracker = <<>> /\ halted = {} /\ judgedBy = <<>> /\ loopReports = {}

\* _check_direct_repetition: one agent says one thing over and over.
Repeats(w, c) ==
  \E i \in DOMAIN w :
     Times(w, LAMBDA x : x.agent = w[i].agent /\ x.says = w[i].says) > c.threshold

\* _check_oscillation: the work comes back to one state.
Oscillates(w, c) ==
  \E i \in DOMAIN w : Times(w, LAMBDA x : x.state = w[i].state) > c.threshold

\* _check_circular_dependency: what agents did last, they did before.
Circles(w, c) ==
  LET step(i) == <<w[i].agent, w[i].state>>
      again(n) == {i \in 1..(Len(w) - n + 1) :
                     \A k \in 0..(n - 1) : step(i + k) = step(Len(w) - n + 1 + k)}
      agents(n) == {w[i].agent : i \in (Len(w) - n + 1)..Len(w)}
  IN /\ Len(w) >= 4
     /\ \E n \in 2..(Len(w) \div 2) :
          Cardinality(agents(n)) > 1 /\ Cardinality(again(n)) > c.threshold

\* check_for_loops: the first check that finds something.
Verdict(w, c) ==
  IF Len(w) < 2 THEN "none"
  ELSE IF Repeats(w, c) THEN "direct_repetition"
  ELSE IF Oscillates(w, c) THEN "oscillation"
  ELSE IF Circles(w, c) THEN "circular_dependency" ELSE "none"

\* _compute_message_hash and _compute_state_hash
Snapshot(agent, said, state) == [agent |-> agent, says |-> said, state |-> state]

WindowOf(channel) == IF channel \in DOMAIN tracker THEN tracker[channel] ELSE <<>>

\* record_and_check.
RecordAndCheck(channel, message) ==
  /\ loopConfig.enabled /\ channel \notin halted
  /\ LET w == Newest(Append(WindowOf(channel), message), loopConfig.window)
         v == Verdict(w, loopConfig)
     IN /\ tracker' = Put(tracker, channel, w)
        /\ judgedBy' = Put(judgedBy, channel, loopConfig)
        /\ halted' = IF v = "none" THEN halted ELSE halted \cup {channel}
        /\ loopReports' = IF v = "none" THEN loopReports
                          ELSE loopReports \cup {[channel |-> channel, loop |-> v]}
  /\ UNCHANGED loopConfig

\* A bug the runs must notice: the window of a resumed channel is kept.
ResumeOnly(channel) ==
  /\ halted' = halted \ {channel}
  /\ UNCHANGED <<loopConfig, tracker, judgedBy, loopReports>>

\* resume_channel
ResumeChannel(channel) ==
  /\ halted' = halted \ {channel}
  /\ tracker' = IF channel \in DOMAIN tracker THEN [tracker EXCEPT ![channel] = <<>>] ELSE tracker
  /\ UNCHANGED <<loopConfig, judgedBy, loopReports>>

\* remove_channel
RemoveChannel(channel) ==
  /\ halted' = halted \ {channel}
  /\ tracker' = [c \in DOMAIN tracker \ {channel} |-> tracker[c]]
  /\ UNCHANGED <<loopConfig, judgedBy, loopReports>>

\* reload_config: the windows are cut to the new length, and not checked.
ReloadLoopConfig(c) ==
  /\ loopConfig' = c
  /\ tracker' = [d \in DOMAIN tracker |-> Newest(tracker[d], c.window)]
  /\ UNCHANGED <<halted, judgedBy, loopReports>>

LoopNext ==
  \/ \E channel \in LoopChannels :
       \/ \E a \in Speakers, t \in Sayings, s \in WorkStates :
            RecordAndCheck(channel, Snapshot(a, t, s))
       \/ ResumeChannel(channel) \/ RemoveChannel(channel)
  \/ \E c \in LoopConfigs : ReloadLoopConfig(c)

(***************************************************************************)
(* In a channel that is not halted nobody repeats himself, no state of the *)
(* work comes back and the agents do not turn in a circle, by the measure  *)
(* the channel was last checked under, when that is the one in force.  A   *)
(* channel that is resumed starts afresh, or it would be halted at the     *)
(* next message whatever that says.                                        *)
(***************************************************************************)
OpenChannelMovesOn ==
  \A c \in DOMAIN tracker \ halted :
     judgedBy[c] = loopConfig => Verdict(tracker[c], loopConfig) = "none"
=============================================================================
