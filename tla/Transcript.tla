------------------------------- MODULE Transcript -------------------------------
(***************************************************************************)
(* The file pa-user.log of a session: how a message is written (session.py,*)
(* as logging/session_log.py does), and how the Project Agent and the web  *)
(* interface each read the messages back (session.py, routes/logs.py).     *)
(* Lines are told apart as the two readers do: the headings "user" and     *)
(* "assistant", "open" (~~~text), "close" (~~~), "fence" (any other that   *)
(* begins with ~~~), "blank" and "text".                                   *)
(***************************************************************************)
EXTENDS Naturals, Sequences, FiniteSets, FiniteSetsExt

CONSTANTS Bodies,       \* what messages say: sequences of lines
          MaxMessages,  \* bound on the messages
          MaxTorn       \* bound on the tears inside a write

Tildes == {"open", "close", "fence"}
Lines == {"user", "assistant", "blank", "text"} \cup Tildes

ASSUME TranscriptConstants == Bodies \subseteq Seq(Lines) /\ MaxMessages \in Nat /\ MaxTorn \in Nat

VARIABLES logLines,  \* the file
          cutShort,  \* its last line has no end
          said,      \* the messages that were written, whole or not (a history)
          tears      \* the tears so far

transcriptVars == <<logLines, cutShort, said, tears>>

TranscriptInit == logLines = <<>> /\ cutShort = FALSE /\ said = <<>> /\ tears = 0

\* rstrip("\n") of the writer, and strip() of the web's reader
TrimmedEnd(lines) ==
  LET filled == {i \in DOMAIN lines : lines[i] # "blank"}
  IN IF filled = {} THEN <<>> ELSE SubSeq(lines, 1, Max(filled))
Trimmed(lines) ==
  LET filled == {i \in DOMAIN lines : lines[i] # "blank"}
  IN IF filled = {} THEN <<>> ELSE SubSeq(lines, Min(filled), Max(filled))

\* _format_project_agent_message
Formatted(role, body) ==
  LET kept == TrimmedEnd(body)
  IN <<role, "open">> \o (IF kept = <<>> THEN <<"blank">> ELSE kept) \o <<"close", "blank">>

\* A line written after one without an end is one line with it.
Glued(lines) ==
  IF ~cutShort THEN logLines \o lines
  ELSE LET last == logLines[Len(logLines)]
       IN SubSeq(logLines, 1, Len(logLines) - 1)
            \o <<IF last \in Tildes THEN "fence" ELSE "text">> \o Tail(lines)

\* append_project_agent_message; the heading of the file is written with the first.
AppendMessage(role, body) ==
  /\ Len(said) < MaxMessages
  /\ logLines' = (IF logLines = <<>> THEN <<"text", "blank">> ELSE <<>>) \o Glued(Formatted(role, body))
  /\ cutShort' = FALSE
  /\ said' = Append(said, [role |-> role, body |-> body, whole |-> TRUE])
  /\ UNCHANGED tears

\* The process stops in the middle of it: at the end of a line or within one.
TearMessage(role, body, n, within) ==
  LET lines == Formatted(role, body)
      last == IF lines[n] \in Tildes THEN {"close", "text"} ELSE {"text"}
  IN /\ Len(said) < MaxMessages /\ tears < MaxTorn /\ ~cutShort /\ logLines # <<>>
     /\ n \in 1..(Len(lines) - 1)
     /\ \E l \in (IF within THEN last ELSE {lines[n]}) :
          logLines' = logLines \o SubSeq(lines, 1, n - 1) \o <<l>>
     /\ cutShort' = within /\ tears' = tears + 1
     /\ said' = Append(said, [role |-> role, body |-> body, whole |-> FALSE])

TranscriptNext ==
  \E role \in {"user", "assistant"}, body \in Bodies :
    \/ AppendMessage(role, body)
    \/ \E n \in 1..(Len(body) + 4), within \in BOOLEAN : TearMessage(role, body, n, within)

\* A heading with the opening below it.
Heads(lines, i) == lines[i] \in {"user", "assistant"} /\ i < Len(lines) /\ lines[i + 1] = "open"

\* The messages read from lines: one that begins at i goes up to the first of
\* ends[i], or is none.
Messages(lines, ends) ==
  LET from[i \in 1..(Len(lines) + 2)] ==
        IF i > Len(lines) THEN <<>>
        ELSE IF ~Heads(lines, i) \/ ends[i] = {} THEN from[i + 1]
        ELSE <<[role |-> lines[i], body |-> SubSeq(lines, i + 2, Min(ends[i]) - 1)]>>
             \o from[Min(ends[i]) + 1]
  IN from[1]

TildesAfter(lines, i) == {e \in (i + 3)..Len(lines) : lines[e] \in Tildes}

\* One blank line is the empty text.
Unblanked(lines) == IF lines = <<"blank">> THEN <<>> ELSE lines

\* A bug the runs must notice: the reader takes the last end there is.
PAMessagesGreedy(lines) ==
  LET read == Messages(lines, [i \in DOMAIN lines |->
                LET all == TildesAfter(lines, i) IN IF all = {} THEN {} ELSE {Max(all)}])
  IN [n \in DOMAIN read |-> [read[n] EXCEPT !.body = Unblanked(@)]]

\* _parse_project_agent_transcript: anything that begins like the end ends it.
PAMessages(lines) ==
  LET read == Messages(lines, [i \in DOMAIN lines |-> TildesAfter(lines, i)])
  IN [n \in DOMAIN read |-> [read[n] EXCEPT !.body = Unblanked(@)]]

\* _load_session_transcript: only the end itself does, or the end of the file.
WebMessages(lines) ==
  LET read == Messages(lines, [i \in DOMAIN lines |->
                {e \in (i + 2)..Len(lines) : lines[e] = "close"} \cup
                (IF i + 2 <= Len(lines) THEN {Len(lines) + 1} ELSE {})])
  IN [n \in DOMAIN read |-> [read[n] EXCEPT !.body = Trimmed(@)]]

Plain(message) == message.whole /\ \A i \in DOMAIN message.body : message.body[i] \notin Tildes

\* How many of the first messages are whole and have no line that begins with ~~~.
PlainStart == Max({n \in 0..Len(said) : \A i \in 1..n : Plain(said[i])})

AgreesWith(read, Text(_)) ==
  /\ Len(read) >= PlainStart
  /\ \A i \in 1..PlainStart :
       read[i] = [role |-> said[i].role, body |-> Text(said[i].body)]
  /\ PlainStart = Len(said) => Len(read) = Len(said)

(***************************************************************************)
(* Both readers get back what was written, whatever headings it contains,  *)
(* up to the first message that has a line of tildes or was torn by a      *)
(* stop; and no message more when there is no such message.                *)
(***************************************************************************)
TranscriptReadsBack ==
  /\ AgreesWith(PAMessages(logLines), TrimmedEnd)
  /\ AgreesWith(WebMessages(logLines), Trimmed)
=============================================================================
