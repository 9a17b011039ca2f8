-------------------------------- MODULE LogFiles --------------------------------
(***************************************************************************)
(* The shared logs: the audit logger (faith_pa/security/audit_log.py), the *)
(* writer of events (logging/event_log.py), the rotation at the start of   *)
(* the Project Agent (logging/log_rotator.py), and the pages the web       *)
(* interface reads (faith_web/routes/logs.py), newest first, while the     *)
(* files grow.  A stop may tear the line being written; the next one is    *)
(* glued to it.  Time is counted in days.                                  *)
(***************************************************************************)
EXTENDS Naturals, Sequences, FiniteSets, SequencesExt

CONSTANTS LogAgents,     \* whom entries are about
          RetentionDays, \* log_retention_days
          PageSize,
          MaxEntries, MaxDays, MaxStarts   \* bounds on the entries, days and starts

ASSUME LogConstants == RetentionDays \in Nat /\ PageSize \in Nat \ {0}

LogNames == {"audit", "events", "tokens"}

VARIABLES logLive,    \* of each log, its lines
          logArchive, \* and the lines that were moved away
          unended,    \* logs whose last line was torn
          auditFile,  \* _file of the AuditLogger: closed or live
          eventWriter,\* EventLogWriter.run: running or dead
          today, touched, \* the day, and that of the last write of each log
          written,    \* entries so far
          starts,
          since,      \* entries of each log since it was last moved (a history)
          reader      \* somebody who turns the pages of one log

logVars == <<logLive, logArchive, unended, auditFile, eventWriter, today, touched, written, starts,
             since, reader>>

NoReader == [log |-> "none", agent |-> "none", page |-> 1, there |-> {}, seen |-> {}, over |-> FALSE,
             total |-> 0, buckets |-> <<>>]

LogInit ==
  /\ logLive = [l \in LogNames |-> <<>>] /\ logArchive = [l \in LogNames |-> <<>>]
  /\ unended = {} /\ auditFile = "closed" /\ eventWriter = "running"
  /\ today = 0 /\ touched = [l \in LogNames |-> 0]
  /\ written = 0 /\ starts = 1
  /\ since = [l \in LogNames |-> {}]
  /\ reader = NoReader

Line(agent) == [id |-> written + 1, day |-> today, agent |-> agent, whole |-> TRUE]

\* A line that follows a torn one makes one malformed line with it.
Extended(lines, l, line) ==
  IF l \in unended THEN [lines EXCEPT ![Len(lines)].whole = FALSE] ELSE Append(lines, line)

AppendLive(l, line) ==
  /\ written < MaxEntries /\ written' = written + 1
  /\ logLive' = [logLive EXCEPT ![l] = Extended(@, l, line)] /\ unended' = unended \ {l}
  /\ touched' = [touched EXCEPT ![l] = today]
  /\ since' = [since EXCEPT ![l] = IF l \in unended THEN @ ELSE @ \cup {line.id}]

\* AuditLogger.write, of an entry of any wrapper: the file is opened when it is not.
WriteAudit(agent) ==
  /\ AppendLive("audit", Line(agent)) /\ auditFile' = "live"
  /\ UNCHANGED <<logArchive, eventWriter, today, starts, reader>>

\* EventLogWriter.run and handle_event: what is no event ends the writer.
HearEvent(agent, garbled) ==
  /\ eventWriter = "running"
  /\ IF garbled
     THEN eventWriter' = "dead" /\ UNCHANGED <<logLive, unended, touched, written, since>>
     ELSE AppendLive("events", Line(agent)) /\ UNCHANGED eventWriter
  /\ UNCHANGED <<logArchive, auditFile, today, starts, reader>>

WriteTokens(agent) ==
  /\ AppendLive("tokens", Line(agent))
  /\ UNCHANGED <<logArchive, auditFile, eventWriter, today, starts, reader>>

\* _file_age_days, from the time of the last write
Aged(l) == logLive[l] # <<>> /\ today - touched[l] >= RetentionDays

Moved(logs) ==
  /\ logArchive' = [l \in LogNames |-> IF l \in logs THEN logArchive[l] \o logLive[l] ELSE logArchive[l]]
  /\ logLive' = [l \in LogNames |-> IF l \in logs THEN <<>> ELSE logLive[l]]
  /\ since' = [l \in LogNames |-> IF l \in logs THEN {} ELSE since[l]]

\* AuditLogger.rotate_if_needed
RotateAudit ==
  /\ Aged("audit") /\ Moved({"audit"}) /\ unended' = unended \ {"audit"}
  /\ auditFile' = "live" /\ touched' = [touched EXCEPT !["audit"] = today]
  /\ UNCHANGED <<eventWriter, today, written, starts, reader>>

\* The process starts again: rotate_all, before the audit file is opened.
Restart ==
  /\ starts < MaxStarts /\ starts' = starts + 1
  /\ auditFile' = "closed" /\ eventWriter' = "running"
  /\ Moved({l \in LogNames : Aged(l)}) /\ unended' = {l \in unended : ~Aged(l)}
  /\ UNCHANGED <<today, touched, written, reader>>

\* It stops in the middle of a line, and starts again later.
TearLine(l) ==
  /\ l \notin unended /\ starts < MaxStarts /\ written < MaxEntries
  /\ l = "events" => eventWriter = "running"
  /\ written' = written + 1
  /\ logLive' = [logLive EXCEPT ![l] = Append(@, [Line("none") EXCEPT !.whole = FALSE])]
  /\ unended' = unended \cup {l} /\ touched' = [touched EXCEPT ![l] = today]
  /\ auditFile' = "closed" /\ eventWriter' = "running" /\ starts' = starts + 1
  /\ UNCHANGED <<logArchive, today, since, reader>>

NextDay ==
  /\ today < MaxDays /\ today' = today + 1
  /\ UNCHANGED <<logLive, logArchive, unended, auditFile, eventWriter, touched, written, starts,
                 since,
                 reader>>

\* _read_json_lines and the filters of a request: where the records of a log are.
Records(l, agent) ==
  {i \in DOMAIN logLive[l] : logLive[l][i].whole /\ (agent = "none" \/ logLive[l][i].agent = agent)}

\* _sort_descending: entries of one time stay in the order of the file.
Before(lines, i, j) == lines[i].day > lines[j].day \/ (lines[i].day = lines[j].day /\ i < j)
Ahead(lines, I, i) == Cardinality({j \in I : Before(lines, j, i)})
Descending(lines, I) ==
  [k \in 1..Cardinality(I) |-> lines[CHOOSE i \in I : Ahead(lines, I, i) = k - 1]]

\* A bug the runs must notice: the pages are counted from 0.
PageFromZero(lines, page) ==
  SubSeq(lines, page * PageSize + 1, IF (page + 1) * PageSize < Len(lines)
                                     THEN (page + 1) * PageSize ELSE Len(lines))

\* _paginate_records
PageOf(lines, page) ==
  SubSeq(lines, (page - 1) * PageSize + 1, IF page * PageSize < Len(lines)
                                           THEN page * PageSize ELSE Len(lines))

\* _accumulate_token_summary_bucket: calls and latest time, over all pages.
Buckets(lines, I) ==
  [a \in {lines[i].agent : i \in I} |->
     LET mine == {i \in I : lines[i].agent = a}
     IN [calls |-> Cardinality(mine),
         latest |-> CHOOSE d \in {lines[i].day : i \in mine} : \A i \in mine : lines[i].day <= d]]

OpenReader(l, agent) ==
  /\ reader = NoReader
  /\ reader' = [NoReader EXCEPT !.log = l, !.agent = agent,
                                !.there = {logLive[l][i].id : i \in Records(l, agent)}]
  /\ UNCHANGED <<logLive, logArchive, unended, auditFile, eventWriter, today, touched, written,
                 starts, since>>

Response(l, agent, page) ==
  LET I == Records(l, agent)
  IN [items |-> PageOf(Descending(logLive[l], I), page), total |-> Cardinality(I), buckets |-> <<>>]

\* The endpoints of the three logs.
AuditTrail(agent, page) == Response("audit", agent, page)
EventTimeline(agent, page) == Response("events", agent, page)
TokenUsage(agent, page) ==
  [Response("tokens", agent, page) EXCEPT !.buckets = Buckets(logLive["tokens"], Records("tokens", agent))]

\* The reader stops when the pages he has read hold the total he is told.
ReadPage ==
  /\ reader # NoReader /\ ~reader.over
  /\ LET r == CASE reader.log = "audit" -> AuditTrail(reader.agent, reader.page)
                [] reader.log = "events" -> EventTimeline(reader.agent, reader.page)
                [] reader.log = "tokens" -> TokenUsage(reader.agent, reader.page)
     IN reader' = [reader EXCEPT !.seen = @ \cup {line.id : line \in ToSet(r.items)}, !.page = @ + 1,
                                 !.over = reader.page * PageSize >= r.total,
                                 !.total = r.total, !.buckets = r.buckets]
  /\ UNCHANGED <<logLive, logArchive, unended, auditFile, eventWriter, today, touched, written,
                 starts, since>>

LogNext ==
  \/ \E a \in LogAgents : \/ WriteAudit(a) \/ WriteTokens(a) \/ HearEvent(a, FALSE)
                          \/ \E l \in LogNames : OpenReader(l, a)
  \/ \E l \in LogNames : OpenReader(l, "none") \/ TearLine(l)
  \/ \E a \in LogAgents : HearEvent(a, TRUE)
  \/ RotateAudit \/ Restart \/ NextDay \/ ReadPage

Archived(l) == {line.id : line \in ToSet(logArchive[l])}

(***************************************************************************)
(* What was written since a log was last moved is in the file that is read *)
(* and not in the archive, but for lines a stop has torn and the ones glued*)
(* to them.  Whoever reads the pages to the end has seen every entry there *)
(* was when he began and that was not moved away in the meantime, and the  *)
(* summary he is shown counts each record of all the pages in one bucket.  *)
(***************************************************************************)
LogsAreRead ==
  /\ \A l \in LogNames :
       since[l] = {line.id : line \in {x \in ToSet(logLive[l]) : x.whole}}
  /\ reader.over =>
       /\ reader.there \subseteq reader.seen \cup Archived(reader.log)
       /\ reader.log = "tokens" =>
            LET groups == reader.buckets
            IN /\ reader.agent # "none" => DOMAIN groups \subseteq {reader.agent}
               /\ reader.total = Cardinality(UNION {{a} \X (1..groups[a].calls) : a \in DOMAIN groups})
=============================================================================
