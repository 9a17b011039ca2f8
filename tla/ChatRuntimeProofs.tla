--------------------------- MODULE ChatRuntimeProofs ---------------------------
(* Theorems about the sessions and the chat of the Project Agent, for every value *)
(* of the constants.                                                              *)
EXTENDS ChatRuntime, SequencePartsProofs

SessionSpec == SessionInit /\ [][SessionNext]_sessionVars

\* What the variables hold.  The totals are named by the tables they are taken of.
Texts == [turn : Nat, role : {"user", "reply", "marker", "note"}, keep : BOOLEAN]

TaskRecord == [status : {"active", "complete", "cancelled"}, tokens : Nat]
TaskTables == UNION {[D -> TaskRecord] : D \in SUBSET Nat}
Totals == {0} \cup {TotalOf(ts) : ts \in TaskTables}
Directory == [dir : {"full", "bare", "none"}, status : {"active", "ended", "archived"},
              open : SUBSET Nat, total : Totals, log : Seq(Texts)]

SessionTypes ==
  /\ disk \in Seq(Directory)
  /\ current \in 0..Len(disk)
  /\ made \in Nat
  /\ tasks \in TaskTables /\ DOMAIN tasks \subseteq 1..made
  /\ current = 0 => tasks = NoTasks

\* The greatest of some numbers is one of them.
LEMMA GreatestIsThere ==
  ASSUME NEW n \in Nat, NEW S \in SUBSET (1..n), S # {}
  PROVE  Max(S) \in S
<1>1. Cardinality(S) \in Nat /\ Cardinality(S) # 0
  BY PositionsFinite, FS_EmptySet
<1>2. PICK x \in S : RankIn(S, x) = Cardinality(S)
  BY <1>1, RanksAreNumbers
<1>3. ASSUME NEW y \in S PROVE x >= y
  <2>1. RankIn(S, y) \in 1..Cardinality(S) /\ (x < y => RankIn(S, x) < RankIn(S, y))
    BY RanksAreNumbers
  <2> QED BY <1>1, <1>2, <2>1
<1> QED BY <1>3 DEF Max

\* A new directory has its type.
LEMMA NewDirectoryTyped == NewDirectory \in Directory
BY EmptySeq DEF NewDirectory, Directory, Totals

\* What a change of the directories leaves alone: the logs, and which are whole.
SameLogs(d, e) ==
  /\ e \in Seq(Directory) /\ Len(e) = Len(d)
  /\ \A s \in 1..Len(d) : e[s].log = d[s].log /\ (e[s].dir = "full" <=> d[s].dir = "full")

\* Replacing one directory by one with its log.
LEMMA DirectoryReplaced ==
  ASSUME NEW d \in Seq(Directory), NEW s \in 1..Len(d), NEW r \in Directory,
         r.log = d[s].log, r.dir = "full" <=> d[s].dir = "full"
  PROVE  SameLogs(d, [d EXCEPT ![s] = r])
<1>1. /\ [d EXCEPT ![s] = r] \in Seq(Directory)
      /\ Len([d EXCEPT ![s] = r]) = Len(d)
      /\ \A j \in 1..Len(d) : [d EXCEPT ![s] = r][j] = IF j = s THEN r ELSE d[j]
  BY ExceptSeq
<1> QED BY <1>1 DEF SameLogs

\* A write below a directory that is gone recreates it, and nothing else.
LEMMA TouchKeeps ==
  ASSUME NEW d \in Seq(Directory), NEW s \in 1..Len(d)
  PROVE  /\ SameLogs(d, Touch(d, s))
         /\ Full(Touch(d, s), s) <=> Full(d, s)
         /\ Touch(d, s)[s].open = d[s].open /\ Touch(d, s)[s].total = d[s].total
         /\ Touch(d, s)[s].dir # "none"
<1>0. d[s] \in Directory /\ DOMAIN d = 1..Len(d)
  BY ElementOfSeq, LenProperties
<1>1. CASE d[s].dir = "none"
  <2> DEFINE r == [d[s] EXCEPT !.dir = "bare"]
  <2>1. /\ r \in Directory /\ r.log = d[s].log /\ r.dir = "bare"
        /\ r.open = d[s].open /\ r.total = d[s].total
    BY <1>0 DEF Directory
  <2>2. Touch(d, s) = [d EXCEPT ![s] = r]
    BY <1>1 DEF Touch
  <2>3. SameLogs(d, [d EXCEPT ![s] = r])
    BY <1>1, <2>1, DirectoryReplaced
  <2>4. [d EXCEPT ![s] = r][s] = r /\ DOMAIN [d EXCEPT ![s] = r] = DOMAIN d
    BY <1>0
  <2> HIDE DEF r
  <2> QED BY <1>0, <1>1, <2>1, <2>2, <2>3, <2>4 DEF Full
<1>2. CASE d[s].dir # "none"
  BY <1>0, <1>2 DEF Touch, SameLogs, Full
<1> QED BY <1>1, <1>2

\* Rewriting the metadata changes them, where they are.
LEMMA RewrittenKeeps ==
  ASSUME NEW d \in Seq(Directory), NEW s \in 1..Len(d), NEW open \in SUBSET Nat, NEW total \in Totals
  PROVE  /\ SameLogs(d, Rewritten(d, s, open, total))
         /\ Full(Rewritten(d, s, open, total), s) <=> Full(d, s)
         /\ Full(d, s) => /\ Rewritten(d, s, open, total)[s].open = open
                          /\ Rewritten(d, s, open, total)[s].total = total
<1>0. d[s] \in Directory /\ DOMAIN d = 1..Len(d)
  BY ElementOfSeq, LenProperties
<1>1. CASE Full(d, s)
  <2> DEFINE r == [d[s] EXCEPT !.open = open, !.total = total]
  <2>1. /\ r \in Directory /\ r.log = d[s].log /\ r.dir = d[s].dir
        /\ r.open = open /\ r.total = total
    BY <1>0 DEF Directory
  <2>2. Rewritten(d, s, open, total) = [d EXCEPT ![s] = r]
    BY <1>1 DEF Rewritten
  <2>3. SameLogs(d, [d EXCEPT ![s] = r])
    BY <2>1, DirectoryReplaced
  <2>4. [d EXCEPT ![s] = r][s] = r /\ DOMAIN [d EXCEPT ![s] = r] = DOMAIN d
    BY <1>0
  <2> HIDE DEF r
  <2> QED BY <1>0, <1>1, <2>1, <2>2, <2>3, <2>4 DEF Full
<1>2. CASE ~Full(d, s)
  BY <1>0, <1>2 DEF Rewritten, SameLogs
<1> QED BY <1>1, <1>2

\* The total only depends on the tokens of the tasks.
LEMMA TotalOfTokens ==
  ASSUME NEW ts, NEW us, DOMAIN us = DOMAIN ts, \A t \in DOMAIN ts : us[t].tokens = ts[t].tokens
  PROVE  TotalOf(us) = TotalOf(ts)
<1>1. {{t} \X (1..us[t].tokens) : t \in DOMAIN us} = {{t} \X (1..ts[t].tokens) : t \in DOMAIN ts}
  OBVIOUS
<1> QED BY <1>1 DEF TotalOf

\* A task without tokens adds nothing.
LEMMA TotalWithNewTask ==
  ASSUME NEW ts, NEW t, t \notin DOMAIN ts
  PROVE  TotalOf(WithTask(ts, t)) = TotalOf(ts)
<1> DEFINE us == WithTask(ts, t)
           old == UNION {{u} \X (1..ts[u].tokens) : u \in DOMAIN ts}
           new == UNION {{u} \X (1..us[u].tokens) : u \in DOMAIN us}
<1>1. DOMAIN us = DOMAIN ts \cup {t} /\ us[t].tokens = 0 /\ \A u \in DOMAIN ts : us[u] = ts[u]
  BY DEF WithTask, NewTask
<1> HIDE DEF us
<1>2. {t} \X (1..us[t].tokens) = {}
  BY <1>1
<1>3. \A p : p \in new => p \in old
  BY <1>1, <1>2
<1>4. \A p : p \in old => p \in new
  BY <1>1
<1>5. old = new
  BY <1>3, <1>4
<1> QED BY <1>5 DEF TotalOf, us

\* A table of tasks is a function from numbers to records of tasks.
LEMMA TableIs ==
  ASSUME NEW ts
  PROVE  ts \in TaskTables <=> DOMAIN ts \in SUBSET Nat /\ ts \in [DOMAIN ts -> TaskRecord]
BY DEF TaskTables

\* The tables that the operations make.
LEMMA TablesMade ==
  ASSUME NEW ts \in TaskTables
  PROVE  /\ NoTasks \in TaskTables /\ DOMAIN NoTasks = {}
         /\ \A t \in Nat : WithTask(ts, t) \in TaskTables /\ DOMAIN WithTask(ts, t) = DOMAIN ts \cup {t}
         /\ Finished(ts) \in TaskTables /\ DOMAIN Finished(ts) = DOMAIN ts
         /\ \A t \in DOMAIN ts : /\ Charged(ts, t) \in TaskTables
                                 /\ DOMAIN Charged(ts, t) = DOMAIN ts
                                 /\ \A u \in DOMAIN ts : Charged(ts, t)[u].status = ts[u].status
         /\ \A t \in DOMAIN ts, st \in {"complete", "cancelled"} :
              [ts EXCEPT ![t].status = st] \in TaskTables
<1>0. DOMAIN ts \in SUBSET Nat /\ ts \in [DOMAIN ts -> TaskRecord]
  BY TableIs
<1>1. NoTasks \in TaskTables /\ DOMAIN NoTasks = {}
  <2>1. DOMAIN NoTasks = {} /\ NoTasks \in [{} -> TaskRecord]
    BY DEF NoTasks
  <2> QED BY <2>1, TableIs
<1>2. ASSUME NEW t \in Nat
      PROVE  WithTask(ts, t) \in TaskTables /\ DOMAIN WithTask(ts, t) = DOMAIN ts \cup {t}
  <2>1. NewTask \in TaskRecord
    BY DEF NewTask, TaskRecord
  <2>2. WithTask(ts, t) \in [DOMAIN ts \cup {t} -> TaskRecord]
    BY <1>0, <2>1 DEF WithTask
  <2>3. DOMAIN WithTask(ts, t) = DOMAIN ts \cup {t}
    BY DEF WithTask
  <2> QED BY <1>0, <2>2, <2>3, TableIs
<1>3. Finished(ts) \in TaskTables /\ DOMAIN Finished(ts) = DOMAIN ts
  <2>1. \A t \in DOMAIN ts :
          [ts[t] EXCEPT !.status = IF @ = "active" THEN "complete" ELSE @] \in TaskRecord
    BY <1>0 DEF TaskRecord
  <2>2. Finished(ts) \in [DOMAIN ts -> TaskRecord] /\ DOMAIN Finished(ts) = DOMAIN ts
    BY <2>1 DEF Finished
  <2> QED BY <1>0, <2>2, TableIs
<1>4. ASSUME NEW t \in DOMAIN ts
      PROVE  /\ Charged(ts, t) \in TaskTables /\ DOMAIN Charged(ts, t) = DOMAIN ts
             /\ \A u \in DOMAIN ts : Charged(ts, t)[u].status = ts[u].status
  <2>1. [ts[t] EXCEPT !.tokens = @ + 1] \in TaskRecord
    BY <1>0 DEF TaskRecord
  <2>2. /\ Charged(ts, t) \in [DOMAIN ts -> TaskRecord] /\ DOMAIN Charged(ts, t) = DOMAIN ts
        /\ \A u \in DOMAIN ts : Charged(ts, t)[u] =
             IF u = t THEN [ts[t] EXCEPT !.tokens = @ + 1] ELSE ts[u]
    BY <1>0, <2>1 DEF Charged
  <2>3. [ts[t] EXCEPT !.tokens = @ + 1].status = ts[t].status
    BY <1>0 DEF TaskRecord
  <2> QED BY <1>0, <2>2, <2>3, TableIs
<1>5. ASSUME NEW t \in DOMAIN ts, NEW st \in {"complete", "cancelled"}
      PROVE  [ts EXCEPT ![t].status = st] \in TaskTables
  <2>1. [ts[t] EXCEPT !.status = st] \in TaskRecord
    BY <1>0 DEF TaskRecord
  <2>2. /\ [ts EXCEPT ![t].status = st] \in [DOMAIN ts -> TaskRecord]
        /\ DOMAIN [ts EXCEPT ![t].status = st] = DOMAIN ts
    BY <1>0, <2>1
  <2> QED BY <1>0, <2>2, TableIs
<1> QED BY <1>1, <1>2, <1>3, <1>4, <1>5

\* A directory whose session has ended keeps its log.
LEMMA EndedTyped ==
  ASSUME NEW r \in Directory, NEW ts \in TaskTables
  PROVE  /\ Ended(r, ts) \in Directory /\ Ended(r, ts).log = r.log /\ Ended(r, ts).dir = r.dir
         /\ Ended(r, ts).open = r.open \ DOMAIN ts /\ Ended(r, ts).total = TotalOf(ts)
BY DEF Ended, Directory, Totals

-----------------------------------------------------------------------------
(* The metadata of the current session *)

SessionInv == SessionTypes /\ SessionRecordAgrees

\* There is no session and no task at the start.
LEMMA SessionInitially == SessionInit => SessionInv
<1> SUFFICES ASSUME SessionInit PROVE SessionInv
  OBVIOUS
<1>1. <<>> \in Seq(Directory) /\ Len(<<>>) = 0
  BY EmptySeq
<1>2. NoTasks \in TaskTables /\ DOMAIN NoTasks = {}
  <2>1. DOMAIN NoTasks = {} /\ NoTasks \in [{} -> TaskRecord]
    BY DEF NoTasks
  <2> QED BY <2>1, TableIs
<1> QED BY <1>1, <1>2 DEF SessionInit, SessionInv, SessionTypes, SessionRecordAgrees

\* Without tasks in memory there is nothing to agree on.
LEMMA NothingToAgreeOn ==
  ASSUME SessionTypes', tasks' = NoTasks
  PROVE  SessionInv'
<1>1. DOMAIN NoTasks = {}
  BY DEF NoTasks
<1> QED BY <1>1 DEF SessionInv, SessionRecordAgrees

\* A directory that is added, replaced or left alone.
LEMMA DiskTyped ==
  ASSUME NEW d \in Seq(Directory)
  PROVE  /\ Append(d, NewDirectory) \in Seq(Directory)
         /\ Len(Append(d, NewDirectory)) = Len(d) + 1
         /\ \A s \in 1..Len(d) : Append(d, NewDirectory)[s] = d[s]
         /\ Append(d, NewDirectory)[Len(d) + 1] = NewDirectory
         /\ Len(d) \in Nat /\ DOMAIN d = 1..Len(d) /\ \A s \in 1..Len(d) : d[s] \in Directory
BY NewDirectoryTyped, LenProperties, ElementOfSeq

\* A new session begins without tasks.
LEMMA StartSessionSafe == ASSUME SessionInv, StartSession PROVE SessionInv'
<1>1. /\ disk' = Append(disk, NewDirectory) /\ current' = Len(disk) + 1
      /\ tasks' = NoTasks /\ made' = made
  BY DEF StartSession
<1>2. disk' \in Seq(Directory) /\ Len(disk') = Len(disk) + 1 /\ Len(disk) \in Nat
  BY <1>1, DiskTyped DEF SessionInv, SessionTypes
<1>3. NoTasks \in TaskTables /\ DOMAIN NoTasks = {}
  BY TablesMade DEF SessionInv, SessionTypes
<1>4. SessionTypes'
  BY <1>1, <1>2, <1>3 DEF SessionInv, SessionTypes
<1> QED BY <1>1, <1>4, NothingToAgreeOn

\* The end of a session closes its tasks in memory and on disk.
LEMMA EndSessionSafe == ASSUME SessionInv, NEW m, EndSession(m) PROVE SessionInv'
<1> USE DEF SessionInv
<1>0. /\ disk \in Seq(Directory) /\ current \in 1..Len(disk) /\ Len(disk) \in Nat
      /\ disk[current] \in Directory /\ tasks \in TaskTables /\ DOMAIN disk = 1..Len(disk)
  BY DiskTyped DEF EndSession, SessionTypes
<1> DEFINE r == Ended(disk[current], tasks)
<1>1. /\ r \in Directory /\ r.log = disk[current].log /\ r.dir = disk[current].dir
      /\ r.open = disk[current].open \ DOMAIN tasks /\ r.total = TotalOf(tasks)
  BY <1>0, EndedTyped
<1>2. disk' = [disk EXCEPT ![current] = r] /\ made' = made
  BY DEF EndSession
<1> HIDE DEF r
<1>3. /\ disk' \in Seq(Directory) /\ Len(disk') = Len(disk) /\ disk'[current] = r
  <2>1. SameLogs(disk, [disk EXCEPT ![current] = r])
    BY <1>0, <1>1, DirectoryReplaced
  <2> QED BY <1>0, <1>2, <2>1 DEF SameLogs
<1>4. CASE idle # "none"
  <2>1. tasks' = Finished(tasks) /\ current' = current
    BY <1>4 DEF EndSession
  <2>2. tasks' \in TaskTables /\ DOMAIN tasks' = DOMAIN tasks
    BY <1>0, <2>1, TablesMade
  <2>3. SessionTypes'
    BY <1>2, <1>3, <2>1, <2>2 DEF SessionTypes
  <2>4. tasks \in [DOMAIN tasks -> TaskRecord]
    BY <1>0, TableIs
  <2>5. \A t \in DOMAIN tasks : tasks'[t].status # "active" /\ tasks'[t].tokens = tasks[t].tokens
    BY <2>1, <2>4 DEF Finished, TaskRecord
  <2>6. TotalOf(tasks') = TotalOf(tasks)
    <3>1. ASSUME NEW us, us = tasks' PROVE TotalOf(us) = TotalOf(tasks)
      BY <2>2, <2>5, <3>1, TotalOfTokens
    <3> QED BY <3>1
  <2>7. SessionRecordAgrees'
    BY <1>1, <1>3, <2>1, <2>2, <2>5, <2>6 DEF SessionRecordAgrees
  <2> QED BY <2>3, <2>7
<1>5. CASE idle = "none"
  <2>1. tasks' = NoTasks /\ current' = 0
    BY <1>5 DEF EndSession
  <2>2. NoTasks \in TaskTables /\ DOMAIN NoTasks = {}
    BY <1>0, TablesMade
  <2>3. SessionTypes'
    BY <1>0, <1>2, <1>3, <2>1, <2>2 DEF SessionTypes
  <2> QED BY <2>1, <2>3, NothingToAgreeOn
<1> QED BY <1>4, <1>5

\* An end that fails finds no metadata.
LEMMA EndSessionFailsSafe == ASSUME SessionTypes, NEW m, EndSessionFails(m) PROVE SessionInv'
<1>1. /\ tasks' = [t \in DOMAIN tasks |->
                     IF ActiveTasks(tasks) # {} /\ t = Min(ActiveTasks(tasks))
                     THEN [tasks[t] EXCEPT !.status = "complete"] ELSE tasks[t]]
      /\ UNCHANGED <<disk, current, made>> /\ ~Full(disk, current) /\ current # 0
  BY DEF EndSessionFails
<1>2. DOMAIN tasks \in SUBSET Nat /\ tasks \in [DOMAIN tasks -> TaskRecord]
  BY TableIs DEF SessionTypes
<1>3. \A t \in DOMAIN tasks : [tasks[t] EXCEPT !.status = "complete"] \in TaskRecord
  BY <1>2 DEF TaskRecord
<1>4. DOMAIN tasks' = DOMAIN tasks /\ tasks' \in [DOMAIN tasks -> TaskRecord]
  BY <1>1, <1>2, <1>3
<1>5. tasks' \in TaskTables
  <2>1. ASSUME NEW us, us = tasks' PROVE us \in TaskTables
    BY <1>2, <1>4, <2>1, TableIs
  <2> QED BY <2>1
<1>6. SessionTypes'
  BY <1>1, <1>4, <1>5 DEF SessionTypes
<1>7. SessionRecordAgrees'
  BY <1>1 DEF SessionRecordAgrees, Full
<1> QED BY <1>6, <1>7 DEF SessionInv

\* Another session becomes the current one, without tasks.
LEMMA SessionChangedSafe ==
  ASSUME SessionInv, current' \in 0..Len(disk), tasks' = NoTasks, UNCHANGED <<disk, made>>
  PROVE  SessionInv'
<1>1. NoTasks \in TaskTables /\ DOMAIN NoTasks = {}
  BY TablesMade DEF SessionInv, SessionTypes
<1>2. SessionTypes'
  BY <1>1 DEF SessionInv, SessionTypes
<1> QED BY <1>2, NothingToAgreeOn

\* One directory's status changes, or it is gone.
LEMMA DirectoryChangedSafe ==
  ASSUME SessionInv, NEW s \in DOMAIN disk, NEW r \in Directory, disk' = [disk EXCEPT ![s] = r],
         \/ r.dir # "full"
         \/ r.dir = disk[s].dir /\ r.open = disk[s].open /\ r.total = disk[s].total,
         UNCHANGED <<current, tasks, made>>
  PROVE  SessionInv'
<1>0. disk \in Seq(Directory) /\ Len(disk) \in Nat /\ DOMAIN disk = 1..Len(disk)
  BY DiskTyped DEF SessionInv, SessionTypes
<1>1. /\ disk' \in Seq(Directory) /\ Len(disk') = Len(disk)
      /\ \A j \in 1..Len(disk) : disk'[j] = IF j = s THEN r ELSE disk[j]
  BY <1>0, ExceptSeq
<1>2. SessionTypes'
  BY <1>1 DEF SessionInv, SessionTypes
<1>3. DOMAIN disk' = 1..Len(disk)
  BY <1>0, <1>1, LenProperties
<1>4. SessionRecordAgrees'
  BY <1>0, <1>1, <1>3 DEF SessionInv, SessionRecordAgrees, Full
<1> QED BY <1>2, <1>4 DEF SessionInv

\* Archiving, restoring and deleting a session.
LEMMA ManagedSafe ==
  ASSUME SessionInv, NEW s \in DOMAIN disk, ArchiveSession(s) \/ RestoreSession(s) \/ DeleteSession(s)
  PROVE  SessionInv'
<1>0. disk[s] \in Directory
  BY DiskTyped DEF SessionInv, SessionTypes
<1>1. ASSUME NEW st \in {"archived", "active"}, disk' = [disk EXCEPT ![s].status = st],
             UNCHANGED <<current, tasks, made>>
      PROVE  SessionInv'
  <2> DEFINE r == [disk[s] EXCEPT !.status = st]
  <2>1. /\ r \in Directory /\ r.dir = disk[s].dir /\ r.open = disk[s].open
        /\ r.total = disk[s].total
    BY <1>0 DEF Directory
  <2>2. disk' = [disk EXCEPT ![s] = r]
    BY <1>1
  <2> HIDE DEF r
  <2> QED BY <1>1, <2>1, <2>2, DirectoryChangedSafe
<1>2. CASE DeleteSession(s)
  <2> DEFINE r == [NewDirectory EXCEPT !.dir = "none", !.status = "ended"]
  <2>1. r \in Directory /\ r.dir # "full"
    BY NewDirectoryTyped DEF NewDirectory, Directory
  <2>2. disk' = [disk EXCEPT ![s] = r] /\ UNCHANGED <<current, tasks, made>>
    BY <1>2 DEF DeleteSession
  <2> HIDE DEF r
  <2> QED BY <2>1, <2>2, DirectoryChangedSafe
<1> QED BY <1>1, <1>2 DEF ArchiveSession, RestoreSession

\* A task that is created is open in the metadata and has used nothing.
LEMMA CreateTaskSafe == ASSUME SessionInv, CreateTask PROVE SessionInv'
<1> USE DEF SessionInv
<1>0. /\ disk \in Seq(Directory) /\ current \in 1..Len(disk) /\ Len(disk) \in Nat /\ made \in Nat
      /\ disk[current] \in Directory /\ tasks \in TaskTables /\ DOMAIN disk = 1..Len(disk)
  BY DiskTyped DEF CreateTask, SessionTypes
<1> DEFINE t == made + 1
           open == disk[current].open \cup {t}
           d == Touch(disk, current)
<1>1. /\ made' = t /\ tasks' = WithTask(tasks, t) /\ current' = current
      /\ disk' = Rewritten(d, current, open, TotalOf(tasks))
  BY DEF CreateTask
<1>2. open \in SUBSET Nat /\ TotalOf(tasks) \in Totals
  BY <1>0 DEF Directory, Totals
<1>3. SameLogs(disk, d) /\ (Full(d, current) <=> Full(disk, current))
  BY <1>0, TouchKeeps
<1> HIDE DEF d, open
<1>4. /\ SameLogs(d, disk') /\ (Full(disk', current) <=> Full(d, current))
      /\ Full(d, current) => disk'[current].open = open /\ disk'[current].total = TotalOf(tasks)
  BY <1>0, <1>1, <1>2, <1>3, RewrittenKeeps DEF SameLogs
<1>5. t \notin DOMAIN tasks /\ t \in Nat
  BY <1>0 DEF SessionTypes
<1>6. /\ tasks' \in TaskTables /\ DOMAIN tasks' = DOMAIN tasks \cup {t}
      /\ tasks'[t].status = "active" /\ \A u \in DOMAIN tasks : tasks'[u] = tasks[u]
  BY <1>0, <1>1, <1>5, TablesMade DEF WithTask, NewTask
<1>7. TotalOf(tasks') = TotalOf(tasks)
  <2>1. ASSUME NEW us, us = WithTask(tasks, t) PROVE TotalOf(us) = TotalOf(tasks)
    BY <1>5, <2>1, TotalWithNewTask
  <2> QED BY <1>1, <2>1
<1>8. SessionTypes'
  <2>1. DOMAIN tasks' \subseteq 1..made' /\ made' \in Nat
    BY <1>0, <1>1, <1>6 DEF SessionTypes
  <2> QED BY <1>0, <1>1, <1>3, <1>4, <1>6, <2>1 DEF SessionTypes, SameLogs
<1>9. SessionRecordAgrees'
  <2> SUFFICES ASSUME Full(disk', current)
               PROVE  /\ \A u \in DOMAIN tasks' : u \in disk'[current].open <=> tasks'[u].status = "active"
                      /\ disk'[current].total = TotalOf(tasks')
    BY <1>1 DEF SessionRecordAgrees
  <2>1. disk'[current].open = disk[current].open \cup {t} /\ disk'[current].total = TotalOf(tasks)
    BY <1>4 DEF open
  <2>2. \A u \in DOMAIN tasks : u \in disk[current].open <=> tasks[u].status = "active"
    BY <1>0, <1>3, <1>4 DEF SessionRecordAgrees
  <2> QED BY <1>5, <1>6, <1>7, <2>1, <2>2
<1> QED BY <1>8, <1>9

\* A task that is completed or cancelled is no longer open.
LEMMA FinishTaskSafe ==
  ASSUME SessionInv, NEW t, NEW st \in {"complete", "cancelled"}, FinishTask(t, st)
  PROVE  SessionInv'
<1> USE DEF SessionInv
<1>0. /\ disk \in Seq(Directory) /\ current \in 0..Len(disk) /\ Len(disk) \in Nat
      /\ tasks \in TaskTables /\ DOMAIN disk = 1..Len(disk) /\ t \in DOMAIN tasks
  BY DiskTyped DEF FinishTask, SessionTypes
<1>1. /\ tasks' = [tasks EXCEPT ![t].status = st] /\ UNCHANGED <<current, made>>
      /\ disk' = Rewritten(disk, current, disk[current].open \ {t}, TotalOf(tasks))
      /\ current # 0
  BY <1>0, TablesMade DEF FinishTask, SessionTypes
<1>2. /\ tasks' \in TaskTables /\ DOMAIN tasks' = DOMAIN tasks
      /\ tasks'[t].status = st /\ tasks'[t].tokens = tasks[t].tokens
      /\ \A u \in DOMAIN tasks \ {t} : tasks'[u] = tasks[u]
  <2>1. tasks \in [DOMAIN tasks -> TaskRecord]
    BY <1>0, TableIs
  <2>2. [tasks EXCEPT ![t].status = st] \in TaskTables
    BY <1>0, TablesMade
  <2> QED BY <1>0, <1>1, <2>1, <2>2 DEF TaskRecord
<1>3. TotalOf(tasks') = TotalOf(tasks)
  <2>1. ASSUME NEW us, us = tasks' PROVE TotalOf(us) = TotalOf(tasks)
    BY <1>2, <2>1, TotalOfTokens
  <2> QED BY <2>1
<1>4. CASE Full(disk, current)
  <2> DEFINE open == disk[current].open \ {t}
  <2>0. current \in 1..Len(disk)
    BY <1>0, <1>4 DEF Full
  <2>1. open \in SUBSET Nat /\ TotalOf(tasks) \in Totals
    BY <1>0, <2>0, DiskTyped DEF Directory, Totals
  <2>2. /\ SameLogs(disk, disk') /\ Full(disk', current)
        /\ disk'[current].open = open /\ disk'[current].total = TotalOf(tasks)
    BY <1>0, <1>1, <1>4, <2>0, <2>1, RewrittenKeeps
  <2>3. SessionTypes'
    BY <1>1, <1>2, <2>2 DEF SessionTypes, SameLogs
  <2>4. SessionRecordAgrees'
    BY <1>1, <1>2, <1>3, <1>4, <2>0, <2>2 DEF SessionRecordAgrees
  <2> QED BY <2>3, <2>4
<1>5. CASE ~Full(disk, current)
  <2>1. disk' = disk
    BY <1>1, <1>5 DEF Rewritten
  <2>2. SessionTypes'
    BY <1>1, <1>2, <2>1 DEF SessionTypes
  <2> QED BY <1>1, <1>5, <2>1, <2>2 DEF SessionRecordAgrees, Full
<1> QED BY <1>4, <1>5

\* The tokens of a call are added to the total.
LEMMA RecordTokensSafe ==
  ASSUME SessionInv, NEW t, RecordTokenUsage(t)
  PROVE  SessionInv'
<1> USE DEF SessionInv
<1>0. /\ disk \in Seq(Directory) /\ current \in 0..Len(disk) /\ Len(disk) \in Nat
      /\ tasks \in TaskTables /\ DOMAIN disk = 1..Len(disk) /\ t \in DOMAIN tasks
  BY DiskTyped DEF RecordTokenUsage, SessionTypes
<1>1. tasks' = Charged(tasks, t) /\ UNCHANGED <<current, made>>
  BY DEF RecordTokenUsage
<1>2. /\ tasks' \in TaskTables /\ DOMAIN tasks' = DOMAIN tasks
      /\ \A u \in DOMAIN tasks : tasks'[u].status = tasks[u].status
  <2>1. PICK ts \in TaskTables : ts = tasks
    BY <1>0
  <2>2. /\ Charged(ts, t) \in TaskTables /\ DOMAIN Charged(ts, t) = DOMAIN ts
        /\ \A u \in DOMAIN ts : Charged(ts, t)[u].status = ts[u].status
    BY <1>0, <2>1, TablesMade
  <2> QED BY <1>1, <2>1, <2>2
<1>3. TotalOf(tasks') \in Totals
  BY <1>2 DEF Totals
<1>4. PICK d \in {disk, Touch(disk, current)} :
        disk' = Rewritten(d, current, d[current].open, TotalOf(tasks'))
  BY DEF RecordTokenUsage
<1>5. current \in 1..Len(disk)
  <2>1. DOMAIN NoTasks = {}
    BY DEF NoTasks
  <2> QED BY <1>0, <2>1 DEF SessionTypes
<1>6. /\ SameLogs(disk, d) /\ (Full(d, current) <=> Full(disk, current))
      /\ d[current].open = disk[current].open /\ d[current] \in Directory
  <2>1. CASE d = disk
    BY <1>0, <1>5, <2>1, DiskTyped DEF SameLogs
  <2>2. CASE d = Touch(disk, current)
    <3>1. /\ SameLogs(disk, Touch(disk, current))
          /\ (Full(Touch(disk, current), current) <=> Full(disk, current))
          /\ Touch(disk, current)[current].open = disk[current].open
      BY <1>0, <1>5, TouchKeeps
    <3>2. Touch(disk, current)[current] \in Directory
      BY <1>5, <3>1, DiskTyped DEF SameLogs
    <3> QED BY <2>2, <3>1, <3>2
  <2> QED BY <1>4, <2>1, <2>2
<1>7. /\ SameLogs(d, disk') /\ (Full(disk', current) <=> Full(d, current))
      /\ Full(d, current) => /\ disk'[current].open = d[current].open
                             /\ disk'[current].total = TotalOf(tasks')
  <2>1. d[current].open \in SUBSET Nat
    BY <1>6 DEF Directory
  <2>2. ASSUME NEW n, n = TotalOf(tasks')
        PROVE  /\ SameLogs(d, Rewritten(d, current, d[current].open, n))
               /\ (Full(Rewritten(d, current, d[current].open, n), current) <=> Full(d, current))
               /\ Full(d, current) =>
                    /\ Rewritten(d, current, d[current].open, n)[current].open = d[current].open
                    /\ Rewritten(d, current, d[current].open, n)[current].total = n
    BY <1>3, <1>5, <1>6, <2>1, <2>2, RewrittenKeeps DEF SameLogs
  <2> QED BY <1>4, <2>2
<1>8. SessionTypes'
  <2>1. tasks # NoTasks
    BY <1>0, TablesMade
  <2> QED BY <1>1, <1>2, <1>5, <1>6, <1>7 DEF SessionTypes, SameLogs
<1>9. SessionRecordAgrees'
  BY <1>0, <1>1, <1>2, <1>6, <1>7 DEF SessionRecordAgrees
<1> QED BY <1>8, <1>9

\* Every operation of the session manager preserves it.
LEMMA SessionStep == SessionInv /\ [SessionNext]_sessionVars => SessionInv'
<1> SUFFICES ASSUME SessionInv, [SessionNext]_sessionVars PROVE SessionInv'
  OBVIOUS
<1>0. Len(disk) \in Nat /\ DOMAIN disk = 1..Len(disk)
  BY DiskTyped DEF SessionInv, SessionTypes
<1>1. CASE StartSession
  BY <1>1, StartSessionSafe
<1>2. ASSUME NEW m \in BOOLEAN, EndSession(m) \/ EndSessionFails(m) PROVE SessionInv'
  BY <1>2, EndSessionSafe, EndSessionFailsSafe DEF SessionInv
<1>3. CASE ForgetSession
  <2>1. current' \in 0..Len(disk) /\ tasks' = NoTasks /\ UNCHANGED <<disk, made>>
    BY <1>0, <1>3 DEF ForgetSession
  <2> QED BY <2>1, SessionChangedSafe
<1>4. CASE UNCHANGED <<disk, current, tasks, made>>
  BY <1>4 DEF SessionInv, SessionTypes, SessionRecordAgrees
<1>5. CASE IdleMonitor
  BY <1>2, <1>4, <1>5 DEF IdleMonitor
<1>6. CASE ResumeLatest
  <2>1. Resumed(disk) # {} => Max(Resumed(disk)) \in 1..Len(disk)
    <3>1. Latest(disk) \subseteq 1..Len(disk)
      <4> DEFINE full == {s \in DOMAIN disk : disk[s].dir = "full"}
      <4>1. full \in SUBSET (1..Len(disk)) /\ (full # {} => Max(full) \in full)
        BY <1>0, GreatestIsThere
      <4> QED BY <1>0, <4>1 DEF Latest
    <3>2. Resumed(disk) \in SUBSET (1..Len(disk))
      BY <3>1 DEF Resumed
    <3> QED BY <1>0, <3>2, GreatestIsThere
  <2>2. current' \in 0..Len(disk) /\ tasks' = NoTasks /\ UNCHANGED <<disk, made>>
    BY <1>0, <1>6, <2>1 DEF ResumeLatest
  <2> QED BY <2>2, SessionChangedSafe
<1>7. CASE CreateTask
  BY <1>7, CreateTaskSafe
<1>8. ASSUME NEW t \in DOMAIN tasks,
             (\E st \in {"complete", "cancelled"} : FinishTask(t, st)) \/ RecordTokenUsage(t)
      PROVE  SessionInv'
  BY <1>8, FinishTaskSafe, RecordTokensSafe
<1>9. ASSUME NEW s \in DOMAIN disk, ActivateSession(s) PROVE SessionInv'
  <2>1. current' \in 0..Len(disk) /\ tasks' = NoTasks /\ UNCHANGED <<disk, made>>
    BY <1>0, <1>9 DEF ActivateSession
  <2> QED BY <2>1, SessionChangedSafe
<1>10. ASSUME NEW s \in DOMAIN disk, ArchiveSession(s) \/ RestoreSession(s) \/ DeleteSession(s)
       PROVE  SessionInv'
  BY <1>10, ManagedSafe
<1>11. CASE UNCHANGED sessionVars
  BY <1>4, <1>11 DEF sessionVars
<1> QED
  BY <1>1, <1>2, <1>3, <1>5, <1>6, <1>7, <1>8, <1>9, <1>10, <1>11 DEF SessionNext

\* The metadata of the current session lists its active tasks and their tokens,
\* whatever sessions are started, ended, changed and deleted in between.
THEOREM MetadataAgree == SessionSpec => []SessionRecordAgrees
<1>1. SessionInv => SessionRecordAgrees
  BY DEF SessionInv
<1> QED BY <1>1, SessionInitially, SessionStep, PTL DEF SessionSpec

-----------------------------------------------------------------------------
(* The chat: what its variables hold *)

Turns == [n : Nat,
          kind : {"plain", "urgent", "inventory", "rule", "once", "family", "upload", "unfit"},
          task : Nat, round : Nat, hard : BOOLEAN, kept : Seq(Texts), dropped : SUBSET Texts,
          reply : {"none", "text", "tool", "wrong"}]

\* What the turn and the tasks hold, and what the conversation does.
TurnTypes ==
  /\ made \in Nat /\ turns \in Nat
  /\ tasks \in TaskTables /\ DOMAIN tasks \subseteq 1..made
  /\ turn \in Turns
  /\ pc = "warning" => turn.reply \in {"text", "tool", "wrong"}

TalkTypes ==
  /\ disk \in Seq(Directory) /\ current \in 1..Len(disk)
  /\ transcript \in Seq(Texts) /\ history \in Seq(Texts) /\ carried \in Seq(Texts)

ChatTypes == TurnTypes /\ TalkTypes

\* The awaits of a turn between its question and its reply.
Replying == {"echoed", "summarising", "compacted", "lifted", "asking", "warning", "calling"}

\* The messages of a turn are messages.
LEMMA MessagesTyped ==
  ASSUME turn \in Turns
  PROVE  /\ Message("user") \in Texts /\ Message("reply") \in Texts
         /\ Marker \in Texts /\ Note \in Texts
BY DEF Message, Marker, Note, Texts, Turns

\* No turn has nothing kept.
LEMMA NoTurnTyped == NoTurn \in Turns
BY EmptySeq DEF NoTurn, Turns

\* A message that is recorded is the last of the log of the current session.
LEMMA RecordedTyped ==
  ASSUME NEW d \in Seq(Directory), NEW m \in Texts, current \in 1..Len(d)
  PROVE  /\ Recorded(d, m) \in Seq(Directory) /\ Len(Recorded(d, m)) = Len(d)
         /\ Recorded(d, m)[current].log = Append(d[current].log, m)
         /\ \A s \in 1..Len(d) : Recorded(d, m)[s].dir = d[s].dir
         /\ \A s \in 1..Len(d) \ {current} : Recorded(d, m)[s] = d[s]
<1>1. d[current] \in Directory
  BY DiskTyped
<1> DEFINE r == [d[current] EXCEPT !.log = Append(@, m)]
<1>2. r \in Directory /\ r.log = Append(d[current].log, m) /\ r.dir = d[current].dir
  <2>1. Append(d[current].log, m) \in Seq(Texts)
    BY <1>1 DEF Directory
  <2> QED BY <1>1, <2>1 DEF Directory
<1>3. Recorded(d, m) = [d EXCEPT ![current] = r]
  BY DEF Recorded
<1> HIDE DEF r
<1>4. /\ [d EXCEPT ![current] = r] \in Seq(Directory) /\ Len([d EXCEPT ![current] = r]) = Len(d)
      /\ \A j \in 1..Len(d) : [d EXCEPT ![current] = r][j] = IF j = current THEN r ELSE d[j]
  BY <1>2, ExceptSeq
<1> QED BY <1>2, <1>3, <1>4

\* What a compaction keeps is of the history, and ends as the history ends.
LEMMA KeptIsHistory ==
  ASSUME ChatTypes
  PROVE  /\ KeptHistory \in Seq(Texts)
         /\ DroppedHistory \in SUBSET Texts
         /\ \A i \in 1..Len(KeptHistory) : \E j \in 1..Len(history) : KeptHistory[i] = history[j]
         /\ RetainRecent >= 2 /\ Len(history) >= 2 =>
              /\ Len(KeptHistory) >= 2
              /\ KeptHistory[Len(KeptHistory)] = history[Len(history)]
              /\ KeptHistory[Len(KeptHistory) - 1] = history[Len(history) - 1]
<1>0. /\ history \in Seq(Texts) /\ Len(history) \in Nat /\ RetainRecent \in Nat
      /\ \A i \in 1..Len(history) : history[i] \in Texts
  BY ChatConstants, LenProperties, ElementOfSeq DEF ChatTypes, TalkTypes
<1> DEFINE n == Len(history) - Min({Len(history), RetainRecent})
           I == {i \in DOMAIN Old : Old[i].keep}
           recent == Newest(history, RetainRecent)
<1>1. n \in 0..Len(history)
  <2>1. Min({Len(history), RetainRecent}) \in {Len(history), RetainRecent}
        /\ Min({Len(history), RetainRecent}) <= Len(history)
    <3>1. \E x \in {Len(history), RetainRecent} : \A y \in {Len(history), RetainRecent} : x <= y
      BY <1>0
    <3> QED BY <3>1 DEF Min
  <2> QED BY <1>0, <2>1
<1>2. Old = SubSeq(history, 1, n)
  BY DEF Old
<1> HIDE DEF n
<1>3. Old \in Seq(Texts) /\ Len(Old) = n /\ \A i \in 1..n : Old[i] = history[i]
  <2>1. 1 \in Int /\ n \in Int /\ \A i \in 1..n : history[i] \in Texts
    BY <1>0, <1>1
  <2>2. /\ SubSeq(history, 1, n) \in Seq(Texts)
        /\ Len(SubSeq(history, 1, n)) = IF 1 <= n THEN n - 1 + 1 ELSE 0
        /\ \A i \in 1..(n - 1 + 1) : SubSeq(history, 1, n)[i] = history[1 + i - 1]
    BY <2>1, SubSeqProperties
  <2> QED BY <1>1, <1>2, <2>2
<1>4. DOMAIN Old = 1..n /\ I \in SUBSET (1..Len(Old)) /\ n \in Nat
  BY <1>1, <1>3, LenProperties
<1> HIDE DEF I
<1>5. /\ At(Old, I) \in Seq(Texts) /\ Len(At(Old, I)) = Cardinality(I) /\ Cardinality(I) \in Nat
      /\ \A k \in 1..Cardinality(I) : \E i \in I : At(Old, I)[k] = Old[i]
  BY <1>3, <1>4, AtProperties
<1>6. /\ recent \in Seq(Texts) /\ Len(recent) = IF Len(history) <= RetainRecent THEN Len(history) ELSE RetainRecent
      /\ \A i \in 1..Len(recent) : /\ i + (Len(history) - Len(recent)) \in 1..Len(history)
                                   /\ recent[i] = history[i + (Len(history) - Len(recent))]
  BY <1>0, NewestProperties
<1>7. KeptHistory = At(Old, I) \o recent
  BY DEF KeptHistory, I
<1> HIDE DEF recent
<1>8. /\ KeptHistory \in Seq(Texts) /\ Len(KeptHistory) = Cardinality(I) + Len(recent)
      /\ \A i \in 1..(Cardinality(I) + Len(recent)) :
           KeptHistory[i] = IF i <= Cardinality(I) THEN At(Old, I)[i] ELSE recent[i - Cardinality(I)]
  <2>1. ASSUME NEW a \in Seq(Texts), NEW c \in Seq(Texts)
        PROVE  /\ a \o c \in Seq(Texts) /\ Len(a \o c) = Len(a) + Len(c)
               /\ \A i \in 1..(Len(a) + Len(c)) :
                    (a \o c)[i] = IF i <= Len(a) THEN a[i] ELSE c[i - Len(a)]
    BY ConcatProperties
  <2> DEFINE left == At(Old, I)
  <2>2. left \in Seq(Texts) /\ recent \in Seq(Texts) /\ Len(left) = Cardinality(I)
    BY <1>5, <1>6
  <2>3. KeptHistory = left \o recent
    BY <1>7
  <2> HIDE DEF left
  <2>4. /\ left \o recent \in Seq(Texts) /\ Len(left \o recent) = Len(left) + Len(recent)
        /\ \A i \in 1..(Len(left) + Len(recent)) :
             (left \o recent)[i] = IF i <= Len(left) THEN left[i] ELSE recent[i - Len(left)]
    BY <2>1, <2>2
  <2>5. /\ KeptHistory \in Seq(Texts) /\ Len(KeptHistory) = Cardinality(I) + Len(recent)
        /\ \A i \in 1..(Cardinality(I) + Len(recent)) :
             KeptHistory[i] = IF i <= Cardinality(I) THEN left[i] ELSE recent[i - Cardinality(I)]
    BY <2>2, <2>3, <2>4, Zenon
  <2> QED BY <2>5 DEF left
<1>9. Len(recent) \in Nat
  BY <1>6, LenProperties
<1>10. ASSUME NEW i \in 1..Len(KeptHistory) PROVE \E j \in 1..Len(history) : KeptHistory[i] = history[j]
  <2>1. CASE i <= Cardinality(I)
    <3>1. i \in 1..Cardinality(I) /\ KeptHistory[i] = At(Old, I)[i]
      BY <1>5, <1>8, <1>9, <2>1
    <3>2. PICK j \in I : At(Old, I)[i] = Old[j]
      BY <1>5, <3>1
    <3>3. j \in 1..n /\ j \in 1..Len(history)
      BY <1>0, <1>1, <1>3, <1>4, <3>2
    <3> QED BY <1>3, <3>1, <3>2, <3>3
  <2>2. CASE i > Cardinality(I)
    <3>1. i - Cardinality(I) \in 1..Len(recent) /\ KeptHistory[i] = recent[i - Cardinality(I)]
      BY <1>5, <1>8, <1>9, <2>2
    <3> QED BY <1>6, <3>1
  <2> QED BY <1>5, <1>8, <1>9, <2>1, <2>2
<1>11. DroppedHistory \in SUBSET Texts
  BY <1>0, <1>1, <1>3, <1>4 DEF DroppedHistory
<1>12. ASSUME RetainRecent >= 2, Len(history) >= 2
       PROVE  /\ Len(KeptHistory) >= 2
              /\ KeptHistory[Len(KeptHistory)] = history[Len(history)]
              /\ KeptHistory[Len(KeptHistory) - 1] = history[Len(history) - 1]
  <2>1. Len(recent) >= 2
    BY <1>0, <1>6, <1>12
  <2>2. Len(KeptHistory) - Cardinality(I) = Len(recent)
        /\ (Len(KeptHistory) - 1) - Cardinality(I) = Len(recent) - 1
        /\ Len(KeptHistory) > Cardinality(I) /\ Len(KeptHistory) - 1 > Cardinality(I)
        /\ Len(KeptHistory) \in 1..(Cardinality(I) + Len(recent))
        /\ Len(KeptHistory) - 1 \in 1..(Cardinality(I) + Len(recent))
    BY <1>5, <1>8, <1>9, <2>1
  <2>3. /\ KeptHistory[Len(KeptHistory)] = recent[Len(recent)]
        /\ KeptHistory[Len(KeptHistory) - 1] = recent[Len(recent) - 1]
    <3>1. ASSUME NEW i \in 1..(Cardinality(I) + Len(recent)), i > Cardinality(I)
          PROVE  KeptHistory[i] = recent[i - Cardinality(I)]
      BY <1>5, <1>8, <1>9, <3>1
    <3> QED BY <2>2, <3>1
  <2>4. /\ Len(recent) + (Len(history) - Len(recent)) = Len(history)
        /\ (Len(recent) - 1) + (Len(history) - Len(recent)) = Len(history) - 1
        /\ Len(recent) \in 1..Len(recent) /\ Len(recent) - 1 \in 1..Len(recent)
    BY <1>0, <1>9, <2>1
  <2>5. recent[Len(recent)] = history[Len(history)] /\ recent[Len(recent) - 1] = history[Len(history) - 1]
    BY <1>6, <2>4
  <2> QED BY <1>5, <1>8, <1>9, <2>1, <2>3, <2>5
<1> QED BY <1>8, <1>10, <1>11, <1>12

-----------------------------------------------------------------------------
(* The shapes of the chat's steps *)

\* A message is recorded: in the transcript and, unless the session is gone, in its
\* log, perhaps after a write that changed no log.
Said(m) ==
  /\ transcript' = Append(transcript, m)
  /\ \E d \in Seq(Directory) : /\ SameLogs(disk, d)
                               /\ \/ disk' = Recorded(d, m)
                                  \/ disk' = d /\ ~Full(d, current)

Silent == transcript' = transcript /\ SameLogs(disk, disk')

KeepsHistory == UNCHANGED <<history, mixed, answered>>

\* The turn ends or has not begun; it goes on; it begins to compact; the marker, the
\* question and the reply are recorded; the history is compacted.
Rests == Silent /\ KeepsHistory /\ pc' \notin Replying

GoesOn == /\ Silent /\ KeepsHistory
          /\ pc \in Replying /\ pc' \in Replying \ {"summarising"}
          /\ turn'.n = turn.n /\ turn'.kind = turn.kind

Summarises == /\ Silent /\ KeepsHistory
              /\ pc \in Replying /\ pc' = "summarising"
              /\ turn'.n = turn.n /\ turn'.kind = turn.kind /\ turn'.kept = KeptHistory

Marks == Said(Marker) /\ KeepsHistory /\ pc' \notin Replying

Questions == Said(Message("user")) /\ KeepsHistory /\ turn' = turn /\ pc' \notin Replying \ {"echoed"}

Concludes == /\ Said(Message("reply")) /\ pc \in Replying /\ pc' \notin Replying
            /\ history' = Newest(history \o <<Message("user"), Message("reply")>>, MaxHistory)
            /\ mixed' = Mixes
            /\ answered' = IF turn.n \in crossed THEN answered ELSE turn.n

Compacts == /\ Silent
            /\ pc = "summarising" /\ pc' # "summarising"
            /\ history' = Newest(<<Note>> \o turn.kept, MaxHistory)
            /\ mixed' = Mixes
            /\ turn' = turn /\ answered' = answered

LoopShape ==
  /\ UNCHANGED <<current, carried, crossed>>
  /\ Rests \/ GoesOn \/ Summarises \/ Marks \/ Questions \/ Concludes \/ Compacts

\* Logs that are the same as themselves, and as others' others.
LEMMA SameLogsCompose ==
  /\ \A d \in Seq(Directory) : SameLogs(d, d)
  /\ \A d, e, f : SameLogs(d, e) /\ SameLogs(e, f) => SameLogs(d, f)
BY DEF SameLogs

\* What is written leaves the logs alone.
LEMMA WritesKeepLogs ==
  ASSUME ChatTypes
  PROVE  /\ SameLogs(disk, disk) /\ SameLogs(disk, Touch(disk, current))
         /\ Full(Touch(disk, current), current) <=> Full(disk, current)
         /\ \A open \in SUBSET Nat, total \in Totals :
              /\ SameLogs(disk, Rewritten(disk, current, open, total))
              /\ SameLogs(disk, Rewritten(Touch(disk, current), current, open, total))
         /\ disk[current].open \in SUBSET Nat /\ Touch(disk, current)[current].open = disk[current].open
<1>1. /\ disk \in Seq(Directory) /\ current \in 1..Len(disk) /\ disk[current] \in Directory
      /\ Len(Touch(disk, current)) = Len(disk)
  BY DiskTyped, TouchKeeps DEF ChatTypes, TalkTypes, SameLogs
<1>2. /\ SameLogs(disk, disk) /\ SameLogs(disk, Touch(disk, current))
      /\ Touch(disk, current) \in Seq(Directory)
      /\ Full(Touch(disk, current), current) <=> Full(disk, current)
      /\ Touch(disk, current)[current].open = disk[current].open
  BY <1>1, TouchKeeps, SameLogsCompose DEF SameLogs
<1>3. ASSUME NEW open \in SUBSET Nat, NEW total \in Totals
      PROVE  /\ SameLogs(disk, Rewritten(disk, current, open, total))
             /\ SameLogs(Touch(disk, current), Rewritten(Touch(disk, current), current, open, total))
  BY <1>1, <1>2, RewrittenKeeps
<1>4. ASSUME NEW open \in SUBSET Nat, NEW total \in Totals
      PROVE  SameLogs(disk, Rewritten(Touch(disk, current), current, open, total))
  BY <1>2, <1>3, SameLogsCompose
<1>5. disk[current].open \in SUBSET Nat
  BY <1>1 DEF Directory
<1> QED BY <1>2, <1>3, <1>4, <1>5

\* The active task is one of the tasks, or 0.
LEMMA ActiveTaskTyped == ASSUME TurnTypes PROVE ActiveTask(tasks, active) \in 0..made
<1>1. ActiveTasks(tasks) \in SUBSET (1..made) /\ made \in Nat
  BY DEF ActiveTasks, TurnTypes
<1>2. ActiveTasks(tasks) # {} => Max(ActiveTasks(tasks)) \in ActiveTasks(tasks)
  BY <1>1, GreatestIsThere
<1> QED BY <1>1, <1>2 DEF ActiveTask

\* The message that begins a turn.
LEMMA BeginShape ==
  ASSUME ChatTypes, NEW kind, Begin(kind)
  PROVE  LoopShape /\ TurnTypes'
<1>0. UNCHANGED <<current, transcript, history, carried, crossed, mixed, answered>>
  BY DEF Begin
<1>1. /\ turns' = turns + 1 /\ turns < Len(Kinds) /\ kind \in Kinds[turns + 1]
  BY DEF Begin
<1>2. /\ kind \in {"plain", "urgent", "inventory", "rule", "once", "family", "upload", "unfit"}
      /\ turns' \in Nat
  <2>1. turns + 1 \in 1..Len(Kinds) /\ turns' \in Nat
    BY <1>1, ChatConstants, LenProperties DEF ChatTypes, TurnTypes
  <2> QED BY <1>1, <2>1, ChatConstants, ElementOfSeq
<1> DEFINE task == IF ActiveTask(tasks, active) # 0 THEN ActiveTask(tasks, active) ELSE made + 1
<1>3. task \in Nat /\ made \in Nat /\ (task <= made \/ task = made + 1)
  BY ActiveTaskTyped DEF ChatTypes, TurnTypes
<1> HIDE DEF task
<1>4. turn' = [NoTurn EXCEPT !.n = turns', !.kind = kind, !.task = task]
  BY DEF Begin, task
<1>5. turn' \in Turns
  BY <1>2, <1>3, <1>4, NoTurnTyped DEF Turns
<1>6. CASE kind = "unfit" \/ (kind # "upload" /\ ~Full(disk, current))
  <2>1. pc' = "dead" /\ UNCHANGED <<disk, tasks, active, made>>
    BY <1>6 DEF Begin, Die
  <2>2. Rests
    BY <1>0, <2>1, WritesKeepLogs DEF Rests, Silent, KeepsHistory, Replying
  <2>3. TurnTypes'
    BY <1>2, <1>5, <2>1 DEF ChatTypes, TurnTypes
  <2> QED BY <1>0, <2>2, <2>3 DEF LoopShape
<1>7. CASE ~(kind = "unfit" \/ (kind # "upload" /\ ~Full(disk, current)))
  <2>1. IF task <= made
        THEN /\ pc' = "active" /\ shown' = "active"
             /\ UNCHANGED <<disk, tasks, active, made>>
        ELSE /\ made' = task
             /\ active' = task
             /\ tasks' = WithTask(tasks, task)
             /\ disk' = Rewritten(Touch(disk, current), current,
                                  disk[current].open \cup {task}, TotalOf(tasks))
             /\ pc' \in {"active", "dead"}
    BY <1>7 DEF Begin, Die, task
  <2>2. turn' \in Turns /\ pc' \in {"active", "dead"}
    BY <1>5, <2>1
  <2>3. CASE task <= made
    <3>1. Rests
      BY <1>0, <2>1, <2>2, <2>3, WritesKeepLogs DEF Rests, Silent, KeepsHistory, Replying
    <3>2. TurnTypes'
      BY <1>2, <2>1, <2>2, <2>3 DEF ChatTypes, TurnTypes
    <3> QED BY <1>0, <3>1, <3>2 DEF LoopShape
  <2>4. CASE task > made
    <3>0. ~(task <= made) /\ made' = task
      BY <1>3, <2>1, <2>4
    <3>1. SameLogs(disk, disk')
      <4>1. disk[current].open \cup {task} \in SUBSET Nat /\ TotalOf(tasks) \in Totals
        BY <1>3, WritesKeepLogs DEF ChatTypes, TurnTypes, Totals
      <4> QED BY <2>1, <3>0, <4>1, WritesKeepLogs
    <3>2. Rests
      BY <1>0, <2>2, <3>1 DEF Rests, Silent, KeepsHistory, Replying
    <3>3. tasks' \in TaskTables /\ DOMAIN tasks' = DOMAIN tasks \cup {task}
      BY <1>3, <2>1, <3>0, TablesMade DEF ChatTypes, TurnTypes
    <3>4. TurnTypes'
      <4>1. DOMAIN tasks' \subseteq 1..made'
        BY <1>3, <2>4, <3>0, <3>3 DEF ChatTypes, TurnTypes
      <4> QED BY <1>2, <1>3, <2>2, <3>0, <3>3, <4>1 DEF ChatTypes, TurnTypes
    <3> QED BY <1>0, <3>2, <3>4 DEF LoopShape
  <2> QED BY <1>3, <2>3, <2>4
<1> QED BY <1>6, <1>7

\* The end of a turn, as Finish records it in directories with the same logs.
LEMMA FinishShape ==
  ASSUME ChatTypes, NEW d, SameLogs(disk, d), Finish(d), pc \in Replying
  PROVE  Concludes /\ pc' \in {"streaming", "failing"}
<1>1. d \in Seq(Directory)
  BY DEF SameLogs
<1>2. pc' \in {"streaming", "failing"} /\ pc' \notin Replying
  BY DEF Finish, Replying
<1>3. disk' = Recorded(d, Message("reply")) \/ (disk' = d /\ ~Full(d, current))
  BY DEF Finish, Writable, Full
<1>4. Said(Message("reply"))
  BY <1>1, <1>3 DEF Said, Finish
<1> QED BY <1>2, <1>4 DEF Concludes, Finish

\* The next round, in directories with the same logs.
LEMMA NextRoundShape ==
  ASSUME ChatTypes, NEW d, SameLogs(disk, d), NextRound(d), pc \in Replying
  PROVE  /\ GoesOn \/ Concludes
         /\ turn' \in Turns /\ pc' # "warning"
<1>1. turn \in Turns
  BY DEF ChatTypes, TurnTypes
<1>2. CASE turn.round < MaxIterations
  <2>1. /\ pc' = "asking" /\ turn' = [turn EXCEPT !.round = @ + 1] /\ disk' = d
        /\ UNCHANGED <<transcript, history, mixed, answered>>
    BY <1>2 DEF NextRound
  <2>2. turn' \in Turns /\ turn'.n = turn.n /\ turn'.kind = turn.kind
    <3>1. turn.round + 1 \in Nat
      BY <1>1 DEF Turns
    <3> QED BY <1>1, <2>1, <3>1 DEF Turns
  <2>3. GoesOn
    BY <2>1, <2>2 DEF GoesOn, Silent, KeepsHistory, Replying
  <2> QED BY <2>1, <2>2, <2>3
<1>3. CASE ~(turn.round < MaxIterations)
  <2>1. Finish(d) /\ turn' = turn
    BY <1>3 DEF NextRound
  <2> QED BY <1>1, <2>1, FinishShape
<1> QED BY <1>2, <1>3

\* What follows the answer of the model, in directories with the same logs.
LEMMA ProceedShape ==
  ASSUME ChatTypes, NEW d, NEW reply \in {"text", "tool", "wrong"},
         SameLogs(disk, d), Proceed(reply, d), pc \in Replying
  PROVE  /\ GoesOn \/ Concludes
         /\ turn' \in Turns /\ pc' # "warning"
<1>1. turn \in Turns
  BY DEF ChatTypes, TurnTypes
<1>2. CASE reply = "text"
  <2>1. Finish(d) /\ turn' = turn
    BY <1>2 DEF Proceed
  <2> QED BY <1>1, <2>1, FinishShape
<1>3. CASE reply = "wrong"
  <2>1. NextRound(d)
    BY <1>3 DEF Proceed
  <2> QED BY <2>1, NextRoundShape
<1>4. CASE reply = "tool"
  <2>1. /\ pc' = "calling" /\ disk' = d
        /\ UNCHANGED <<turn, transcript, history, mixed, answered>>
    BY <1>4 DEF Proceed
  <2>2. GoesOn
    BY <2>1 DEF GoesOn, Silent, KeepsHistory, Replying
  <2> QED BY <1>1, <2>1, <2>2
<1> QED BY <1>2, <1>3, <1>4

\* A step that leaves the turn and the tasks alone, but for a turn of the right type.
LEMMA TurnTyped ==
  ASSUME ChatTypes, UNCHANGED <<made, turns, tasks>>, turn' \in Turns,
         pc' = "warning" => turn'.reply \in {"text", "tool", "wrong"}
  PROVE  TurnTypes'
BY DEF ChatTypes, TurnTypes

\* The marker and the question, recorded in memory and, where there is one, in the log.
LEMMA RecordShape ==
  ASSUME ChatTypes, MarkResumed \/ RecordQuestion
  PROVE  LoopShape /\ TurnTypes'
<1>0. disk \in Seq(Directory) /\ SameLogs(disk, disk)
  BY WritesKeepLogs DEF ChatTypes, TalkTypes
<1>1. /\ UNCHANGED <<current, carried, crossed, history, mixed, answered, turn, made, turns, tasks>>
  BY DEF MarkResumed, RecordQuestion, runtimeVars
<1>2. pc' # "warning" /\ turn' \in Turns
  BY <1>1 DEF MarkResumed, RecordQuestion, Die, ChatTypes, TurnTypes
<1>3. TurnTypes'
  BY <1>1, <1>2, TurnTyped
<1>4. CASE MarkResumed
  <2>1. disk' = Recorded(disk, Marker) \/ (disk' = disk /\ ~Full(disk, current))
    BY <1>4 DEF MarkResumed, Writable, Full
  <2>2. Said(Marker)
    BY <1>0, <1>4, <2>1 DEF Said, MarkResumed
  <2>3. pc' \notin Replying
    BY <1>4 DEF MarkResumed, Die, Replying
  <2> QED BY <1>1, <1>3, <2>2, <2>3 DEF LoopShape, Marks, KeepsHistory
<1>5. CASE RecordQuestion
  <2>1. disk' = Recorded(disk, Message("user")) \/ (disk' = disk /\ ~Full(disk, current))
    BY <1>5 DEF RecordQuestion, Writable, Full
  <2>2. Said(Message("user"))
    BY <1>0, <1>5, <2>1 DEF Said, RecordQuestion
  <2>3. pc' \notin Replying \ {"echoed"}
    BY <1>5 DEF RecordQuestion, Die, Replying
  <2> QED BY <1>1, <1>3, <2>2, <2>3 DEF LoopShape, Questions, KeepsHistory
<1> QED BY <1>4, <1>5

\* The decision to compact before the model is asked.
LEMMA ConsiderShape ==
  ASSUME ChatTypes, NEW mode, Consider(mode)
  PROVE  LoopShape /\ TurnTypes'
<1> DEFINE promotes == ShouldPromote(CuesOf(turn.kind)) /\ rules = <<>>
           promoted == IF promotes THEN Touch(disk, current) ELSE disk
<1>0. /\ pc = "echoed"
      /\ UNCHANGED <<current, tasks, made, turns, transcript, history, carried, crossed, mixed, answered>>
      /\ IF promotes /\ ~HasTask
         THEN pc' = "failing" /\ UNCHANGED <<disk, turn, paused>>
         ELSE IF mode = "none" \/ DroppedHistory = {}
         THEN Ask(promoted) /\ turn' = [turn EXCEPT !.round = 1] /\ UNCHANGED paused
         ELSE /\ pc' = "summarising"
              /\ turn' = [turn EXCEPT !.hard = mode = "hard", !.kept = KeptHistory,
                                      !.dropped = DroppedHistory]
              /\ disk' = promoted
  BY DEF Consider
<1>1. SameLogs(disk, disk) /\ SameLogs(disk, promoted) /\ SameLogs(disk, Touch(promoted, current))
  <2>1. SameLogs(disk, disk) /\ SameLogs(disk, promoted)
    BY WritesKeepLogs
  <2>2. current \in 1..Len(promoted) /\ promoted \in Seq(Directory)
    BY <2>1 DEF SameLogs, ChatTypes, TalkTypes
  <2>3. SameLogs(promoted, Touch(promoted, current))
    BY <2>2, TouchKeeps
  <2> HIDE DEF promoted
  <2> QED BY <2>1, <2>3, SameLogsCompose
<1> HIDE DEF promotes, promoted
<1>2. turn \in Turns /\ KeptHistory \in Seq(Texts) /\ DroppedHistory \in SUBSET Texts
  BY KeptIsHistory DEF ChatTypes, TurnTypes
<1>3. CASE promotes /\ ~HasTask
  <2>1. pc' = "failing" /\ UNCHANGED <<disk, turn>>
    BY <1>0, <1>3
  <2>2. Rests
    BY <1>0, <1>1, <2>1 DEF Rests, Silent, KeepsHistory, Replying
  <2>3. TurnTypes'
    BY <1>0, <1>2, <2>1, TurnTyped
  <2> QED BY <1>0, <2>2, <2>3 DEF LoopShape
<1>4. CASE ~(promotes /\ ~HasTask) /\ (mode = "none" \/ DroppedHistory = {})
  <2>1. pc' = "asking" /\ disk' = Touch(promoted, current) /\ turn' = [turn EXCEPT !.round = 1]
    BY <1>0, <1>4 DEF Ask
  <2>2. turn' \in Turns /\ turn'.n = turn.n /\ turn'.kind = turn.kind
    BY <1>2, <2>1 DEF Turns
  <2>3. GoesOn
    BY <1>0, <1>1, <2>1, <2>2 DEF GoesOn, Silent, KeepsHistory, Replying
  <2>4. TurnTypes'
    BY <1>0, <2>1, <2>2, TurnTyped
  <2> QED BY <1>0, <2>3, <2>4 DEF LoopShape
<1>5. CASE ~(promotes /\ ~HasTask) /\ ~(mode = "none" \/ DroppedHistory = {})
  <2>1. /\ pc' = "summarising" /\ disk' = promoted
        /\ turn' = [turn EXCEPT !.hard = mode = "hard", !.kept = KeptHistory,
                                !.dropped = DroppedHistory]
    BY <1>0, <1>5
  <2>2. turn' \in Turns /\ turn'.n = turn.n /\ turn'.kind = turn.kind /\ turn'.kept = KeptHistory
    BY <1>2, <2>1 DEF Turns
  <2>3. Summarises
    BY <1>0, <1>1, <2>1, <2>2 DEF Summarises, Silent, KeepsHistory, Replying
  <2>4. TurnTypes'
    BY <1>0, <2>1, <2>2, TurnTyped
  <2> QED BY <1>0, <2>3, <2>4 DEF LoopShape
<1> QED BY <1>3, <1>4, <1>5

\* The compaction and what follows it.
LEMMA CompactShape ==
  ASSUME ChatTypes,
         (\E empty \in BOOLEAN : Compact(empty)) \/ LiftPause \/ AskAfterCompaction
  PROVE  LoopShape /\ TurnTypes'
<1>0. /\ UNCHANGED <<current, tasks, made, turns, transcript, carried, crossed>>
      /\ turn \in Turns
  BY DEF Compact, LiftPause, AskAfterCompaction, sessionVars, runtimeVars, ChatTypes, TurnTypes
<1>1. SameLogs(disk, disk) /\ SameLogs(disk, Touch(disk, current))
  BY WritesKeepLogs
<1>2. CASE \E empty \in BOOLEAN : Compact(empty)
  <2>1. /\ pc = "summarising" /\ pc' \in {"compacted", "failing"} /\ UNCHANGED <<turn, answered>>
        /\ disk' = Touch(disk, current) /\ mixed' = Mixes
        /\ history' = Newest(<<Note>> \o turn.kept, MaxHistory)
    BY <1>2 DEF Compact
  <2>2. Compacts
    BY <1>0, <1>1, <2>1 DEF Compacts, Silent
  <2>3. TurnTypes'
    BY <1>0, <2>1, TurnTyped
  <2> QED BY <1>0, <2>2, <2>3 DEF LoopShape
<1>3. CASE LiftPause
  <2>1. pc = "compacted" /\ pc' = "lifted" /\ UNCHANGED <<disk, turn, history, mixed, answered>>
    BY <1>3 DEF LiftPause, sessionVars
  <2>2. GoesOn
    BY <1>0, <1>1, <2>1 DEF GoesOn, Silent, KeepsHistory, Replying
  <2>3. TurnTypes'
    BY <1>0, <2>1, TurnTyped
  <2> QED BY <1>0, <2>2, <2>3 DEF LoopShape
<1>4. CASE AskAfterCompaction
  <2>1. /\ pc \in Replying /\ pc' = "asking" /\ UNCHANGED <<history, mixed, answered>>
        /\ disk' = Touch(disk, current) /\ turn' = [turn EXCEPT !.round = 1]
    BY <1>4 DEF AskAfterCompaction, Ask, Replying
  <2>2. turn' \in Turns /\ turn'.n = turn.n /\ turn'.kind = turn.kind
    BY <1>0, <2>1 DEF Turns
  <2>3. GoesOn
    BY <1>0, <1>1, <2>1, <2>2 DEF GoesOn, Silent, KeepsHistory, Replying
  <2>4. TurnTypes'
    BY <1>0, <2>1, <2>2, TurnTyped
  <2> QED BY <1>0, <2>3, <2>4 DEF LoopShape
<1> QED BY <1>2, <1>3, <1>4

\* The answers that are not accounted for, and the tool's.
LEMMA AnswerFreeShape ==
  ASSUME ChatTypes,
         \/ AnswerInventory \/ AfterWarning \/ ToolAnswered
         \/ \E reply \in {"text", "tool", "wrong"} : AnswerFree(reply)
  PROVE  LoopShape /\ TurnTypes'
<1>0. UNCHANGED <<current, tasks, made, turns, carried, crossed>> /\ turn \in Turns
  BY DEF AnswerInventory, AfterWarning, ToolAnswered, AnswerFree, runtimeVars, ChatTypes, TurnTypes
<1>1. SameLogs(disk, disk) /\ SameLogs(disk, Touch(disk, current))
  BY WritesKeepLogs
<1>2. CASE AnswerInventory
  <2>1. pc \in Replying /\ Finish(disk) /\ turn' = turn
    BY <1>2 DEF AnswerInventory, Replying
  <2>2. Concludes /\ pc' \in {"streaming", "failing"}
    BY <1>1, <2>1, FinishShape
  <2>3. TurnTypes'
    BY <1>0, <2>1, <2>2, TurnTyped
  <2> QED BY <1>0, <2>2, <2>3 DEF LoopShape
<1>3. CASE AfterWarning
  <2>1. pc \in Replying /\ Proceed(turn.reply, disk) /\ turn.reply \in {"text", "tool", "wrong"}
    BY <1>3 DEF AfterWarning, Replying, ChatTypes, TurnTypes
  <2>2. (GoesOn \/ Concludes) /\ turn' \in Turns /\ pc' # "warning"
    BY <1>1, <2>1, ProceedShape
  <2>3. TurnTypes'
    BY <1>0, <2>2, TurnTyped
  <2> QED BY <1>0, <2>2, <2>3 DEF LoopShape
<1>4. CASE ToolAnswered
  <2>1. CASE HasTask
    <3>1. pc \in Replying /\ NextRound(Touch(disk, current))
      BY <1>4, <2>1 DEF ToolAnswered, Replying
    <3>2. (GoesOn \/ Concludes) /\ turn' \in Turns /\ pc' # "warning"
      BY <1>1, <3>1, NextRoundShape
    <3>3. TurnTypes'
      BY <1>0, <3>2, TurnTyped
    <3> QED BY <1>0, <3>2, <3>3 DEF LoopShape
  <2>2. CASE ~HasTask
    <3>1. pc' = "failing" /\ UNCHANGED <<disk, turn, transcript, history, mixed, answered>>
      BY <1>4, <2>2 DEF ToolAnswered
    <3>2. Rests
      BY <1>1, <3>1 DEF Rests, Silent, KeepsHistory, Replying
    <3>3. TurnTypes'
      BY <1>0, <3>1, TurnTyped
    <3> QED BY <1>0, <3>2, <3>3 DEF LoopShape
  <2> QED BY <2>1, <2>2
<1>5. ASSUME NEW reply \in {"text", "tool", "wrong"}, AnswerFree(reply) PROVE LoopShape /\ TurnTypes'
  <2>1. pc \in Replying /\ Proceed(reply, disk)
    BY <1>5 DEF AnswerFree, Replying
  <2>2. (GoesOn \/ Concludes) /\ turn' \in Turns /\ pc' # "warning"
    BY <1>1, <2>1, ProceedShape
  <2>3. TurnTypes'
    BY <1>0, <2>2, TurnTyped
  <2> QED BY <1>0, <2>2, <2>3 DEF LoopShape
<1> QED BY <1>2, <1>3, <1>4, <1>5

\* An answer whose tokens are accounted for.
LEMMA AnswerShape ==
  ASSUME ChatTypes, NEW reply \in {"text", "tool", "wrong"}, Answer(reply)
  PROVE  LoopShape /\ TurnTypes'
<1>0. /\ UNCHANGED <<current, made, turns, carried, crossed>> /\ turn \in Turns /\ pc \in Replying
      /\ tasks \in TaskTables
  BY DEF Answer, ChatTypes, TurnTypes, Replying
<1>1. SameLogs(disk, disk)
  BY WritesKeepLogs
<1>2. CASE ~HasTask
  <2>1. pc' = "failing" /\ UNCHANGED <<tasks, disk, turn, transcript, history, mixed, answered>>
    BY <1>2 DEF Answer
  <2>2. Rests
    BY <1>1, <2>1 DEF Rests, Silent, KeepsHistory, Replying
  <2>3. TurnTypes'
    BY <1>0, <2>1, TurnTyped
  <2> QED BY <1>0, <2>2, <2>3 DEF LoopShape
<1>3. CASE HasTask
  <2>1. tasks' = Charged(tasks, turn.task) /\ turn.task \in DOMAIN tasks
    BY <1>3 DEF Answer, HasTask
  <2>2. tasks' \in TaskTables /\ DOMAIN tasks' = DOMAIN tasks
    BY <1>0, <2>1, TablesMade
  <2>3. PICK n \in Totals : n = TotalOf(tasks')
    BY <2>2 DEF Totals
  <2>4. PICK d \in {disk, Touch(disk, current)} :
          LET charged == Rewritten(d, current, d[current].open, TotalOf(tasks'))
          IN IF ~Full(d, current)
             THEN /\ pc' = "failing" /\ disk' = charged
                  /\ UNCHANGED <<warned, turn, transcript, history, mixed, answered>>
             ELSE IF spent' >= CostThreshold /\ ~warned
             THEN /\ pc' = "warning" /\ disk' = charged /\ warned' = TRUE
                  /\ turn' = [turn EXCEPT !.reply = reply]
                  /\ UNCHANGED <<transcript, history, mixed, answered>>
             ELSE Proceed(reply, charged) /\ UNCHANGED warned
    BY <1>3 DEF Answer
  <2> DEFINE c == Rewritten(d, current, d[current].open, n)
  <2>5. SameLogs(disk, c)
    BY <2>4, WritesKeepLogs
  <2>6. IF ~Full(d, current)
        THEN pc' = "failing" /\ disk' = c /\ UNCHANGED <<turn, transcript, history, mixed, answered>>
        ELSE IF spent' >= CostThreshold /\ ~warned
        THEN /\ pc' = "warning" /\ disk' = c /\ turn' = [turn EXCEPT !.reply = reply]
             /\ UNCHANGED <<transcript, history, mixed, answered>>
        ELSE Proceed(reply, c)
    BY <2>3, <2>4
  <2> HIDE DEF c
  <2>7. CASE ~Full(d, current)
    <3>1. Rests
      BY <2>5, <2>6, <2>7 DEF Rests, Silent, KeepsHistory, Replying
    <3>2. TurnTypes'
      BY <1>0, <2>2, <2>6, <2>7 DEF ChatTypes, TurnTypes
    <3> QED BY <1>0, <3>1, <3>2 DEF LoopShape
  <2>8. CASE Full(d, current) /\ spent' >= CostThreshold /\ ~warned
    <3>1. /\ pc' = "warning" /\ disk' = c /\ turn' = [turn EXCEPT !.reply = reply]
          /\ UNCHANGED <<transcript, history, mixed, answered>>
      BY <2>6, <2>8
    <3>2. turn' \in Turns /\ turn'.n = turn.n /\ turn'.kind = turn.kind /\ turn'.reply = reply
      BY <1>0, <3>1 DEF Turns
    <3>3. GoesOn
      BY <1>0, <2>5, <3>1, <3>2 DEF GoesOn, Silent, KeepsHistory, Replying
    <3>4. TurnTypes'
      BY <1>0, <2>2, <3>1, <3>2 DEF ChatTypes, TurnTypes
    <3> QED BY <1>0, <3>3, <3>4 DEF LoopShape
  <2>9. CASE Full(d, current) /\ ~(spent' >= CostThreshold /\ ~warned)
    <3>1. Proceed(reply, c)
      BY <2>6, <2>9
    <3>2. (GoesOn \/ Concludes) /\ turn' \in Turns /\ pc' # "warning"
      BY <1>0, <2>5, <3>1, ProceedShape
    <3>3. TurnTypes'
      BY <1>0, <2>2, <3>2 DEF ChatTypes, TurnTypes
    <3> QED BY <1>0, <3>2, <3>3 DEF LoopShape
  <2> QED BY <2>7, <2>8, <2>9
<1> QED BY <1>2, <1>3

\* Every step of the loop has one of the shapes.
LEMMA LoopStepShape ==
  ASSUME ChatTypes, LoopStep \/ \E kind \in UNION Range(Kinds) : Begin(kind)
  PROVE  LoopShape /\ TurnTypes'
<1>1. CASE CallFails \/ EndTurn
  <2>1. /\ UNCHANGED <<current, disk, tasks, made, turns, transcript, history, carried, crossed,
                      mixed, answered>>
        /\ pc' \in {"failing", "waiting"} /\ turn' \in {turn, NoTurn}
    BY <1>1 DEF CallFails, EndTurn, sessionVars, runtimeVars
  <2>2. SameLogs(disk, disk)
    BY WritesKeepLogs
  <2>3. Rests
    BY <2>1, <2>2 DEF Rests, Silent, KeepsHistory, Replying
  <2>4. turn' \in Turns
    BY <2>1, NoTurnTyped DEF ChatTypes, TurnTypes
  <2>5. TurnTypes'
    BY <2>1, <2>4, TurnTyped
  <2> QED BY <2>1, <2>3, <2>5 DEF LoopShape
<1>2. ASSUME NEW mode, Consider(mode) PROVE LoopShape /\ TurnTypes'
  BY <1>2, ConsiderShape
<1>3. ASSUME NEW reply \in {"text", "tool", "wrong"}, AnswerFree(reply) \/ Answer(reply)
      PROVE  LoopShape /\ TurnTypes'
  BY <1>3, AnswerFreeShape, AnswerShape
<1>4. ASSUME NEW kind, Begin(kind) PROVE LoopShape /\ TurnTypes'
  BY <1>4, BeginShape
<1> QED
  BY <1>1, <1>2, <1>3, <1>4, RecordShape, CompactShape, AnswerFreeShape DEF LoopStep

\* A message that is said reaches the transcript and, while there is one, the log.
LEMMA SaidTyped ==
  ASSUME TalkTypes, NEW m \in Texts, Said(m), UNCHANGED current
  PROVE  /\ disk' \in Seq(Directory) /\ Len(disk') = Len(disk)
         /\ transcript' \in Seq(Texts) /\ transcript' = Append(transcript, m)
         /\ \A s \in 1..Len(disk) : disk'[s].dir = "full" <=> disk[s].dir = "full"
         /\ \A s \in 1..Len(disk) \ {current} : disk'[s].log = disk[s].log
         /\ Full(disk, current) => disk'[current].log = Append(disk[current].log, m)
<1>1. PICK d \in Seq(Directory) : /\ SameLogs(disk, d)
                                  /\ disk' = Recorded(d, m) \/ (disk' = d /\ ~Full(d, current))
  BY DEF Said
<1>2. transcript' = Append(transcript, m) /\ transcript' \in Seq(Texts)
  BY DEF Said, TalkTypes
<1>3. /\ current \in 1..Len(d) /\ Len(d) = Len(disk) /\ DOMAIN d = 1..Len(d) /\ DOMAIN disk = 1..Len(disk)
      /\ \A s \in 1..Len(disk) : d[s].log = disk[s].log /\ (d[s].dir = "full" <=> disk[s].dir = "full")
  BY <1>1, DiskTyped DEF SameLogs, TalkTypes
<1>4. CASE disk' = Recorded(d, m)
  <2>1. /\ disk' \in Seq(Directory) /\ Len(disk') = Len(d)
        /\ disk'[current].log = Append(d[current].log, m)
        /\ \A s \in 1..Len(d) : disk'[s].dir = d[s].dir
        /\ \A s \in 1..Len(d) \ {current} : disk'[s] = d[s]
    BY <1>1, <1>3, <1>4, RecordedTyped
  <2>2. \A s \in 1..Len(disk) \ {current} : disk'[s].log = disk[s].log
    BY <1>3, <2>1
  <2> QED BY <1>2, <1>3, <2>1, <2>2
<1>5. CASE disk' = d /\ ~Full(d, current)
  BY <1>1, <1>2, <1>3, <1>5 DEF Full
<1> QED BY <1>1, <1>4, <1>5

\* A history that is cut to its newest messages.
LEMMA CutTyped ==
  ASSUME NEW h \in Seq(Texts)
  PROVE  Newest(h, MaxHistory) \in Seq(Texts)
BY NewestProperties, ChatConstants

\* A step of one of the shapes keeps the types.
LEMMA LoopShapeTyped ==
  ASSUME ChatTypes, LoopShape, TurnTypes'
  PROVE  ChatTypes'
<1>0. /\ UNCHANGED <<current, carried, crossed>> /\ TalkTypes /\ turn \in Turns /\ turn.kept \in Seq(Texts)
      /\ Message("user") \in Texts /\ Message("reply") \in Texts /\ Marker \in Texts /\ Note \in Texts
  BY MessagesTyped DEF LoopShape, ChatTypes, TurnTypes, Turns
<1>1. transcript' \in Seq(Texts) /\ disk' \in Seq(Directory) /\ Len(disk') = Len(disk)
  <2>1. CASE Silent
    BY <1>0, <2>1 DEF Silent, SameLogs, TalkTypes
  <2>2. ASSUME NEW m \in Texts, Said(m)
        PROVE  transcript' \in Seq(Texts) /\ disk' \in Seq(Directory) /\ Len(disk') = Len(disk)
    BY <1>0, <2>2, SaidTyped
  <2> QED BY <1>0, <2>1, <2>2 DEF LoopShape, Rests, GoesOn, Summarises, Marks, Questions, Concludes, Compacts
<1>2. history' \in Seq(Texts)
  <2>1. CASE Concludes
    <3>1. <<Message("user"), Message("reply")>> \in Seq(Texts)
      BY <1>0
    <3>2. history \o <<Message("user"), Message("reply")>> \in Seq(Texts)
      BY <1>0, <3>1, ConcatProperties DEF TalkTypes
    <3> QED BY <2>1, <3>2, CutTyped DEF Concludes
  <2>2. CASE Compacts
    <3>1. <<Note>> \in Seq(Texts)
      BY <1>0
    <3>2. <<Note>> \o turn.kept \in Seq(Texts)
      BY <1>0, <3>1, ConcatProperties
    <3> QED BY <2>2, <3>2, CutTyped DEF Compacts
  <2>3. CASE KeepsHistory
    BY <1>0, <2>3 DEF KeepsHistory, TalkTypes
  <2> QED BY <2>1, <2>2, <2>3 DEF LoopShape, Rests, GoesOn, Summarises, Marks, Questions
<1> QED BY <1>0, <1>1, <1>2 DEF ChatTypes, TalkTypes

\* The logs of the sessions that were, and at most one new session.
Grows(d, e) ==
  /\ e \in Seq(Directory) /\ Len(e) \in Len(d)..(Len(d) + 1)
  /\ \A s \in 1..Len(d) : e[s].log = d[s].log /\ (e[s].dir = "full" <=> d[s].dir = "full")
  /\ \A s \in 1..Len(e) : s > Len(d) => e[s].log = <<>>

\* Another session becomes the current one; what is shown and remembered is its log.
Changes ==
  /\ Grows(disk, disk') /\ current' \in 1..Len(disk')
  /\ transcript' = carried' \o disk'[current'].log /\ carried' \in Seq(Texts)
  /\ history' = Newest(transcript', MaxHistory)
  /\ crossed' = IF Busy THEN crossed \cup {turn.n} ELSE crossed
  /\ mixed' = FALSE /\ answered' = 0
  /\ (pc' = pc /\ turn' = turn) \/ pc' = "waiting"

\* Sessions are archived, restored and deleted, or nothing happens.
Manages ==
  /\ disk' \in Seq(Directory) /\ Len(disk') = Len(disk)
  /\ \A s \in 1..Len(disk) :
       disk'[s].dir = "full" => disk[s].dir = "full" /\ disk'[s].log = disk[s].log
  /\ UNCHANGED <<current, pc, turn, transcript, history, carried, crossed, mixed, answered>>

\* One directory more, whose session has no log yet.
LEMMA GrowsByOne ==
  ASSUME NEW d \in Seq(Directory), NEW e, SameLogs(d, e)
  PROVE  /\ Grows(d, e) /\ Grows(d, Append(e, NewDirectory))
         /\ Len(Append(e, NewDirectory)) = Len(d) + 1
         /\ Append(e, NewDirectory)[Len(d) + 1].log = <<>>
<1>1. /\ e \in Seq(Directory) /\ Len(e) = Len(d) /\ Len(d) \in Nat
      /\ \A s \in 1..Len(d) : e[s].log = d[s].log /\ (e[s].dir = "full" <=> d[s].dir = "full")
  BY LenProperties DEF SameLogs
<1>2. NewDirectory.log = <<>>
  BY DEF NewDirectory
<1>3. /\ Append(e, NewDirectory) \in Seq(Directory)
      /\ Len(Append(e, NewDirectory)) = Len(d) + 1
      /\ \A s \in 1..Len(d) : Append(e, NewDirectory)[s] = e[s]
      /\ Append(e, NewDirectory)[Len(d) + 1].log = <<>>
  BY <1>1, <1>2, DiskTyped
<1>4. Grows(d, e)
  BY <1>1 DEF Grows
<1>5. Grows(d, Append(e, NewDirectory))
  <2>1. \A s \in 1..(Len(d) + 1) : s > Len(d) => s = Len(d) + 1
    BY <1>1
  <2> QED BY <1>1, <1>3, <2>1 DEF Grows
<1> QED BY <1>3, <1>4, <1>5

\* The whole of a sequence follows nothing, and nothing follows it.
LEMMA NothingAdded ==
  ASSUME NEW l \in Seq(Texts)
  PROVE  /\ <<>> \in Seq(Texts) /\ <<>> \o l = l /\ l \o <<>> = l
         /\ Newest(<<>>, MaxHistory) = <<>>
<1>1. MaxHistory \in Nat /\ Len(<<>>) = 0 /\ <<>> \in Seq(Texts)
  BY ChatConstants
<1>2. Newest(<<>>, MaxHistory) = <<>>
  BY <1>1 DEF Newest
<1> QED BY <1>1, <1>2, ConcatEmptySeq

\* A new process.
LEMMA BootShape == ASSUME ChatTypes, Boot PROVE Changes /\ TurnTypes'
<1>0. disk \in Seq(Directory) /\ DOMAIN disk = 1..Len(disk) /\ Len(disk) \in Nat /\ SameLogs(disk, disk)
  BY DiskTyped, WritesKeepLogs DEF ChatTypes, TalkTypes
<1>1. PICK latest \in Latest(disk) :
        /\ transcript' = disk[latest].log
        /\ history' = Newest(disk[latest].log, MaxHistory)
        /\ carried' = IF latest \in Resumed(disk) THEN <<>> ELSE disk[latest].log
        /\ IF latest \in Resumed(disk)
           THEN current' = latest /\ UNCHANGED disk
           ELSE current' = Len(disk) + 1 /\ disk' = Append(disk, NewDirectory)
  BY DEF Boot
<1>2. latest \in 1..Len(disk)
  <2> DEFINE full == {s \in DOMAIN disk : disk[s].dir = "full"}
  <2>1. full \in SUBSET (1..Len(disk)) /\ (full # {} => Max(full) \in full)
    BY <1>0, GreatestIsThere
  <2> QED BY <1>0, <2>1 DEF Latest
<1>3. disk[latest].log \in Seq(Texts)
  BY <1>0, <1>2, DiskTyped DEF Directory
<1>4. /\ pc' = "waiting" /\ turn' = NoTurn /\ tasks' = NoTasks /\ UNCHANGED <<made, turns>>
      /\ crossed' = (IF Busy THEN crossed \cup {turn.n} ELSE crossed) /\ mixed' = FALSE /\ answered' = 0
  BY DEF Boot
<1>5. TurnTypes'
  <2>1. tasks' \in TaskTables /\ DOMAIN tasks' = {}
    BY <1>4, TablesMade DEF ChatTypes, TurnTypes
  <2> QED BY <1>4, <2>1, NoTurnTyped DEF ChatTypes, TurnTypes
<1>6. /\ Grows(disk, disk') /\ current' \in 1..Len(disk')
      /\ transcript' = carried' \o disk'[current'].log /\ carried' \in Seq(Texts)
  <2>1. CASE latest \in Resumed(disk)
    <3>1. /\ current' = latest /\ disk' = disk /\ carried' = <<>> /\ transcript' = disk[latest].log
      BY <1>1, <2>1
    <3> QED BY <1>0, <1>2, <1>3, <3>1, GrowsByOne, NothingAdded
  <2>2. CASE latest \notin Resumed(disk)
    <3>1. /\ current' = Len(disk) + 1 /\ disk' = Append(disk, NewDirectory)
          /\ carried' = disk[latest].log /\ transcript' = disk[latest].log
      BY <1>1, <2>2
    <3>2. /\ Grows(disk, disk') /\ Len(disk') = Len(disk) + 1 /\ disk'[current'].log = <<>>
      BY <1>0, <3>1, GrowsByOne
    <3> QED BY <1>0, <1>3, <3>1, <3>2, NothingAdded
  <2> QED BY <2>1, <2>2
<1>7. history' = Newest(transcript', MaxHistory)
  BY <1>1
<1> QED BY <1>4, <1>5, <1>6, <1>7 DEF Changes

\* The user asks for a new session or for another one.
LEMMA ChangeShape ==
  ASSUME ChatTypes, NewSession \/ \E s \in DOMAIN disk : Activate(s)
  PROVE  Changes /\ TurnTypes'
<1>0. disk \in Seq(Directory) /\ DOMAIN disk = 1..Len(disk) /\ Len(disk) \in Nat /\ SameLogs(disk, disk)
  BY DiskTyped, WritesKeepLogs DEF ChatTypes, TalkTypes
<1>1. /\ UNCHANGED <<made, turns, pc, turn>> /\ tasks' = NoTasks
      /\ crossed' = (IF Busy THEN crossed \cup {turn.n} ELSE crossed)
      /\ mixed' = FALSE /\ answered' = 0 /\ carried' = <<>>
  BY DEF NewSession, Activate, ActivateSession, Unmixed
<1>2. TurnTypes'
  <2>1. tasks' \in TaskTables /\ DOMAIN tasks' = {}
    BY <1>1, TablesMade DEF ChatTypes, TurnTypes
  <2> QED BY <1>1, <2>1 DEF ChatTypes, TurnTypes
<1>3. CASE NewSession
  <2> DEFINE e == [disk EXCEPT ![current] = Ended(@, tasks)]
  <2>1. /\ disk' = Append(e, NewDirectory) /\ current' = Len(disk) + 1
        /\ transcript' = <<>> /\ history' = <<>>
    BY <1>3 DEF NewSession
  <2>2. SameLogs(disk, e)
    <3>1. current \in 1..Len(disk) /\ disk[current] \in Directory /\ tasks \in TaskTables
      BY <1>0, DiskTyped DEF ChatTypes, TurnTypes, TalkTypes
    <3>2. /\ Ended(disk[current], tasks) \in Directory
          /\ Ended(disk[current], tasks).log = disk[current].log
          /\ Ended(disk[current], tasks).dir = disk[current].dir
      BY <3>1, EndedTyped
    <3> QED BY <1>0, <3>1, <3>2, DirectoryReplaced
  <2> HIDE DEF e
  <2>3. Grows(disk, disk') /\ Len(disk') = Len(disk) + 1 /\ disk'[current'].log = <<>>
    BY <1>0, <2>1, <2>2, GrowsByOne
  <2>4. <<>> \in Seq(Texts) /\ <<>> \o <<>> = <<>> /\ Newest(<<>>, MaxHistory) = <<>>
    <3>1. <<>> \in Seq(Texts)
      OBVIOUS
    <3> QED BY <3>1, NothingAdded
  <2>5. transcript' = carried' \o disk'[current'].log /\ history' = Newest(transcript', MaxHistory)
    BY <1>1, <2>1, <2>3, <2>4
  <2> QED BY <1>0, <1>1, <1>2, <2>1, <2>3, <2>4, <2>5 DEF Changes
<1>4. ASSUME NEW s \in DOMAIN disk, Activate(s) PROVE Changes
  <2>1. /\ disk' = disk /\ current' = s /\ transcript' = disk[s].log
        /\ history' = Newest(disk[s].log, MaxHistory)
    BY <1>4 DEF Activate, ActivateSession
  <2>2. disk[s].log \in Seq(Texts)
    BY <1>0, <1>4, DiskTyped DEF Directory
  <2>3. Grows(disk, disk') /\ <<>> \in Seq(Texts) /\ <<>> \o disk[s].log = disk[s].log
    BY <1>0, <2>1, <2>2, GrowsByOne, NothingAdded
  <2> QED BY <1>0, <1>1, <1>4, <2>1, <2>3 DEF Changes
<1> QED BY <1>2, <1>3, <1>4

\* The user archives, restores or deletes a session, or the request fails.
LEMMA ManageShape ==
  ASSUME ChatTypes,
         NewSessionFails \/ (\E s \in DOMAIN disk : ManageSession(s)) \/ UNCHANGED chatVars
  PROVE  Manages /\ TurnTypes'
<1>0. disk \in Seq(Directory) /\ DOMAIN disk = 1..Len(disk) /\ Len(disk) \in Nat
  BY DiskTyped DEF ChatTypes, TalkTypes
<1>1. UNCHANGED <<made, turns, current, pc, turn, transcript, history, carried, crossed, mixed, answered>>
  BY DEF NewSessionFails, EndSessionFails, ManageSession, ArchiveSession, RestoreSession, DeleteSession,
         chatVars, sessionVars
<1>2. tasks' \in TaskTables /\ DOMAIN tasks' = DOMAIN tasks
  <2>0. tasks \in TaskTables
    BY DEF ChatTypes, TurnTypes
  <2>1. CASE NewSessionFails
    <3>1. tasks' = [t \in DOMAIN tasks |->
                      IF ActiveTasks(tasks) # {} /\ t = Min(ActiveTasks(tasks))
                      THEN [tasks[t] EXCEPT !.status = "complete"] ELSE tasks[t]]
      BY <2>1 DEF NewSessionFails, EndSessionFails
    <3>2. DOMAIN tasks \in SUBSET Nat /\ tasks \in [DOMAIN tasks -> TaskRecord]
      BY <2>0, TableIs
    <3>3. \A t \in DOMAIN tasks : [tasks[t] EXCEPT !.status = "complete"] \in TaskRecord
      BY <3>2 DEF TaskRecord
    <3>4. DOMAIN tasks' = DOMAIN tasks /\ tasks' \in [DOMAIN tasks -> TaskRecord]
      BY <3>1, <3>2, <3>3
    <3>5. ASSUME NEW us, us = tasks' PROVE us \in TaskTables
      BY <3>2, <3>4, <3>5, TableIs
    <3> QED BY <3>4, <3>5
  <2>2. CASE ~NewSessionFails
    BY <2>0, <2>2 DEF ManageSession, ArchiveSession, RestoreSession, DeleteSession, chatVars, sessionVars
  <2> QED BY <2>1, <2>2
<1>3. TurnTypes'
  BY <1>1, <1>2 DEF ChatTypes, TurnTypes
<1>4. CASE NewSessionFails \/ UNCHANGED chatVars
  <2>1. disk' = disk
    BY <1>4 DEF NewSessionFails, EndSessionFails, chatVars, sessionVars
  <2> QED BY <1>0, <1>1, <1>3, <2>1 DEF Manages
<1>5. ASSUME NEW s \in DOMAIN disk, ManageSession(s) PROVE Manages
  <2>0. disk[s] \in Directory
    BY <1>0, DiskTyped
  <2> DEFINE gone == [NewDirectory EXCEPT !.dir = "none", !.status = "ended"]
             as(status) == [disk[s] EXCEPT !.status = status]
  <2>1. PICK r \in {as("archived"), as("active"), gone} : disk' = [disk EXCEPT ![s] = r]
    <3>1. /\ [disk EXCEPT ![s].status = "archived"] = [disk EXCEPT ![s] = as("archived")]
          /\ [disk EXCEPT ![s].status = "active"] = [disk EXCEPT ![s] = as("active")]
      OBVIOUS
    <3> HIDE DEF as
    <3> QED BY <1>5, <3>1 DEF ManageSession, ArchiveSession, RestoreSession, DeleteSession
  <2>2. r \in Directory /\ (r.dir = "full" => disk[s].dir = "full" /\ r.log = disk[s].log)
    <3>1. gone \in Directory /\ gone.dir = "none"
      BY NewDirectoryTyped DEF Directory, NewDirectory
    <3>2. \A status \in {"archived", "active"} :
            as(status) \in Directory /\ as(status).dir = disk[s].dir /\ as(status).log = disk[s].log
      BY <2>0 DEF Directory
    <3> HIDE DEF gone, as
    <3> QED BY <2>1, <3>1, <3>2
  <2>3. /\ disk' \in Seq(Directory) /\ Len(disk') = Len(disk)
        /\ \A j \in 1..Len(disk) : disk'[j] = IF j = s THEN r ELSE disk[j]
    BY <1>0, <2>1, <2>2, ExceptSeq
  <2> QED BY <1>0, <1>1, <2>2, <2>3 DEF Manages
<1> QED BY <1>3, <1>4, <1>5

\* At the start there is one new session.
LEMMA ChatInitially == ChatInit => ChatTypes /\ Len(disk) = 1 /\ disk[1].log = <<>>
<1> SUFFICES ASSUME ChatInit PROVE ChatTypes /\ Len(disk) = 1 /\ disk[1].log = <<>>
  OBVIOUS
<1>1. disk \in Seq(Directory) /\ Len(disk) = 1 /\ disk[1] = NewDirectory
  <2>1. \A r \in Directory : <<r>> \in Seq(Directory) /\ Len(<<r>>) = 1 /\ <<r>>[1] = r
    OBVIOUS
  <2> QED BY <2>1, NewDirectoryTyped DEF ChatInit
<1>2. NoTasks \in TaskTables /\ DOMAIN NoTasks = {}
  <2>1. DOMAIN NoTasks = {} /\ NoTasks \in [{} -> TaskRecord]
    BY DEF NoTasks
  <2> QED BY <2>1, TableIs
<1>3. <<>> \in Seq(Texts) /\ NewDirectory.log = <<>>
  BY DEF NewDirectory
<1> QED BY <1>1, <1>2, <1>3, NoTurnTyped DEF ChatInit, ChatTypes, TurnTypes, TalkTypes

\* Every step keeps the types and has one of the shapes.
LEMMA ChatStepShape ==
  ASSUME ChatTypes, [ChatNext]_chatVars
  PROVE  ChatTypes' /\ (LoopShape \/ Changes \/ Manages)
<1>1. CASE LoopStep \/ \E kind \in UNION Range(Kinds) : Begin(kind)
  BY <1>1, LoopStepShape, LoopShapeTyped
<1>2. ASSUME Changes, TurnTypes' PROVE ChatTypes'
  <2>1. disk' \in Seq(Directory) /\ current' \in 1..Len(disk') /\ carried' \in Seq(Texts)
    BY <1>2 DEF Changes, Grows
  <2>2. disk'[current'].log \in Seq(Texts)
    BY <2>1, DiskTyped DEF Directory
  <2>3. transcript' \in Seq(Texts)
    BY <1>2, <2>1, <2>2, ConcatProperties DEF Changes
  <2>4. history' \in Seq(Texts)
    BY <1>2, <2>3, CutTyped DEF Changes
  <2> QED BY <1>2, <2>1, <2>3, <2>4 DEF ChatTypes, TalkTypes
<1>3. CASE Boot
  BY <1>2, <1>3, BootShape
<1>4. CASE NewSession \/ \E s \in DOMAIN disk : Activate(s)
  BY <1>2, <1>4, ChangeShape
<1>5. CASE NewSessionFails \/ (\E s \in DOMAIN disk : ManageSession(s)) \/ UNCHANGED chatVars
  <2>1. Manages /\ TurnTypes'
    BY <1>5, ManageShape
  <2>2. TalkTypes'
    BY <2>1 DEF Manages, ChatTypes, TalkTypes
  <2> QED BY <2>1, <2>2 DEF ChatTypes
<1> QED BY <1>1, <1>3, <1>4, <1>5 DEF ChatNext

-----------------------------------------------------------------------------
(* The transcript *)

LogInv == ChatTypes /\ TranscriptIsTheLog

\* The transcript stays the log, with what was carried over before it.
LEMMA LogStep == LogInv /\ [ChatNext]_chatVars => LogInv'
<1> SUFFICES ASSUME LogInv, [ChatNext]_chatVars PROVE LogInv'
  OBVIOUS
<1>0. /\ ChatTypes /\ ChatTypes' /\ (LoopShape \/ Changes \/ Manages) /\ TalkTypes
      /\ DOMAIN disk = 1..Len(disk) /\ DOMAIN disk' = 1..Len(disk')
  BY ChatStepShape DEF LogInv, ChatTypes, TalkTypes
<1>1. SUFFICES ASSUME Full(disk', current') PROVE transcript' = carried' \o disk'[current'].log
  BY <1>0 DEF LogInv, TranscriptIsTheLog
<1>2. CASE LoopShape
  <2>1. CASE Silent
    <3>1. UNCHANGED <<current, carried, transcript>> /\ SameLogs(disk, disk')
      BY <1>2, <2>1 DEF LoopShape, Silent
    <3>2. Full(disk, current) /\ disk'[current].log = disk[current].log
      BY <1>0, <1>1, <3>1 DEF SameLogs, Full, TalkTypes
    <3> QED BY <3>1, <3>2 DEF LogInv, TranscriptIsTheLog
  <2>2. ASSUME NEW m \in Texts, Said(m) PROVE transcript' = carried' \o disk'[current'].log
    <3>1. UNCHANGED <<current, carried>>
      BY <1>2 DEF LoopShape
    <3>2. /\ transcript' = Append(transcript, m) /\ Len(disk') = Len(disk)
          /\ \A s \in 1..Len(disk) : disk'[s].dir = "full" <=> disk[s].dir = "full"
          /\ Full(disk, current) => disk'[current].log = Append(disk[current].log, m)
      BY <1>0, <2>2, <3>1, SaidTyped
    <3>3. Full(disk, current)
      BY <1>0, <1>1, <3>1, <3>2 DEF Full, TalkTypes
    <3>4. disk[current].log \in Seq(Texts) /\ carried \in Seq(Texts)
      BY <1>0, DiskTyped DEF TalkTypes, Directory
    <3>5. transcript = carried \o disk[current].log
      BY <3>3 DEF LogInv, TranscriptIsTheLog
    <3>6. Append(carried \o disk[current].log, m) = carried \o Append(disk[current].log, m)
      <4>1. PICK c \in Seq(Texts), l \in Seq(Texts) : c = carried /\ l = disk[current].log
        BY <3>4
      <4>2. c \o l \in Seq(Texts) /\ <<m>> \in Seq(Texts)
        BY <2>2, ConcatProperties
      <4>3. Append(c \o l, m) = (c \o l) \o <<m>> /\ Append(l, m) = l \o <<m>>
        BY <2>2, <4>2, AppendIsConcat
      <4>4. (c \o l) \o <<m>> = c \o (l \o <<m>>)
        BY <4>2, ConcatAssociative
      <4>5. Append(c \o l, m) = c \o Append(l, m)
        BY <4>3, <4>4
      <4> QED BY <4>1, <4>5
    <3> QED BY <3>1, <3>2, <3>3, <3>5, <3>6
  <2>3. Message("user") \in Texts /\ Message("reply") \in Texts /\ Marker \in Texts
    BY <1>0, MessagesTyped DEF ChatTypes, TurnTypes
  <2> QED BY <1>2, <2>1, <2>2, <2>3
            DEF LoopShape, Rests, GoesOn, Summarises, Marks, Questions, Concludes, Compacts
<1>3. CASE Changes
  BY <1>3 DEF Changes
<1>4. CASE Manages
  <2>1. UNCHANGED <<current, carried, transcript>>
    BY <1>4 DEF Manages
  <2>2. Full(disk, current) /\ disk'[current].log = disk[current].log
    BY <1>0, <1>1, <1>4, <2>1 DEF Manages, Full
  <2> QED BY <2>1, <2>2 DEF LogInv, TranscriptIsTheLog
<1> QED BY <1>0, <1>2, <1>3, <1>4

\* What the browser is shown is what the session's log holds, whatever sessions are
\* started, activated and deleted and whatever restarts come between two awaits.
THEOREM TranscriptsAreLogs == ChatSpec => []TranscriptIsTheLog
<1>1. ChatInit => LogInv
  <2> SUFFICES ASSUME ChatInit PROVE LogInv
    OBVIOUS
  <2>1. ChatTypes /\ transcript = <<>> /\ carried = <<>> /\ disk[current].log = <<>>
    BY ChatInitially DEF ChatInit
  <2>2. <<>> \o <<>> = <<>>
    BY <2>1, NothingAdded DEF ChatTypes, TalkTypes
  <2> QED BY <2>1, <2>2 DEF LogInv, TranscriptIsTheLog
<1>2. LogInv => TranscriptIsTheLog
  BY DEF LogInv
<1> QED BY <1>1, <1>2, LogStep, PTL DEF ChatSpec

-----------------------------------------------------------------------------
(* Replies and their questions *)

\* In a log, every reply of a turn that was not crossed has its question before it.
AllAsked(l, C) ==
  \A i \in 1..Len(l) : l[i].role = "reply" /\ l[i].turn \notin C =>
    \E j \in 1..(i - 1) : l[j].role = "user" /\ l[j].turn = l[i].turn

Asked(l, n) == \E j \in 1..Len(l) : l[j].role = "user" /\ l[j].turn = n

\* While a turn that nothing has crossed is between its question and its reply, the
\* current log has the question.
AskedInv ==
  /\ ChatTypes
  /\ \A s \in 1..Len(disk) : disk[s].dir = "full" => AllAsked(disk[s].log, crossed)
  /\ pc \in Replying /\ turn.n \notin crossed /\ Full(disk, current) =>
       Asked(disk[current].log, turn.n)

\* A message more: nothing is lost, and a reply needs its question.
LEMMA AskedAppend ==
  ASSUME NEW l \in Seq(Texts), NEW m \in Texts, NEW C, AllAsked(l, C),
         m.role = "reply" /\ m.turn \notin C => Asked(l, m.turn)
  PROVE  AllAsked(Append(l, m), C)
<1>1. /\ Len(Append(l, m)) = Len(l) + 1 /\ Len(l) \in Nat
      /\ \A i \in 1..Len(l) : Append(l, m)[i] = l[i]
      /\ Append(l, m)[Len(l) + 1] = m
  BY AppendProperties, LenProperties
<1> SUFFICES ASSUME NEW i \in 1..(Len(l) + 1), Append(l, m)[i].role = "reply",
                    Append(l, m)[i].turn \notin C
             PROVE  \E j \in 1..(i - 1) : /\ Append(l, m)[j].role = "user"
                                          /\ Append(l, m)[j].turn = Append(l, m)[i].turn
  BY <1>1 DEF AllAsked
<1>2. CASE i = Len(l) + 1
  <2>1. PICK j \in 1..Len(l) : l[j].role = "user" /\ l[j].turn = m.turn
    BY <1>1, <1>2 DEF Asked
  <2> QED BY <1>1, <1>2, <2>1
<1>3. CASE i # Len(l) + 1
  <2>1. i \in 1..Len(l) /\ Append(l, m)[i] = l[i]
    BY <1>1, <1>3
  <2>2. PICK j \in 1..(i - 1) : l[j].role = "user" /\ l[j].turn = l[i].turn
    BY <2>1 DEF AllAsked
  <2>3. j \in 1..Len(l)
    BY <1>1, <2>1, <2>2
  <2> QED BY <1>1, <2>1, <2>2, <2>3
<1> QED BY <1>2, <1>3

\* The question of a message stays, and a message of the user's is a question.
LEMMA AskedStays ==
  ASSUME NEW l \in Seq(Texts), NEW m \in Texts
  PROVE  /\ \A n : Asked(l, n) => Asked(Append(l, m), n)
         /\ m.role = "user" => Asked(Append(l, m), m.turn)
<1>1. /\ Len(Append(l, m)) = Len(l) + 1 /\ Len(l) \in Nat
      /\ \A i \in 1..Len(l) : Append(l, m)[i] = l[i]
      /\ Append(l, m)[Len(l) + 1] = m
  BY AppendProperties, LenProperties
<1> QED BY <1>1 DEF Asked

\* More crossed turns, fewer replies that need a question.
LEMMA AskedCrossed ==
  ASSUME NEW l, NEW C, NEW D, C \subseteq D, AllAsked(l, C)
  PROVE  AllAsked(l, D)
BY DEF AllAsked

\* Every step of the chat keeps replies after their questions.
LEMMA AskedStep == AskedInv /\ [ChatNext]_chatVars => AskedInv'
<1> SUFFICES ASSUME AskedInv, [ChatNext]_chatVars PROVE AskedInv'
  OBVIOUS
<1>0. /\ ChatTypes /\ ChatTypes' /\ (LoopShape \/ Changes \/ Manages) /\ TalkTypes /\ turn \in Turns
      /\ DOMAIN disk = 1..Len(disk) /\ DOMAIN disk' = 1..Len(disk')
      /\ \A s \in 1..Len(disk) : disk[s] \in Directory /\ disk[s].log \in Seq(Texts)
  BY ChatStepShape, DiskTyped DEF AskedInv, ChatTypes, TalkTypes, TurnTypes, Directory
<1>1. CASE LoopShape
  <2>0. UNCHANGED <<current, crossed>> /\ current \in 1..Len(disk)
    BY <1>0, <1>1 DEF LoopShape, TalkTypes
  <2>1. CASE Rests \/ GoesOn \/ Summarises \/ Compacts
    <3>0. Silent
      BY <2>1 DEF Rests, GoesOn, Summarises, Compacts
    <3>1. \A s \in 1..Len(disk') : disk'[s].dir = "full" => AllAsked(disk'[s].log, crossed')
      BY <2>0, <3>0 DEF Silent, SameLogs, AskedInv
    <3>2. pc' \in Replying => pc \in Replying /\ turn'.n = turn.n
      BY <2>1 DEF Rests, GoesOn, Summarises, Compacts, Replying
    <3>3. ASSUME pc' \in Replying, turn'.n \notin crossed', Full(disk', current')
          PROVE  Asked(disk'[current'].log, turn'.n)
      <4>1. pc \in Replying /\ turn'.n = turn.n
        BY <3>2, <3>3
      <4>2. Full(disk, current) /\ disk'[current].log = disk[current].log
        BY <1>0, <2>0, <3>0, <3>3 DEF Silent, SameLogs, Full
      <4> QED BY <2>0, <3>3, <4>1, <4>2 DEF AskedInv
    <3> QED BY <1>0, <3>1, <3>3 DEF AskedInv
  <2>2. ASSUME NEW m \in Texts, Said(m),
               m.role = "reply" /\ m.turn \notin crossed /\ Full(disk, current) =>
                 Asked(disk[current].log, m.turn),
               pc' \notin Replying \/ (m.role = "user" /\ turn'.n = m.turn)
        PROVE  AskedInv'
    <3>1. /\ Len(disk') = Len(disk)
          /\ \A s \in 1..Len(disk) : disk'[s].dir = "full" <=> disk[s].dir = "full"
          /\ \A s \in 1..Len(disk) \ {current} : disk'[s].log = disk[s].log
          /\ Full(disk, current) => disk'[current].log = Append(disk[current].log, m)
      BY <1>0, <2>0, <2>2, SaidTyped
    <3>2. ASSUME NEW s \in 1..Len(disk), disk'[s].dir = "full" PROVE AllAsked(disk'[s].log, crossed)
      <4>1. disk[s].dir = "full" /\ AllAsked(disk[s].log, crossed)
        BY <3>1, <3>2 DEF AskedInv
      <4>2. CASE s # current
        BY <3>1, <4>1, <4>2
      <4>3. CASE s = current
        <5>1. Full(disk, current) /\ disk'[s].log = Append(disk[s].log, m)
          BY <1>0, <3>1, <4>1, <4>3 DEF Full
        <5>2. AllAsked(Append(disk[s].log, m), crossed)
          BY <1>0, <2>2, <4>1, <4>3, <5>1, AskedAppend
        <5> QED BY <5>1, <5>2
      <4> QED BY <4>2, <4>3
    <3>3. ASSUME pc' \in Replying, Full(disk', current') PROVE Asked(disk'[current'].log, turn'.n)
      <4>1. m.role = "user" /\ turn'.n = m.turn
        BY <2>2, <3>3
      <4>2. Full(disk, current)
        BY <1>0, <2>0, <3>1, <3>3 DEF Full
      <4> QED BY <1>0, <2>0, <3>1, <4>1, <4>2, AskedStays
    <3> QED BY <1>0, <2>0, <3>1, <3>2, <3>3 DEF AskedInv
  <2>3. /\ Message("user") \in Texts /\ Message("reply") \in Texts /\ Marker \in Texts
        /\ Message("user").role = "user" /\ Message("user").turn = turn.n
        /\ Message("reply").role = "reply" /\ Message("reply").turn = turn.n
        /\ Marker.role = "marker"
    BY <1>0, MessagesTyped DEF Message, Marker
  <2>4. CASE Marks
    BY <2>2, <2>3, <2>4 DEF Marks
  <2>5. CASE Questions
    BY <2>2, <2>3, <2>5 DEF Questions
  <2>6. CASE Concludes
    BY <2>2, <2>3, <2>6 DEF Concludes, AskedInv
  <2> QED BY <1>1, <2>1, <2>4, <2>5, <2>6 DEF LoopShape
<1>2. CASE Changes
  <2>1. ASSUME NEW s \in 1..Len(disk'), disk'[s].dir = "full" PROVE AllAsked(disk'[s].log, crossed')
    <3>1. crossed \subseteq crossed'
      BY <1>2 DEF Changes
    <3>2. CASE s \in 1..Len(disk)
      <4>1. disk'[s].log = disk[s].log /\ disk[s].dir = "full"
        BY <1>2, <2>1, <3>2 DEF Changes, Grows
      <4> QED BY <3>1, <3>2, <4>1, AskedCrossed DEF AskedInv
    <3>3. CASE s \notin 1..Len(disk)
      <4>1. Len(disk) \in Nat /\ Len(disk') \in Nat
        BY <1>0, LenProperties DEF ChatTypes, TalkTypes
      <4>2. disk'[s].log = <<>>
        <5>1. s > Len(disk) /\ Grows(disk, disk')
          BY <1>2, <3>3, <4>1 DEF Changes
        <5> QED BY <5>1 DEF Grows
      <4>3. Len(<<>>) = 0
        OBVIOUS
      <4> QED BY <4>2, <4>3 DEF AllAsked
    <3> QED BY <3>2, <3>3
  <2>2. ~(pc' \in Replying /\ turn'.n \notin crossed')
    BY <1>2 DEF Changes, Busy, Replying
  <2> QED BY <1>0, <2>1, <2>2 DEF AskedInv
<1>3. CASE Manages
  <2>0. UNCHANGED <<current, pc, turn, crossed>> /\ Len(disk') = Len(disk) /\ current \in 1..Len(disk)
    BY <1>0, <1>3 DEF Manages, TalkTypes
  <2>1. \A s \in 1..Len(disk) : disk'[s].dir = "full" => AllAsked(disk'[s].log, crossed)
    BY <1>3 DEF Manages, AskedInv
  <2>2. ASSUME pc \in Replying, turn.n \notin crossed, Full(disk', current)
        PROVE  Asked(disk'[current].log, turn.n)
    BY <1>0, <1>3, <2>0, <2>2 DEF Manages, AskedInv, Full
  <2> QED BY <1>0, <2>0, <2>1, <2>2 DEF AskedInv
<1> QED BY <1>0, <1>1, <1>2, <1>3

\* No log ever holds the reply of an uncrossed turn without its question before it.
THEOREM RepliesFollowQuestions == ChatSpec => []ReplyFollowsQuestion
<1>1. ChatInit => AskedInv
  <2> SUFFICES ASSUME ChatInit PROVE AskedInv
    OBVIOUS
  <2>1. ChatTypes /\ Len(disk) = 1 /\ disk[1].log = <<>> /\ pc = "waiting" /\ Len(<<>>) = 0
    BY ChatInitially DEF ChatInit
  <2>2. \A s \in 1..Len(disk) : s = 1
    BY <2>1
  <2>3. AllAsked(<<>>, crossed)
    BY <2>1 DEF AllAsked
  <2> QED BY <2>1, <2>2, <2>3 DEF AskedInv, Replying
<1>2. AskedInv => ReplyFollowsQuestion
  <2> SUFFICES ASSUME AskedInv, NEW s \in DOMAIN disk, Full(disk, s), NEW i \in DOMAIN disk[s].log,
                      disk[s].log[i].role = "reply", disk[s].log[i].turn \notin crossed
               PROVE  \E j \in 1..(i - 1) : /\ disk[s].log[j].role = "user"
                                            /\ disk[s].log[j].turn = disk[s].log[i].turn
    BY DEF ReplyFollowsQuestion
  <2>1. s \in 1..Len(disk) /\ disk[s] \in Directory /\ disk[s].dir = "full"
    BY DiskTyped DEF AskedInv, ChatTypes, TalkTypes, Full
  <2>2. i \in 1..Len(disk[s].log)
    BY <2>1, LenProperties DEF Directory
  <2> QED BY <2>1, <2>2 DEF AskedInv, AllAsked
<1> QED BY <1>1, <1>2, AskedStep, PTL DEF ChatSpec

-----------------------------------------------------------------------------
(* The history and the transcript *)

Holds(l, m) == \E j \in 1..Len(l) : l[j] = m

\* But for notes, the messages of h are messages of l.
Within(h, l) == \A i \in 1..Len(h) : h[i].role # "note" => Holds(l, h[i])

\* While nothing crosses a turn, its question is shown and what its compaction keeps is.
HistoryInv ==
  /\ ChatTypes
  /\ ~mixed => Within(history, transcript)
  /\ pc \in Replying /\ turn.n \notin crossed => Holds(transcript, Message("user"))
  /\ pc = "summarising" /\ turn.n \notin crossed /\ ~mixed => Within(turn.kept, transcript)

\* A longer transcript holds what it held, and the new message.
LEMMA HoldsAppend ==
  ASSUME NEW l \in Seq(Texts), NEW m \in Texts
  PROVE  /\ \A x : Holds(l, x) => Holds(Append(l, m), x)
         /\ Holds(Append(l, m), m)
         /\ \A h : Within(h, l) => Within(h, Append(l, m))
<1>1. /\ Len(Append(l, m)) = Len(l) + 1 /\ Len(l) \in Nat
      /\ \A i \in 1..Len(l) : Append(l, m)[i] = l[i]
      /\ Append(l, m)[Len(l) + 1] = m
  BY AppendProperties, LenProperties
<1>2. (\A x : Holds(l, x) => Holds(Append(l, m), x)) /\ Holds(Append(l, m), m)
  BY <1>1 DEF Holds
<1> QED BY <1>2 DEF Within

\* Two histories within a transcript make one, and so does its newest part.
LEMMA WithinParts ==
  ASSUME NEW l, NEW g \in Seq(Texts), NEW h \in Seq(Texts)
  PROVE  /\ Within(g, l) /\ Within(h, l) => Within(g \o h, l)
         /\ Within(h, l) => Within(Newest(h, MaxHistory), l)
         /\ Within(h, h)
<1>0. MaxHistory \in Nat /\ Len(g) \in Nat /\ Len(h) \in Nat
  BY ChatConstants, LenProperties
<1>1. ASSUME Within(g, l), Within(h, l), NEW i \in 1..Len(g \o h), (g \o h)[i].role # "note"
      PROVE  Holds(l, (g \o h)[i])
  <2>1. /\ Len(g \o h) = Len(g) + Len(h)
        /\ \A k \in 1..(Len(g) + Len(h)) : (g \o h)[k] = IF k <= Len(g) THEN g[k] ELSE h[k - Len(g)]
    BY ConcatProperties
  <2>2. CASE i <= Len(g)
    <3>1. i \in 1..Len(g) /\ (g \o h)[i] = g[i]
      BY <1>0, <2>1, <2>2
    <3> QED BY <1>1, <3>1 DEF Within
  <2>3. CASE ~(i <= Len(g))
    <3>1. i - Len(g) \in 1..Len(h) /\ (g \o h)[i] = h[i - Len(g)]
      BY <1>0, <2>1, <2>3
    <3> QED BY <1>1, <3>1 DEF Within
  <2> QED BY <2>2, <2>3
<1>2. ASSUME Within(h, l), NEW i \in 1..Len(Newest(h, MaxHistory)), Newest(h, MaxHistory)[i].role # "note"
      PROVE  Holds(l, Newest(h, MaxHistory)[i])
  <2>1. \E j \in 1..Len(h) : Newest(h, MaxHistory)[i] = h[j]
    BY <1>0, NewestProperties
  <2> QED BY <1>2, <2>1 DEF Within
<1>3. Within(h, h)
  BY DEF Within, Holds
<1> QED BY <1>1, <1>2, <1>3 DEF Within

\* Every step keeps the history within the transcript.
LEMMA HistoryStep == HistoryInv /\ [ChatNext]_chatVars => HistoryInv'
<1> SUFFICES ASSUME HistoryInv, [ChatNext]_chatVars PROVE HistoryInv'
  OBVIOUS
<1>0. /\ ChatTypes /\ ChatTypes' /\ (LoopShape \/ Changes \/ Manages)
      /\ transcript \in Seq(Texts) /\ history \in Seq(Texts) /\ transcript' \in Seq(Texts)
      /\ turn.kept \in Seq(Texts) /\ turn \in Turns
      /\ Message("user") \in Texts /\ Message("reply") \in Texts /\ Marker \in Texts /\ Note \in Texts
  BY ChatStepShape, MessagesTyped DEF HistoryInv, ChatTypes, TalkTypes, TurnTypes, Turns
<1>1. CASE LoopShape
  <2>0. crossed' = crossed
    BY <1>1 DEF LoopShape
  <2>1. CASE Rests
    BY <1>0, <2>0, <2>1 DEF Rests, Silent, KeepsHistory, HistoryInv, Replying
  <2>2. CASE GoesOn
    <3>1. Message("user")' = Message("user")
      BY <2>2 DEF GoesOn, Message
    <3> QED BY <1>0, <2>0, <2>2, <3>1 DEF GoesOn, Silent, KeepsHistory, HistoryInv
  <2>3. CASE Summarises
    <3>1. Message("user")' = Message("user")
      BY <2>3 DEF Summarises, Message
    <3>2. ASSUME ~mixed PROVE Within(KeptHistory, transcript)
      <4>1. Within(history, transcript)
        BY <3>2 DEF HistoryInv
      <4> QED BY <1>0, <4>1, KeptIsHistory DEF Within
    <3> QED BY <1>0, <2>0, <2>3, <3>1, <3>2 DEF Summarises, Silent, KeepsHistory, HistoryInv
  <2>4. CASE Marks
    <3>1. transcript' = Append(transcript, Marker) /\ KeepsHistory /\ pc' \notin Replying
      BY <2>4 DEF Marks, Said
    <3>2. ~mixed => Within(history, Append(transcript, Marker))
      BY <1>0, HoldsAppend DEF HistoryInv
    <3> QED BY <1>0, <3>1, <3>2 DEF HistoryInv, KeepsHistory, Replying
  <2>5. CASE Questions
    <3>1. /\ transcript' = Append(transcript, Message("user")) /\ KeepsHistory /\ turn' = turn
          /\ pc' # "summarising"
      BY <2>5 DEF Questions, Said, Replying
    <3>2. /\ ~mixed => Within(history, Append(transcript, Message("user")))
          /\ Holds(Append(transcript, Message("user")), Message("user"))
      BY <1>0, HoldsAppend DEF HistoryInv
    <3>3. Message("user")' = Message("user")
      BY <3>1 DEF Message
    <3> QED BY <1>0, <3>1, <3>2, <3>3 DEF HistoryInv, KeepsHistory
  <2>6. CASE Concludes
    <3>1. /\ transcript' = Append(transcript, Message("reply")) /\ pc \in Replying /\ pc' \notin Replying
          /\ history' = Newest(history \o <<Message("user"), Message("reply")>>, MaxHistory)
          /\ mixed' = Mixes
      BY <2>6 DEF Concludes, Said
    <3>2. ASSUME ~mixed' PROVE Within(history', transcript')
      <4> DEFINE l == Append(transcript, Message("reply"))
                 two == <<Message("user"), Message("reply")>>
      <4>1. Within(history, transcript) /\ Holds(transcript, Message("user"))
        BY <3>1, <3>2 DEF Mixes, HistoryInv
      <4>2. Within(history, l) /\ Holds(l, Message("user")) /\ Holds(l, Message("reply"))
        BY <1>0, <4>1, HoldsAppend
      <4>3. two \in Seq(Texts) /\ Len(two) = 2 /\ two[1] = Message("user") /\ two[2] = Message("reply")
        BY <1>0
      <4> HIDE DEF l, two
      <4>4. Within(two, l)
        <5>1. \A i \in 1..Len(two) : i = 1 \/ i = 2
          BY <4>3
        <5> QED BY <4>2, <4>3, <5>1 DEF Within
      <4>5. Within(history \o two, l) /\ history \o two \in Seq(Texts)
        BY <1>0, <4>2, <4>3, <4>4, WithinParts, ConcatProperties
      <4>6. Within(Newest(history \o two, MaxHistory), l)
        BY <4>3, <4>5, WithinParts
      <4> QED BY <3>1, <4>6 DEF l, two
    <3> QED BY <1>0, <3>1, <3>2 DEF HistoryInv, Replying
  <2>7. CASE Compacts
    <3>1. /\ pc = "summarising" /\ pc' # "summarising" /\ UNCHANGED <<transcript, turn>>
          /\ history' = Newest(<<Note>> \o turn.kept, MaxHistory) /\ mixed' = Mixes
      BY <2>7 DEF Compacts, Silent
    <3>2. ASSUME ~mixed' PROVE Within(history', transcript)
      <4> DEFINE one == <<Note>>
      <4>1. Within(turn.kept, transcript)
        BY <3>1, <3>2 DEF Mixes, HistoryInv
      <4>2. one \in Seq(Texts) /\ Len(one) = 1 /\ one[1] = Note /\ Note.role = "note"
        BY <1>0 DEF Note
      <4> HIDE DEF one
      <4>3. Within(one, transcript)
        <5>1. \A i \in 1..Len(one) : i = 1
          BY <4>2
        <5> QED BY <4>2, <5>1 DEF Within
      <4>4. Within(one \o turn.kept, transcript) /\ one \o turn.kept \in Seq(Texts)
        BY <1>0, <4>1, <4>2, <4>3, WithinParts, ConcatProperties
      <4>5. Within(Newest(one \o turn.kept, MaxHistory), transcript)
        BY <4>2, <4>4, WithinParts
      <4> QED BY <3>1, <4>5 DEF one
    <3>3. Message("user")' = Message("user")
      BY <3>1 DEF Message
    <3> QED BY <1>0, <2>0, <3>1, <3>2, <3>3 DEF HistoryInv, Replying
  <2> QED BY <1>1, <2>1, <2>2, <2>3, <2>4, <2>5, <2>6, <2>7 DEF LoopShape
<1>2. CASE Changes
  <2>1. Within(transcript', transcript')
    BY <1>0, WithinParts
  <2>2. Within(history', transcript')
    <3>1. ASSUME NEW l \in Seq(Texts), l = transcript' PROVE Within(Newest(l, MaxHistory), l)
      BY <3>1, WithinParts
    <3>2. Within(Newest(transcript', MaxHistory), transcript')
      BY <1>0, <3>1
    <3> QED BY <1>2, <3>2 DEF Changes
  <2>3. ~(pc' \in Replying /\ turn'.n \notin crossed')
    BY <1>2 DEF Changes, Busy, Replying
  <2> QED BY <1>0, <2>2, <2>3 DEF HistoryInv, Replying
<1>3. CASE Manages
  <2>1. UNCHANGED <<pc, turn, transcript, history, crossed, mixed>>
    BY <1>3 DEF Manages
  <2>2. Message("user")' = Message("user")
    BY <2>1 DEF Message
  <2> QED BY <1>0, <2>1, <2>2 DEF HistoryInv
<1> QED BY <1>0, <1>1, <1>2, <1>3

\* The history a prompt is built from is what the session's transcript shows, unless a
\* turn that lost its session has written to it.
THEOREM HistoryIsTheSessions == ChatSpec => []HistoryStaysInSession
<1>1. ChatInit => HistoryInv
  <2> SUFFICES ASSUME ChatInit PROVE HistoryInv
    OBVIOUS
  <2>1. ChatTypes /\ history = <<>> /\ pc = "waiting" /\ Len(<<>>) = 0
    BY ChatInitially DEF ChatInit
  <2>2. Within(<<>>, transcript)
    BY <2>1 DEF Within
  <2> QED BY <2>1, <2>2 DEF HistoryInv, Replying
<1>2. HistoryInv => HistoryStaysInSession
  <2> SUFFICES ASSUME HistoryInv, ~mixed, NEW i \in DOMAIN history, history[i].role # "note"
               PROVE  \E j \in DOMAIN transcript : transcript[j] = history[i]
    BY DEF HistoryStaysInSession
  <2>1. DOMAIN history = 1..Len(history) /\ DOMAIN transcript = 1..Len(transcript)
    BY LenProperties DEF HistoryInv, ChatTypes, TalkTypes
  <2> QED BY <2>1 DEF HistoryInv, Within, Holds
<1> QED BY <1>1, <1>2, HistoryStep, PTL DEF ChatSpec

-----------------------------------------------------------------------------
(* The answered turn *)

\* The last two messages of h are the question and the reply of turn n.
EndsWith(h, n) ==
  /\ Len(h) >= 2
  /\ h[Len(h) - 1].turn = n /\ h[Len(h) - 1].role = "user"
  /\ h[Len(h)].turn = n /\ h[Len(h)].role = "reply"

\* The last answered turn ends the history, and what a compaction has kept of it.
MemoryInv ==
  /\ ChatTypes
  /\ answered # 0 /\ ~mixed => EndsWith(history, answered)
  /\ answered # 0 /\ ~mixed /\ pc = "summarising" => EndsWith(turn.kept, answered)

\* A longer history ends the same way, and so does its newest part.
LEMMA EndsParts ==
  ASSUME MaxHistory >= 2, NEW g \in Seq(Texts), NEW h \in Seq(Texts), NEW n, EndsWith(h, n)
  PROVE  EndsWith(g \o h, n) /\ EndsWith(Newest(h, MaxHistory), n)
<1>0. MaxHistory \in Nat /\ Len(g) \in Nat /\ Len(h) \in Nat /\ Len(h) >= 2
  BY ChatConstants, LenProperties DEF EndsWith
<1>1. EndsWith(g \o h, n)
  <2>1. /\ Len(g \o h) = Len(g) + Len(h)
        /\ \A k \in 1..(Len(g) + Len(h)) : (g \o h)[k] = IF k <= Len(g) THEN g[k] ELSE h[k - Len(g)]
    BY ConcatProperties
  <2>2. /\ (g \o h)[Len(g) + Len(h)] = h[Len(h)]
        /\ (g \o h)[Len(g) + Len(h) - 1] = h[Len(h) - 1]
    <3>1. ASSUME NEW k \in 1..Len(h) PROVE (g \o h)[Len(g) + k] = h[k]
      <4>1. Len(g) + k \in 1..(Len(g) + Len(h)) /\ ~(Len(g) + k <= Len(g)) /\ Len(g) + k - Len(g) = k
        BY <1>0
      <4> QED BY <2>1, <4>1
    <3>2. /\ Len(h) \in 1..Len(h) /\ Len(h) - 1 \in 1..Len(h)
          /\ Len(g) + (Len(h) - 1) = Len(g) + Len(h) - 1
      BY <1>0
    <3>3. (g \o h)[Len(g) + (Len(h) - 1)] = h[Len(h) - 1]
      BY <3>1, <3>2
    <3> QED BY <3>1, <3>2, <3>3
  <2>3. Len(g \o h) >= 2
    BY <1>0, <2>1
  <2> QED BY <2>1, <2>2, <2>3 DEF EndsWith
<1>2. EndsWith(Newest(h, MaxHistory), n)
  <2> DEFINE w == Newest(h, MaxHistory)
  <2>1. /\ Len(w) = IF Len(h) <= MaxHistory THEN Len(h) ELSE MaxHistory
        /\ \A i \in 1..Len(w) : w[i] = h[i + (Len(h) - Len(w))]
    BY <1>0, NewestProperties
  <2> HIDE DEF w
  <2>2. Len(w) >= 2 /\ Len(w) \in Nat
    BY <1>0, <2>1
  <2>3. /\ Len(w) \in 1..Len(w) /\ Len(w) - 1 \in 1..Len(w)
        /\ Len(w) + (Len(h) - Len(w)) = Len(h)
        /\ (Len(w) - 1) + (Len(h) - Len(w)) = Len(h) - 1
    BY <1>0, <2>2
  <2>4. w[Len(w)] = h[Len(h)] /\ w[Len(w) - 1] = h[Len(h) - 1]
    BY <2>1, <2>3
  <2>5. EndsWith(w, n)
    BY <2>2, <2>4 DEF EndsWith
  <2> QED BY <2>5 DEF w
<1> QED BY <1>1, <1>2

\* Every step keeps the answered turn at the end of the history.
LEMMA MemoryStep ==
  ASSUME RetainRecent >= 2, MaxHistory >= 2, MemoryInv, [ChatNext]_chatVars
  PROVE  MemoryInv'
<1>0. /\ ChatTypes /\ ChatTypes' /\ (LoopShape \/ Changes \/ Manages)
      /\ history \in Seq(Texts) /\ turn.kept \in Seq(Texts)
      /\ Message("user") \in Texts /\ Message("reply") \in Texts /\ Note \in Texts
  BY ChatStepShape, MessagesTyped DEF MemoryInv, ChatTypes, TalkTypes, TurnTypes, Turns
<1>1. CASE Rests \/ GoesOn \/ Marks \/ Questions
  <2>1. KeepsHistory /\ pc' # "summarising"
    BY <1>1 DEF Rests, GoesOn, Marks, Questions, Replying
  <2> QED BY <1>0, <2>1 DEF MemoryInv, KeepsHistory
<1>2. CASE Summarises
  <2>1. KeepsHistory /\ turn'.kept = KeptHistory
    BY <1>2 DEF Summarises
  <2>2. ASSUME answered # 0, ~mixed PROVE EndsWith(history, answered) /\ EndsWith(KeptHistory, answered)
    <3>1. EndsWith(history, answered)
      BY <2>2 DEF MemoryInv
    <3>2. /\ Len(KeptHistory) >= 2
          /\ KeptHistory[Len(KeptHistory)] = history[Len(history)]
          /\ KeptHistory[Len(KeptHistory) - 1] = history[Len(history) - 1]
      BY <1>0, <3>1, KeptIsHistory DEF EndsWith
    <3> QED BY <3>1, <3>2 DEF EndsWith
  <2> QED BY <1>0, <2>1, <2>2 DEF MemoryInv, KeepsHistory
<1>3. CASE Concludes
  <2>1. /\ pc' # "summarising" /\ mixed' = Mixes
        /\ history' = Newest(history \o <<Message("user"), Message("reply")>>, MaxHistory)
        /\ answered' = IF turn.n \in crossed THEN answered ELSE turn.n
    BY <1>3 DEF Concludes, Replying
  <2>2. ASSUME ~mixed' PROVE EndsWith(history', answered')
    <3> DEFINE two == <<Message("user"), Message("reply")>>
    <3>1. turn.n \notin crossed /\ answered' = turn.n
      BY <2>1, <2>2 DEF Mixes
    <3>2. two \in Seq(Texts) /\ Len(two) = 2 /\ two[1] = Message("user") /\ two[2] = Message("reply")
      BY <1>0
    <3>3. /\ Message("user").turn = turn.n /\ Message("user").role = "user"
          /\ Message("reply").turn = turn.n /\ Message("reply").role = "reply"
      BY DEF Message
    <3> HIDE DEF two
    <3>4. EndsWith(two, turn.n)
      BY <3>2, <3>3 DEF EndsWith
    <3>5. EndsWith(history \o two, turn.n) /\ history \o two \in Seq(Texts)
      BY <1>0, <3>2, <3>4, EndsParts, ConcatProperties
    <3>6. EndsWith(Newest(history \o two, MaxHistory), turn.n)
      BY <3>2, <3>5, EndsParts
    <3> QED BY <2>1, <3>1, <3>6 DEF two
  <2> QED BY <1>0, <2>1, <2>2 DEF MemoryInv
<1>4. CASE Compacts
  <2>1. /\ pc = "summarising" /\ pc' # "summarising" /\ answered' = answered /\ mixed' = Mixes
        /\ history' = Newest(<<Note>> \o turn.kept, MaxHistory)
    BY <1>4 DEF Compacts
  <2>2. ASSUME answered # 0, ~mixed' PROVE EndsWith(history', answered)
    <3> DEFINE one == <<Note>>
    <3>1. EndsWith(turn.kept, answered)
      BY <2>1, <2>2 DEF MemoryInv, Mixes
    <3>2. one \in Seq(Texts)
      BY <1>0
    <3> HIDE DEF one
    <3>3. EndsWith(one \o turn.kept, answered) /\ one \o turn.kept \in Seq(Texts)
      BY <1>0, <3>1, <3>2, EndsParts, ConcatProperties
    <3>4. EndsWith(Newest(one \o turn.kept, MaxHistory), answered)
      BY <3>2, <3>3, EndsParts
    <3> QED BY <2>1, <3>4 DEF one
  <2> QED BY <1>0, <2>1, <2>2 DEF MemoryInv
<1>5. CASE Changes
  BY <1>0, <1>5 DEF Changes, MemoryInv
<1>6. CASE Manages
  BY <1>0, <1>6 DEF Manages, MemoryInv
<1> QED BY <1>0, <1>1, <1>2, <1>3, <1>4, <1>5, <1>6 DEF LoopShape

\* When at least two messages survive a compaction and the bound of the history, as the
\* code's four and twelve do, the last answered question and its reply are remembered.
THEOREM AnsweredTurnsAreRemembered ==
  ASSUME RetainRecent >= 2, MaxHistory >= 2
  PROVE  ChatSpec => []AnsweredTurnIsRemembered
<1>1. ChatInit => MemoryInv
  BY ChatInitially DEF ChatInit, MemoryInv
<1>2. MemoryInv /\ [ChatNext]_chatVars => MemoryInv'
  BY MemoryStep
<1>3. MemoryInv => AnsweredTurnIsRemembered
  <2> SUFFICES ASSUME MemoryInv, answered # 0, ~mixed, NEW role \in {"user", "reply"}
               PROVE  \E i \in DOMAIN history : history[i].turn = answered /\ history[i].role = role
    BY DEF AnsweredTurnIsRemembered
  <2>1. EndsWith(history, answered)
    BY DEF MemoryInv
  <2>2. DOMAIN history = 1..Len(history) /\ Len(history) \in Nat
    BY LenProperties DEF MemoryInv, ChatTypes, TalkTypes
  <2>3. Len(history) \in DOMAIN history /\ Len(history) - 1 \in DOMAIN history
    BY <2>1, <2>2 DEF EndsWith
  <2> QED BY <2>1, <2>3 DEF EndsWith
<1> QED BY <1>1, <1>2, <1>3, PTL DEF ChatSpec

-----------------------------------------------------------------------------
(* The end of the loop *)

\* No failure within a turn ends the loop, whatever else happens between its awaits: what
\* ends it is a message it cannot take in, or a session that is gone.  The answer that
\* waits behind a warning is always one that Proceed knows.
THEOREM TurnsDoNotEndTheLoop == ChatSpec => LoopSurvivesItsTurns
<1>1. ASSUME ChatTypes, [ChatNext]_chatVars, pc # "dead", pc' = "dead"
      PROVE  ~Full(disk, current) \/ turn'.kind = "unfit"
  <2>1. pc' # pc
    BY <1>1
  <2>2. ~UNCHANGED chatVars /\ ~Boot /\ ~NewSession /\ ~NewSessionFails
    BY <1>1, <2>1 DEF chatVars, Boot, NewSession, NewSessionFails
  <2>3. ~\E s \in DOMAIN disk : Activate(s) \/ ManageSession(s)
    BY <2>1 DEF Activate, ManageSession
  <2>4. ASSUME NEW kind, Begin(kind) PROVE ~Full(disk, current) \/ turn'.kind = "unfit"
    <3>1. turn'.kind = kind
      BY <2>4 DEF Begin, NoTurn
    <3> QED BY <1>1, <2>4, <3>1 DEF Begin
  <2>5. ASSUME NEW d, Finish(d) PROVE FALSE
    BY <1>1, <2>5 DEF Finish
  <2>6. ASSUME NEW d, NextRound(d) PROVE FALSE
    BY <1>1, <2>5, <2>6 DEF NextRound
  <2>7. ASSUME NEW d, NEW reply \in {"text", "tool", "wrong"}, Proceed(reply, d) PROVE FALSE
    BY <1>1, <2>5, <2>6, <2>7 DEF Proceed
  <2>8. ASSUME LoopStep PROVE ~Full(disk, current)
    <3>1. CASE MarkResumed \/ RecordQuestion
      BY <1>1, <3>1 DEF MarkResumed, RecordQuestion, Writable, Full
    <3>2. ~AnswerInventory /\ ~LiftPause /\ ~CallFails /\ ~EndTurn /\ ~AskAfterCompaction
      BY <1>1, <2>5 DEF AnswerInventory, LiftPause, CallFails, EndTurn, AskAfterCompaction, Ask
    <3>3. ASSUME NEW mode, Consider(mode) PROVE FALSE
      BY <1>1, <3>3 DEF Consider, Ask
    <3>4. ASSUME NEW empty, Compact(empty) PROVE FALSE
      BY <1>1, <3>4 DEF Compact
    <3>5. ASSUME NEW reply \in {"text", "tool", "wrong"}, AnswerFree(reply) \/ Answer(reply) PROVE FALSE
      <4>1. CASE AnswerFree(reply)
        BY <2>7, <4>1 DEF AnswerFree
      <4>2. CASE Answer(reply)
        <5>1. pc' \in {"failing", "warning"} \/ \E d : Proceed(reply, d)
          BY <4>2 DEF Answer
        <5> QED BY <1>1, <2>7, <5>1
      <4> QED BY <3>5, <4>1, <4>2
    <3>6. ~ToolAnswered
      BY <1>1, <2>6 DEF ToolAnswered
    <3>7. AfterWarning => FALSE
      BY <1>1, <2>7 DEF AfterWarning, ChatTypes, TurnTypes
    <3> QED BY <2>8, <3>1, <3>2, <3>3, <3>4, <3>5, <3>6, <3>7 DEF LoopStep
  <2> QED BY <1>1, <2>2, <2>3, <2>4, <2>8 DEF ChatNext
<1>2. ChatInit => ChatTypes
  BY ChatInitially
<1>3. ChatTypes /\ [ChatNext]_chatVars => ChatTypes'
  BY ChatStepShape
<1>4. ChatTypes /\ [ChatNext]_chatVars =>
        [pc # "dead" /\ pc' = "dead" => ~Full(disk, current) \/ turn'.kind = "unfit"]_chatVars
  BY <1>1
<1> QED BY <1>2, <1>3, <1>4, PTL DEF ChatSpec, LoopSurvivesItsTurns
=============================================================================
