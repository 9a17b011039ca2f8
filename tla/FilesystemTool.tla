----------------------------- MODULE FilesystemTool -----------------------------
(***************************************************************************)
(* The filesystem tool of src/faith_mcp/filesystem: mounts whose access is *)
(* narrowed by subfolders and by agent, the history a write or a deletion  *)
(* leaves behind, and the watcher that polls for changes.  A path is the   *)
(* sequence of its parts below the mount.                                  *)
(***************************************************************************)
EXTENDS Naturals, Sequences, FiniteSets, Functions, FiniteSetsExt, SequenceParts

CONSTANTS FsAgents,
          FsPaths,       \* the files of the mount
          FsDirs,        \* its directories
          Denied,        \* is_denied
          FsTexts,
          MountConfigs,  \* the mount, as filesystem.yaml may describe it
          AgentAccess,   \* agent_mounts of each agent
          Watches,       \* the subscriptions that may be added
          MaxFsChanges, MaxSubs

Absent == "absent"
Permissions == {"none", "readonly", "readwrite"}
FileEvents == {"file:created", "file:changed", "file:deleted"}

ASSUME FsConstants ==
  /\ \A m \in MountConfigs : /\ m.access \in Permissions /\ m.depth \in Nat \ {0}
                             /\ m.recursive \in BOOLEAN /\ m.history \in BOOLEAN
  /\ \A w \in Watches : /\ w.agent \in FsAgents /\ w.paths \subseteq FsPaths
                        /\ w.events \subseteq FileEvents /\ w.session \in BOOLEAN

VARIABLES mount,      \* the loaded configuration
          content,    \* the files
          versions,   \* the history: text and time in each slot of a file
          now,        \* the times of versions, and the bound on changes
          outcome,    \* the event of the last call: complete, denied, error; or restored
          subs,       \* _subscriptions
          snaps,      \* _snapshots
          heard,      \* what the events told an agent of a file
          shared,     \* files that two subscriptions of an agent matched, at once or in turn
          polled      \* nothing happened since the last poll

historyVars == <<versions, now>>
watchVars == <<subs, snaps, heard, shared>>
fsVars == <<mount, content, versions, now, outcome, subs, snaps, heard, shared, polled>>

Rank(p) == CASE p = "readwrite" -> 2 [] p = "readonly" -> 1 [] OTHER -> 0
Below(dir, p) == Len(dir) <= Len(p) /\ SubSeq(p, 1, Len(dir)) = dir

\* resolve_mount_permission
MountPermission(p) ==
  LET matching == {d \in DOMAIN mount.overrides : Below(d, p)}
  IN IF matching # {}
     THEN mount.overrides[CHOOSE d \in matching : \A e \in matching : Len(e) <= Len(d)]
     ELSE IF ~mount.recursive /\ Len(p) > 1 THEN "none" ELSE mount.access

\* check_permission
Allowed(a, p, required) ==
  LET granted == MountPermission(p)
      effective == IF Rank(AgentAccess[a]) < Rank(granted) THEN AgentAccess[a] ELSE granted
  IN Rank(effective) >= Rank(required)

FsInit ==
  /\ mount \in MountConfigs
  /\ content = [p \in FsPaths |-> Absent]
  /\ versions = [p \in FsPaths |-> <<>>]
  /\ now = 0 /\ outcome = "none"
  /\ subs = <<>> /\ snaps = <<>> /\ heard = <<>> /\ shared = {} /\ polled = FALSE

\* _find_next_slot
NextSlot(p) ==
  LET slots == DOMAIN versions[p]
  IN IF Cardinality(slots) < mount.depth THEN Cardinality(slots) + 1
     ELSE CHOOSE s \in slots : \A t \in slots : versions[p][s].at <= versions[p][t].at

\* store_version
StoreVersion(p, text) ==
  /\ now' = now + 1
  /\ versions' = IF ~mount.history THEN versions
                 ELSE [versions EXCEPT ![p] =
                         [s \in DOMAIN @ \cup {NextSlot(p)} |->
                            IF s = NextSlot(p) THEN [text |-> text, at |-> now] ELSE @[s]]]

\* The guard of a call (_resolve_target) and what the server publishes of it.
Tool(a, p, required) ==
  /\ now < MaxFsChanges
  /\ p \notin Denied /\ Allowed(a, p, required)
  /\ outcome' = "complete"
Refuse(a, p, required) ==
  /\ p \in Denied \/ ~Allowed(a, p, required)
  /\ outcome' = "denied"
  /\ UNCHANGED <<mount, content, historyVars, watchVars, polled>>

\* A bug the runs must notice: what is overwritten is not kept first.
WriteThenKeep(a, p, t) ==
  /\ Tool(a, p, "readwrite")
  /\ StoreVersion(p, t)
  /\ content' = [content EXCEPT ![p] = t]
  /\ polled' = FALSE
  /\ UNCHANGED <<mount, watchVars>>

\* write_file: the old text is kept before it is overwritten, the first one
\* after it was written.
WriteFile(a, p, t) ==
  /\ Tool(a, p, "readwrite")
  /\ StoreVersion(p, IF content[p] = Absent THEN t ELSE content[p])
  /\ content' = [content EXCEPT ![p] = t]
  /\ polled' = FALSE
  /\ UNCHANGED <<mount, watchVars>>

\* read_file, stat_file, list_directory, make_directory
Inspect(a, p) ==
  /\ Tool(a, p, "readonly")
  /\ outcome' # outcome
  /\ UNCHANGED <<mount, content, historyVars, watchVars, polled>>
InspectMissing(p) ==
  /\ content[p] = Absent
  /\ outcome # "error" /\ outcome' = "error"
  /\ UNCHANGED <<mount, content, historyVars, watchVars, polled>>

\* delete_file of a file
DeleteFile(a, p) ==
  /\ Tool(a, p, "readwrite")
  /\ content[p] # Absent
  /\ StoreVersion(p, content[p])
  /\ content' = [content EXCEPT ![p] = Absent]
  /\ polled' = FALSE
  /\ UNCHANGED <<mount, watchVars>>

\* delete_file of a directory: nothing of it is kept.
DeleteDirectory(a, d) ==
  /\ Tool(a, d, "readwrite")
  /\ content' = [p \in FsPaths |-> IF Below(d, p) THEN Absent ELSE content[p]]
  /\ polled' = FALSE
  /\ UNCHANGED <<mount, historyVars, watchVars>>

\* restore_version, which publishes no event and keeps what it restores, not
\* what it overwrites.
RestoreVersion(p, s) ==
  /\ now < MaxFsChanges
  /\ mount.history /\ s \in DOMAIN versions[p]
  /\ content' = [content EXCEPT ![p] = versions[p][s].text]
  /\ StoreVersion(p, versions[p][s].text)
  /\ outcome' = "restored"
  /\ polled' = FALSE
  /\ UNCHANGED <<mount, watchVars>>

\* A change that does not go through the tool.
OtherWrites(p, t) ==
  /\ now < MaxFsChanges /\ now' = now + 1
  /\ content' = [content EXCEPT ![p] = t]
  /\ polled' = FALSE
  /\ UNCHANGED <<mount, versions, outcome, watchVars>>

\* handle_config_changed, reload_config: history and access of the mount.
ReloadConfig(m) ==
  /\ mount' = m
  /\ UNCHANGED <<content, historyVars, outcome, watchVars, polled>>

\* add_subscription; the snapshots of a removed subscription are still there.
Subscribe(w) ==
  /\ Len(subs) < MaxSubs
  /\ subs' = Append(subs, w)
  /\ shared' = shared \cup {k \in {w.agent} \X w.paths :
                             \/ k \in DOMAIN snaps
                             \/ \E i \in DOMAIN subs : subs[i].agent = w.agent /\ k[2] \in subs[i].paths}
  /\ polled' = FALSE
  /\ UNCHANGED <<mount, content, historyVars, outcome, snaps, heard>>

\* remove_session_subscriptions
RemoveSessionSubscriptions ==
  LET kept == At(subs, {i \in DOMAIN subs : ~subs[i].session})
      known == {k \in DOMAIN snaps : \E i \in DOMAIN kept : kept[i].agent = k[1]}
  IN /\ subs' = kept
     /\ snaps' = Restrict(snaps, known)
     /\ heard' = Restrict(heard, known \cap DOMAIN heard)
     /\ polled' = FALSE
     /\ UNCHANGED <<mount, content, historyVars, outcome, shared>>

\* The subscriptions that match a file of an agent; the first of them takes
\* the difference to the snapshot, whether it wants that event or not.
Matching(k) == {i \in DOMAIN subs : subs[i].agent = k[1] /\ k[2] \in subs[i].paths}
Seen == {k \in FsAgents \X FsPaths : content[k[2]] # Absent /\ Matching(k) # {}}
Reported(k) ==
  LET event == IF k \notin DOMAIN snaps THEN "file:created" ELSE "file:changed"
  IN event \in subs[Min(Matching(k))].events
Differs(k) == k \notin DOMAIN snaps \/ snaps[k] # content[k[2]]
DeletionReported(k) ==
  \E i \in DOMAIN subs : subs[i].agent = k[1] /\ "file:deleted" \in subs[i].events

\* A bug the runs must notice: a file that is gone keeps its snapshot.
PollKeepsSnapshots ==
  /\ snaps' = [k \in Seen \cup DOMAIN snaps |-> IF k \in Seen THEN content[k[2]] ELSE snaps[k]]
  /\ heard' = [k \in DOMAIN heard \cup {k \in Seen : Differs(k) /\ Reported(k)} |->
                 IF k \in Seen /\ Differs(k) /\ Reported(k) THEN content[k[2]] ELSE heard[k]]
  /\ polled' = TRUE
  /\ UNCHANGED <<mount, content, historyVars, outcome, subs, shared>>

\* poll_once; what was told of a file whose snapshot goes unreported is forgotten.
PollOnce ==
  LET gone == DOMAIN snaps \ Seen
      news == {k \in Seen : Differs(k) /\ Reported(k)}
      lost == {k \in gone : DeletionReported(k)}
  IN /\ snaps' = [k \in Seen |-> content[k[2]]]
     /\ heard' = [k \in (DOMAIN heard \ gone) \cup news \cup lost |->
                    IF k \in news THEN content[k[2]]
                    ELSE IF k \in lost THEN Absent ELSE heard[k]]
     /\ polled' = TRUE
     /\ UNCHANGED <<mount, content, historyVars, outcome, subs, shared>>

FsNext ==
  \/ \E a \in FsAgents, p \in FsPaths :
       \/ \E t \in FsTexts : WriteFile(a, p, t)
       \/ DeleteFile(a, p) \/ Inspect(a, p)
       \/ \E r \in Permissions \ {"none"} : Refuse(a, p, r)
  \/ \E a \in FsAgents, d \in FsDirs : DeleteDirectory(a, d)
  \/ \E p \in FsPaths : \/ InspectMissing(p)
                        \/ \E s \in DOMAIN versions[p] : RestoreVersion(p, s)
                        \/ \E t \in FsTexts \cup {Absent} : OtherWrites(p, t)
  \/ \E m \in MountConfigs : ReloadConfig(m)
  \/ \E w \in Watches : Subscribe(w)
  \/ RemoveSessionSubscriptions \/ PollOnce

\* Two versions of one file never bear the same time.
Kept(p) == {versions[p][s] : s \in DOMAIN versions[p]}

(***************************************************************************)
(* A write, a deletion or a restoration through a mount with a history     *)
(* evicts at most the oldest version, and that only from a full history;   *)
(* and the text a write or the deletion of a file took away is in it.      *)
(***************************************************************************)
HistoryKeepsTheNewest ==
  [][\A p \in FsPaths :
       LET evicted == Kept(p) \ Kept(p)'
       IN /\ evicted # {} =>
               /\ Cardinality(Kept(p)) >= mount.depth /\ Cardinality(evicted) = 1
               /\ \A v \in evicted, w \in Kept(p) : v.at <= w.at
          /\ (outcome' = "complete" /\ versions'[p] # versions[p] /\ content[p] # Absent)
               => \E v \in Kept(p)' : v.text = content[p] /\ v.at = now]_fsVars

\* The agent has watched the file through one subscription only, for all events.
SoleWatch(k) ==
  k \notin shared /\ \E i \in Matching(k) : subs[i].events = FileEvents

(***************************************************************************)
(* After a poll an agent has been told what became of every file it has    *)
(* watched through one subscription only.                                  *)
(***************************************************************************)
SoleWatcherIsTold ==
  polled => \A k \in FsAgents \X FsPaths :
              SoleWatch(k) => IF k \in DOMAIN heard THEN heard[k] = content[k[2]]
                              ELSE content[k[2]] = Absent

(***************************************************************************)
(* ... and so with several: an agent that asks for all events of a file is *)
(* told what became of it.  It does not hold: the first subscription of an *)
(* agent that matches the path swallows the event, its own kinds or not.   *)
(***************************************************************************)
EveryWatchIsTold ==
  polled => \A k \in FsAgents \X FsPaths :
              (\E i \in Matching(k) : subs[i].events = FileEvents)
                => IF k \in DOMAIN heard THEN heard[k] = content[k[2]]
                   ELSE content[k[2]] = Absent
=============================================================================
