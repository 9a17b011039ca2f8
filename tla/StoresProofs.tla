------------------------------ MODULE StoresProofs ------------------------------
(* Theorems about what the Project Agent and the tools of its agents keep and read *)
(* back, for every value of the constants.                                         *)
EXTENDS KVStore, FileStorage, FilesystemTool, CodeIndex, TextSearch, LogFiles, SequencePartsProofs

-----------------------------------------------------------------------------
(* The key-value store *)

KVSpec == KVInit /\ [][KVNext]_kvVars

\* What SetIndex has yet to do.
IndexCalls == [op : {"index"}, s : KVSessions, k : Keys, keep : BOOLEAN]

\* The durable keys have values and are in the index; a cleanup that runs took
\* them out of the index before it deletes anything.
DurableInv ==
  /\ stored \in [KVSessions -> SUBSET Keys]
  /\ expiring \in [KVSessions -> SUBSET Keys]
  /\ persistent \in [KVSessions -> SUBSET Keys]
  /\ durable \in [KVSessions -> SUBSET Keys]
  /\ cleaning \in [KVSessions -> [on : BOOLEAN, keep : SUBSET Keys, left : SUBSET Keys]]
  /\ pending \in [KVClients -> {NoCall} \cup IndexCalls]
  /\ \A s \in KVSessions :
       /\ durable[s] \subseteq stored[s]
       /\ durable[s] \subseteq persistent[s]
       /\ cleaning[s].on => durable[s] \subseteq cleaning[s].keep

\* At the start there are no keys.
LEMMA DurableInitially == KVInit => DurableInv
BY DEF KVInit, DurableInv, NotCleaning, NoCall

\* Every command of a client, of a cleanup and of Redis preserves it.
LEMMA DurableStep == DurableInv /\ [KVNext]_kvVars => DurableInv'
<1> SUFFICES ASSUME DurableInv, [KVNext]_kvVars PROVE DurableInv'
  OBVIOUS
<1> USE DEF DurableInv
<1>1. ASSUME NEW c \in KVClients, NEW s \in KVSessions, NEW k \in Keys, NEW ttl \in BOOLEAN,
             NEW keep \in BOOLEAN, SetValue(c, s, k, ttl, keep)
      PROVE  DurableInv'
  <2>1. [op |-> "index", s |-> s, k |-> k, keep |-> keep] \in IndexCalls
    BY DEF IndexCalls
  <2> QED BY <1>1, <2>1 DEF SetValue
<1>2. ASSUME NEW c \in KVClients, SetIndex(c) PROVE DurableInv'
  <2> DEFINE s == pending[c].s  k == pending[c].k  keep == pending[c].keep
  <2>1. pending[c] \in IndexCalls
    BY <1>2 DEF SetIndex, NoCall
  <2>2. s \in KVSessions /\ k \in Keys /\ keep \in BOOLEAN
    BY <2>1 DEF IndexCalls
  <2>3. /\ persistent' = [persistent EXCEPT ![s] = IF keep THEN @ \cup {k} ELSE @ \ {k}]
        /\ durable' = [durable EXCEPT ![s] = IF keep /\ k \in stored[s] /\ ~cleaning[s].on
                                             THEN @ \cup {k} ELSE @ \ {k}]
        /\ pending' = [pending EXCEPT ![c] = NoCall]
        /\ UNCHANGED <<stored, expiring, cleaning, sets>>
    BY <1>2 DEF SetIndex
  <2> HIDE DEF s, k, keep
  <2> QED BY <2>2, <2>3
<1>3. ASSUME NEW c \in KVClients, NEW s \in KVSessions, NEW k \in Keys, DeleteKey(c, s, k)
      PROVE  DurableInv'
  <2>1. [op |-> "index", s |-> s, k |-> k, keep |-> FALSE] \in IndexCalls
    BY DEF IndexCalls
  <2> QED BY <1>3, <2>1 DEF DeleteKey
<1>4. ASSUME NEW s \in KVSessions, CleanupBegins(s) PROVE DurableInv'
  BY <1>4 DEF CleanupBegins
<1>5. ASSUME NEW s \in KVSessions, CleanupEnds(s) PROVE DurableInv'
  BY <1>5 DEF CleanupEnds, NotCleaning
<1>6. ASSUME NEW s \in KVSessions, NEW k \in Keys, Expire(s, k) PROVE DurableInv'
  BY <1>6 DEF Expire
<1>7. ASSUME NEW s \in KVSessions, NEW k \in Keys, CleanupSees(s, k) PROVE DurableInv'
  <2>1. CASE k \in cleaning[s].keep
    BY <1>7, <2>1 DEF CleanupSees
  <2>2. CASE k \notin cleaning[s].keep
    BY <1>7, <2>2, SMTT(20) DEF CleanupSees
  <2> QED BY <2>1, <2>2
<1>8. CASE UNCHANGED kvVars
  BY <1>8 DEF kvVars
<1> QED BY <1>1, <1>2, <1>3, <1>4, <1>5, <1>6, <1>7, <1>8 DEF KVNext

\* A persistent key survives the cleanup of its session, whatever the clients do
\* meanwhile.
THEOREM PersistentKeysSurvive == KVSpec => []PersistentSurvivesCleanup
<1>1. DurableInv => PersistentSurvivesCleanup
  BY DEF DurableInv, PersistentSurvivesCleanup
<1> QED BY <1>1, DurableInitially, DurableStep, PTL DEF KVSpec

-----------------------------------------------------------------------------
(* The stored files *)

StorageSpec == StorageInit /\ [][StorageNext]_storageVars

\* What deletions have cut short is still listed.
StorageInv == StoredFilesAreThere /\ cut \subseteq Listed

\* A save that keeps the bytes of what it lists, and gives up only what is listed.
LEMMA SaveSafe ==
  ASSUME StorageInv, NEW l, NEW t, NEW bs, Save(l, t, bs),
         DOMAIN l \cap DOMAIN t = {}, DOMAIN l \cup DOMAIN t \subseteq bs \cup cut,
         cut \cap bs = {}, bytes \ bs \subseteq Listed
  PROVE  StorageInv'
<1>1. bytes' = bs
  BY DEF Save
<1>2. CASE live' = l /\ trash' = t /\ cut' = cut \cap (DOMAIN l \cup DOMAIN t)
  BY <1>1, <1>2 DEF StorageInv, StoredFilesAreThere, Listed
<1>3. CASE cut' = cut \cup (bytes \ bs) /\ UNCHANGED <<live, trash>>
  BY <1>1, <1>3 DEF StorageInv, StoredFilesAreThere, Listed
<1>4. CASE live' = <<>> /\ trash' = <<>> /\ cut' = {}
  <2>1. DOMAIN <<>> = {}
    OBVIOUS
  <2> QED BY <1>4, <2>1 DEF StorageInv, StoredFilesAreThere, Listed
<1> QED BY <1>2, <1>3, <1>4 DEF Save

\* The registries that the operations write.
LEMMA Registries ==
  /\ \A f, i, r : DOMAIN With(f, i, r) = DOMAIN f \cup {i}
  /\ \A f, S : DOMAIN Without(f, S) = DOMAIN f \ S
BY DEF With, Without, Restrict

\* Bytes that come in.
LEMMA IngestSafe ==
  ASSUME StorageInv, NEW id, NEW name, NEW scope, NEW bound, NEW round,
         IngestBytes(id, name, scope, bound, round)
  PROVE  StorageInv'
<1> USE DEF StorageInv, StoredFilesAreThere, Listed
<1>1. CASE id \in Listed
  <2>1. PICK l, t : /\ DOMAIN l = DOMAIN live \cup {id} /\ DOMAIN t = DOMAIN trash \ {id}
                    /\ Save(l, t, bytes)
    BY <1>1, Registries DEF IngestBytes
  <2> QED BY <1>1, <2>1, SaveSafe
<1>2. CASE id \notin Listed
  <2>1. PICK l : DOMAIN l = DOMAIN live \cup {id} /\ Save(l, trash, bytes \cup {id})
    BY <1>2, Registries DEF IngestBytes
  <2> QED BY <1>2, <2>1, SaveSafe
<1> QED BY <1>1, <1>2

\* Every operation preserves it, stopped or not.
LEMMA StorageStep == StorageInv /\ [StorageNext]_storageVars => StorageInv'
<1> SUFFICES ASSUME StorageInv, [StorageNext]_storageVars PROVE StorageInv'
  OBVIOUS
<1> USE DEF StorageInv, StoredFilesAreThere, Listed
<1>1. ASSUME NEW id, NEW n, NEW sc, NEW b, Upload(id, n, sc, b) PROVE StorageInv'
  BY <1>1, IngestSafe DEF Upload
<1>2. ASSUME NEW id, NEW n, NEW sc, NEW s, NEW r, UploadInChat(id, n, sc, s, r) PROVE StorageInv'
  BY <1>2, IngestSafe DEF UploadInChat
<1>3. ASSUME NEW id, NEW n, NEW sc, NEW b, UpdateFile(id, n, sc, b) PROVE StorageInv'
  <2>1. PICK l : DOMAIN l = DOMAIN live /\ Save(l, trash, bytes)
    BY <1>3 DEF UpdateFile
  <2> QED BY <2>1, SaveSafe
<1>4. ASSUME NEW ids, TrashFiles(ids) PROVE StorageInv'
  <2>1. PICK l, t : /\ DOMAIN l = DOMAIN live \ ids
                    /\ DOMAIN t = DOMAIN trash \cup (ids \cap DOMAIN live)
                    /\ Save(l, t, bytes)
    BY <1>4, Registries DEF TrashFiles
  <2> QED BY <2>1, SaveSafe
<1>5. ASSUME NEW ids, RestoreFiles(ids) PROVE StorageInv'
  <2>1. PICK l, t : /\ DOMAIN l = DOMAIN live \cup (ids \cap DOMAIN trash)
                    /\ DOMAIN t = DOMAIN trash \ ids
                    /\ Save(l, t, bytes)
    BY <1>5, Registries DEF RestoreFiles
  <2> QED BY <2>1, SaveSafe
<1>6. ASSUME NEW id, HardDelete(id) PROVE StorageInv'
  <2>1. PICK l, t : /\ DOMAIN l = DOMAIN live \ {id} /\ DOMAIN t = DOMAIN trash \ {id}
                    /\ id \in Listed /\ Save(l, t, bytes \ {id})
    <3>1. CASE id \in DOMAIN trash
      <4>1. id \notin DOMAIN live /\ DOMAIN live = DOMAIN live \ {id}
        BY <3>1
      <4>2. Save(live, Without(trash, {id}), bytes \ {id}) /\ id \in Listed
        BY <1>6, <3>1 DEF HardDelete
      <4> QED BY <4>1, <4>2, Registries
    <3>2. CASE id \notin DOMAIN trash
      BY <1>6, <3>2, Registries DEF HardDelete
    <3> QED BY <3>1, <3>2
  <2> QED BY <2>1, SaveSafe
<1>7. ASSUME NEW r, CleanupOneTime(r) PROVE StorageInv'
  <2> DEFINE gone == OneTimeOf(r)
  <2>1. gone \subseteq DOMAIN live
    BY DEF OneTimeOf
  <2>2. PICK l : DOMAIN l = DOMAIN live \ gone /\ Save(l, trash, bytes \ gone)
    BY <1>7, Registries DEF CleanupOneTime
  <2> HIDE DEF gone
  <2> QED BY <2>1, <2>2, SaveSafe
<1>8. ASSUME NEW s, NEW l, ExportSession(s, l) PROVE StorageInv'
  BY <1>8 DEF ExportSession
<1>9. CASE UNCHANGED storageVars
  BY <1>9 DEF storageVars
<1> QED BY <1>1, <1>2, <1>3, <1>4, <1>5, <1>6, <1>7, <1>8, <1>9 DEF StorageNext

\* A file is live or in the trash and its bytes are there, wherever the process stops.
THEOREM StoredFilesStay == StorageSpec => []StoredFilesAreThere
<1>1. StorageInit => StorageInv
  <2>1. DOMAIN <<>> = {}
    OBVIOUS
  <2> QED BY <2>1 DEF StorageInit, StorageInv, StoredFilesAreThere, Listed
<1>2. StorageInv => StoredFilesAreThere
  BY DEF StorageInv
<1> QED BY <1>1, <1>2, StorageStep, PTL DEF StorageSpec
-----------------------------------------------------------------------------
(* The watcher of the filesystem tool *)

FsSpec == FsInit /\ [][FsNext]_fsVars

WatchKeys == FsAgents \X FsPaths

\* A file that is not shared matches one subscription at most.
OneWatch(k) == k \notin shared => \A i, j \in Matching(k) : i = j

\* The snapshot of a file watched alone is what its agent was told.
SnapIsHeard(k) ==
  SoleWatch(k) /\ k \in DOMAIN snaps => k \in DOMAIN heard /\ heard[k] = snaps[k]

\* What an agent was told of a file without a snapshot is that the file is gone.
HeardOrGone(k) == k \in DOMAIN heard => k \in DOMAIN snaps \/ heard[k] = Absent

\* After a poll the snapshot of a file watched alone is its text.
SnapIsContent(k) ==
  polled /\ SoleWatch(k) => IF k \in DOMAIN snaps THEN snaps[k] = content[k[2]]
                            ELSE content[k[2]] = Absent

WatchInv ==
  /\ subs \in Seq(Watches)
  /\ \A k \in WatchKeys : OneWatch(k) /\ SnapIsHeard(k) /\ HeardOrGone(k) /\ SnapIsContent(k)

\* At the start nothing is watched.
LEMMA WatchInitially == FsInit => WatchInv
<1> SUFFICES ASSUME FsInit PROVE WatchInv
  OBVIOUS
<1>1. subs = <<>> /\ snaps = <<>> /\ heard = <<>> /\ ~polled
  BY DEF FsInit
<1>2. DOMAIN <<>> = {} /\ <<>> \in Seq(Watches)
  OBVIOUS
<1>3. \A k : Matching(k) = {}
  BY <1>1, <1>2 DEF Matching
<1> QED
  BY <1>1, <1>2, <1>3 DEF WatchInv, OneWatch, SnapIsHeard, HeardOrGone, SnapIsContent

\* A call that leaves the watcher alone preserves it, when a change of the files
\* makes the last poll an old one.
LEMMA WatchKept ==
  ASSUME WatchInv, UNCHANGED watchVars, polled' = FALSE \/ UNCHANGED <<polled, content>>
  PROVE  WatchInv'
BY DEF WatchInv, watchVars, OneWatch, SnapIsHeard, HeardOrGone, SnapIsContent, SoleWatch, Matching

\* A new subscription: a file it is the only one to match has no snapshot.
LEMMA WatchSubscribe ==
  ASSUME WatchInv, NEW w \in Watches, Subscribe(w) PROVE WatchInv'
<1> USE DEF WatchInv
<1>1. /\ subs' = Append(subs, w) /\ UNCHANGED <<snaps, heard>> /\ ~polled'
      /\ shared \subseteq shared'
      /\ \A k \in {w.agent} \X w.paths :
           (k \in DOMAIN snaps \/ \E i \in DOMAIN subs : subs[i].agent = w.agent /\ k[2] \in subs[i].paths)
             => k \in shared'
  BY DEF Subscribe
<1>2. w.agent \in FsAgents /\ w.paths \subseteq FsPaths
  BY FsConstants
<1> DEFINE n == Len(subs)
<1>3. /\ n \in Nat /\ DOMAIN subs = 1..n /\ subs' \in Seq(Watches) /\ DOMAIN subs' = 1..(n + 1)
      /\ subs'[n + 1] = w /\ \A i \in 1..n : subs'[i] = subs[i]
  BY <1>1
<1> HIDE DEF n
<1>4. ASSUME NEW k \in WatchKeys, k \notin shared'
      PROVE  /\ OneWatch(k)' /\ SnapIsHeard(k)'
  <2>1. PICK ag \in FsAgents, p \in FsPaths : k = <<ag, p>>
    BY DEF WatchKeys
  <2>2. CASE ag = w.agent /\ p \in w.paths
    <3>1. k \in {w.agent} \X w.paths /\ k[1] = ag /\ k[2] = p
      BY <2>1, <2>2
    <3>2. k \notin DOMAIN snaps /\ \A i \in 1..n : ~(subs[i].agent = ag /\ p \in subs[i].paths)
      BY <1>1, <1>3, <1>4, <2>2, <3>1
    <3>3. \A i \in Matching(k)' : i = n + 1
      <4>1. ASSUME NEW i \in 1..(n + 1), subs'[i].agent = ag, p \in subs'[i].paths
            PROVE  i = n + 1
        <5>1. i \in 1..n \/ i = n + 1
          BY <1>3
        <5> QED BY <1>3, <3>2, <4>1, <5>1
      <4> QED BY <1>3, <3>1, <4>1 DEF Matching
    <3> QED BY <1>1, <3>2, <3>3 DEF OneWatch, SnapIsHeard
  <2>3. CASE ~(ag = w.agent /\ p \in w.paths)
    <3>1. \A i : i \in Matching(k)' <=> i \in 1..(n + 1) /\ subs'[i].agent = ag /\ p \in subs'[i].paths
      BY <1>3, <2>1 DEF Matching
    <3>2. \A i : i \in Matching(k) <=> i \in 1..n /\ subs[i].agent = ag /\ p \in subs[i].paths
      BY <1>3, <2>1 DEF Matching
    <3>3. ASSUME NEW i \in Matching(k)' PROVE i \in Matching(k) /\ subs'[i] = subs[i]
      <4>1. i \in 1..n \/ i = n + 1
        BY <1>3, <3>1
      <4> QED BY <1>3, <2>3, <3>1, <3>2, <4>1
    <3>4. k \notin shared
      BY <1>1, <1>4
    <3>5. SoleWatch(k)' => SoleWatch(k)
      BY <3>3, <3>4 DEF SoleWatch
    <3> QED BY <1>1, <3>3, <3>4, <3>5 DEF OneWatch, SnapIsHeard
  <2> QED BY <2>2, <2>3
<1>5. ASSUME NEW k \in WatchKeys PROVE OneWatch(k)' /\ SnapIsHeard(k)'
  BY <1>4 DEF OneWatch, SnapIsHeard, SoleWatch
<1>6. \A k \in WatchKeys : HeardOrGone(k)' /\ SnapIsContent(k)'
  BY <1>1 DEF HeardOrGone, SnapIsContent
<1> QED BY <1>3, <1>5, <1>6

\* The end of the sessions' subscriptions: those that stay keep their order.
LEMMA WatchRemoval ==
  ASSUME WatchInv, RemoveSessionSubscriptions PROVE WatchInv'
<1> USE DEF WatchInv
<1> DEFINE I == {i \in DOMAIN subs : ~subs[i].session}
           followed == {k \in DOMAIN snaps : \E i \in DOMAIN At(subs, I) : At(subs, I)[i].agent = k[1]}
<1>1. /\ subs' = At(subs, I) /\ shared' = shared /\ ~polled'
      /\ snaps' = [k \in followed |-> snaps[k]]
      /\ heard' = [k \in followed \cap DOMAIN heard |-> heard[k]]
  BY DEF RemoveSessionSubscriptions, Restrict
<1>2. I \in SUBSET (1..Len(subs)) /\ Len(subs) \in Nat /\ DOMAIN subs = 1..Len(subs)
  OBVIOUS
<1>3. followed \subseteq DOMAIN snaps
  OBVIOUS
<1> HIDE DEF I, followed
<1>4. /\ subs' \in Seq(Watches) /\ DOMAIN subs' = 1..Cardinality(I)
      /\ \A k \in 1..Cardinality(I) : \E i \in I : subs'[k] = subs[i]
  <2>1. Len(subs') = Cardinality(I) /\ subs' \in Seq(Watches) /\ Cardinality(I) \in Nat
    BY <1>1, <1>2, AtProperties
  <2>2. \A k \in 1..Cardinality(I) : \E i \in I : At(subs, I)[k] = subs[i]
    BY <1>2, AtProperties
  <2> QED BY <1>1, <2>1, <2>2
<1>5. \A k, l \in 1..Cardinality(I) : k # l =>
        \E i, j \in I : i # j /\ subs'[k] = subs[i] /\ subs'[l] = subs[j]
  <2>1. I \in SUBSET (1..Len(subs)) /\ subs \in Seq(Watches)
    BY <1>2
  <2>2. ASSUME NEW k \in 1..Cardinality(I), NEW l \in 1..Cardinality(I), k # l
        PROVE  \E i \in I, j \in I : i # j /\ At(subs, I)[k] = subs[i] /\ At(subs, I)[l] = subs[j]
    BY ONLY <2>1, <2>2, AtPositionsDiffer, Z3
  <2> QED BY <1>1, <2>2
<1>6. ASSUME NEW k \in WatchKeys PROVE OneWatch(k)'
  <2> SUFFICES ASSUME k \notin shared, NEW x \in Matching(k)', NEW y \in Matching(k)', x # y PROVE FALSE
    BY <1>1 DEF OneWatch
  <2>1. x \in 1..Cardinality(I) /\ y \in 1..Cardinality(I)
    BY <1>4 DEF Matching
  <2>2. PICK i, j \in I : i # j /\ subs'[x] = subs[i] /\ subs'[y] = subs[j]
    BY <1>5, <2>1
  <2>3. i \in Matching(k) /\ j \in Matching(k)
    BY <1>2, <2>2 DEF Matching
  <2> QED BY <2>2, <2>3 DEF OneWatch
<1>7. ASSUME NEW k \in WatchKeys PROVE SnapIsHeard(k)'
  <2> SUFFICES ASSUME SoleWatch(k)', k \in DOMAIN snaps'
               PROVE  k \in DOMAIN heard' /\ heard'[k] = snaps'[k]
    BY DEF SnapIsHeard
  <2>1. PICK x \in Matching(k)' : subs'[x].events = FileEvents
    BY DEF SoleWatch
  <2>2. PICK i \in I : subs'[x] = subs[i]
    BY <1>4 DEF Matching
  <2>3. i \in Matching(k) /\ subs[i].events = FileEvents
    BY <1>2, <2>1, <2>2 DEF Matching
  <2>4. SoleWatch(k)
    BY <1>1, <2>3 DEF SoleWatch
  <2>5. k \in followed /\ k \in DOMAIN snaps
    BY <1>1, <1>3
  <2>6. k \in DOMAIN heard /\ heard[k] = snaps[k]
    BY <2>4, <2>5 DEF SnapIsHeard
  <2> QED BY <1>1, <2>5, <2>6
<1>8. \A k \in WatchKeys : HeardOrGone(k)' /\ SnapIsContent(k)'
  BY <1>1 DEF HeardOrGone, SnapIsContent
<1> QED BY <1>4, <1>6, <1>7, <1>8

\* A poll: the only subscription of a file wants each of its events.
LEMMA WatchPoll ==
  ASSUME WatchInv, PollOnce PROVE WatchInv'
<1> USE DEF WatchInv
<1> DEFINE gone == DOMAIN snaps \ Seen
           news == {k \in Seen : Differs(k) /\ Reported(k)}
           lost == {k \in gone : DeletionReported(k)}
<1>1. /\ snaps' = [k \in Seen |-> content[k[2]]]
      /\ heard' = [k \in (DOMAIN heard \ gone) \cup news \cup lost |->
                     IF k \in news THEN content[k[2]]
                     ELSE IF k \in lost THEN Absent ELSE heard[k]]
      /\ polled' = TRUE /\ UNCHANGED <<content, subs, shared>>
  BY DEF PollOnce
<1>2. \A k : Matching(k)' = Matching(k) /\ (SoleWatch(k)' <=> SoleWatch(k))
  BY <1>1 DEF SoleWatch, Matching
<1>3. gone = DOMAIN snaps \ Seen /\ lost \subseteq gone
  OBVIOUS
<1>4. \A k : k \in news <=> k \in Seen /\ Differs(k) /\ Reported(k)
  OBVIOUS
<1> HIDE DEF gone, news, lost
<1>5. ASSUME NEW k \in WatchKeys, SoleWatch(k) PROVE Reported(k) /\ Matching(k) # {}
  <2>1. PICK i \in Matching(k) : subs[i].events = FileEvents
    BY <1>5 DEF SoleWatch
  <2>2. \A j \in Matching(k) : i = j
    BY <1>5, <2>1 DEF SoleWatch, OneWatch
  <2>3. i \in Nat
    BY DEF Matching
  <2>4. Min(Matching(k)) = i
    <3>1. \A j : j \in Matching(k) <=> j = i
      BY <2>1, <2>2
    <3>2. Matching(k) = {i}
      BY <3>1
    <3>3. i <= i
      BY <2>3
    <3> HIDE DEF WatchInv
    <3> QED BY <3>2, <3>3 DEF Min
  <2> QED BY <2>1, <2>4 DEF Reported, FileEvents
<1>6. ASSUME NEW k \in WatchKeys, SoleWatch(k) PROVE k \in Seen <=> content[k[2]] # Absent
  BY <1>5, <1>6 DEF Seen, WatchKeys
<1>7. ASSUME NEW k \in WatchKeys PROVE SnapIsHeard(k)'
  <2> SUFFICES ASSUME SoleWatch(k), k \in Seen
               PROVE  k \in DOMAIN heard' /\ heard'[k] = content[k[2]]
    BY <1>1, <1>2 DEF SnapIsHeard
  <2>1. CASE Differs(k)
    BY <1>1, <1>4, <1>5, <2>1
  <2>2. CASE ~Differs(k)
    <3>1. k \in DOMAIN snaps /\ snaps[k] = content[k[2]]
      BY <2>2 DEF Differs
    <3>2. k \in DOMAIN heard /\ heard[k] = content[k[2]]
      BY <3>1 DEF SnapIsHeard
    <3> QED BY <1>1, <1>3, <1>4, <2>2, <3>2
  <2> QED BY <2>1, <2>2
<1>8. ASSUME NEW k \in WatchKeys PROVE HeardOrGone(k)'
  <2> SUFFICES ASSUME k \in DOMAIN heard', k \notin Seen PROVE heard'[k] = Absent
    BY <1>1 DEF HeardOrGone
  <2>1. k \notin news
    BY <1>4
  <2>2. CASE k \in lost
    BY <1>1, <2>1, <2>2
  <2>3. CASE k \notin lost
    <3>1. k \in DOMAIN heard /\ k \notin gone
      BY <1>1, <2>1, <2>3
    <3>2. k \notin DOMAIN snaps
      BY <1>3, <3>1
    <3>3. heard[k] = Absent
      BY <3>1, <3>2 DEF HeardOrGone
    <3> QED BY <1>1, <2>1, <2>3, <3>1, <3>3
  <2> QED BY <2>2, <2>3
<1>9. ASSUME NEW k \in WatchKeys PROVE OneWatch(k)' /\ SnapIsContent(k)'
  BY <1>1, <1>2, <1>6 DEF OneWatch, SnapIsContent
<1> QED BY <1>1, <1>7, <1>8, <1>9

\* Every call of the tool, every change of the files and every poll preserves it.
LEMMA WatchStep == WatchInv /\ [FsNext]_fsVars => WatchInv'
<1> SUFFICES ASSUME WatchInv, [FsNext]_fsVars PROVE WatchInv'
  OBVIOUS
<1>1. ASSUME NEW a, NEW p, NEW t, WriteFile(a, p, t) PROVE WatchInv'
  BY <1>1, WatchKept DEF WriteFile
<1>2. ASSUME NEW a, NEW p, DeleteFile(a, p) PROVE WatchInv'
  BY <1>2, WatchKept DEF DeleteFile
<1>3. ASSUME NEW a, NEW p, Inspect(a, p) PROVE WatchInv'
  BY <1>3, WatchKept DEF Inspect
<1>4. ASSUME NEW a, NEW p, NEW r, Refuse(a, p, r) PROVE WatchInv'
  BY <1>4, WatchKept DEF Refuse
<1>5. ASSUME NEW a, NEW d, DeleteDirectory(a, d) PROVE WatchInv'
  BY <1>5, WatchKept DEF DeleteDirectory
<1>6. ASSUME NEW p, InspectMissing(p) PROVE WatchInv'
  BY <1>6, WatchKept DEF InspectMissing
<1>7. ASSUME NEW p, NEW s, RestoreVersion(p, s) PROVE WatchInv'
  BY <1>7, WatchKept DEF RestoreVersion
<1>8. ASSUME NEW p, NEW t, OtherWrites(p, t) PROVE WatchInv'
  BY <1>8, WatchKept DEF OtherWrites
<1>9. ASSUME NEW m, ReloadConfig(m) PROVE WatchInv'
  BY <1>9, WatchKept DEF ReloadConfig
<1>10. CASE UNCHANGED fsVars
  BY <1>10, WatchKept DEF fsVars, watchVars
<1> QED
  BY <1>1, <1>2, <1>3, <1>4, <1>5, <1>6, <1>7, <1>8, <1>9, <1>10, WatchSubscribe, WatchRemoval,
     WatchPoll DEF FsNext

\* After a poll an agent knows what became of every file it has watched through one
\* subscription only, whatever was written, removed, subscribed or ended before.
THEOREM SoleWatchersAreTold == FsSpec => []SoleWatcherIsTold
<1>1. WatchInv => SoleWatcherIsTold
  BY DEF WatchInv, SoleWatcherIsTold, SnapIsHeard, HeardOrGone, SnapIsContent, WatchKeys
<1> QED BY <1>1, WatchInitially, WatchStep, PTL DEF FsSpec
-----------------------------------------------------------------------------
(* The history of the filesystem tool *)

\* The slots of a file are numbered from 1, and no two of them bear the same time.
Slots(p) ==
  /\ \E n \in Nat : DOMAIN versions[p] = 1..n
  /\ \A s \in DOMAIN versions[p] : versions[p][s].at \in Nat /\ versions[p][s].at < now
  /\ \A s, t \in DOMAIN versions[p] : versions[p][s].at = versions[p][t].at => s = t

HistoryInv ==
  /\ mount \in MountConfigs
  /\ now \in Nat
  /\ versions = [p \in FsPaths |-> versions[p]]
  /\ \A p \in FsPaths : Slots(p)

\* What a step evicts of a file, and what a call that took a text away leaves of it.
EvictsTheOldest(p) ==
  LET evicted == Kept(p) \ Kept(p)'
  IN evicted # {} => /\ Cardinality(Kept(p)) >= mount.depth /\ Cardinality(evicted) = 1
                     /\ \A v \in evicted, w \in Kept(p) : v.at <= w.at
Holds(p, lost) == \E v \in Kept(p)' : v.text = lost /\ v.at = now

\* A full history has one oldest version.
LEMMA OldestSlot ==
  ASSUME HistoryInv, NEW p \in FsPaths, DOMAIN versions[p] # {}
  PROVE  \E s \in DOMAIN versions[p] : \A t \in DOMAIN versions[p] : versions[p][s].at <= versions[p][t].at
<1> USE DEF HistoryInv, Slots
<1> DEFINE times == {versions[p][s].at + 1 : s \in DOMAIN versions[p]}
<1>1. times \in SUBSET (1..now) /\ times # {}
  <2>1. ASSUME NEW s \in DOMAIN versions[p] PROVE versions[p][s].at + 1 \in 1..now
    <3>1. now \in Nat /\ versions[p][s].at \in Nat /\ versions[p][s].at < now
      OBVIOUS
    <3> QED BY <3>1
  <2> QED BY <2>1
<1>2. PICK i \in times : \A j \in times : i <= j
  BY <1>1, EndPositions
<1>3. PICK s \in DOMAIN versions[p] : i = versions[p][s].at + 1
  OBVIOUS
<1>4. ASSUME NEW t \in DOMAIN versions[p] PROVE versions[p][s].at <= versions[p][t].at
  <2>1. versions[p][s].at + 1 <= versions[p][t].at + 1
    BY <1>2, <1>3
  <2>2. versions[p][s].at \in Nat /\ versions[p][t].at \in Nat
    OBVIOUS
  <2> QED BY <2>1, <2>2
<1> QED BY <1>4

\* The slot that store_version takes: a new one, or the one of the oldest version.
LEMMA SlotTaken ==
  ASSUME HistoryInv, NEW p \in FsPaths, NEW n \in Nat, DOMAIN versions[p] = 1..n
  PROVE  \/ NextSlot(p) = n + 1
         \/ /\ n >= mount.depth /\ NextSlot(p) \in 1..n
            /\ \A t \in 1..n : versions[p][NextSlot(p)].at <= versions[p][t].at
<1>1. Cardinality(1..n) = n
  BY PositionCount
<1>2. mount.depth \in Nat \ {0}
  BY FsConstants DEF HistoryInv
<1>3. CASE n < mount.depth
  BY <1>1, <1>3 DEF NextSlot
<1>4. CASE ~(n < mount.depth)
  <2>1. NextSlot(p) = CHOOSE s \in 1..n : \A t \in 1..n : versions[p][s].at <= versions[p][t].at
    BY <1>1, <1>4 DEF NextSlot
  <2>2. \E s \in 1..n : \A t \in 1..n : versions[p][s].at <= versions[p][t].at
    <3>1. 1 \in 1..n
      BY <1>2, <1>4
    <3> QED BY <3>1, OldestSlot
  <2>3. n >= mount.depth
    BY <1>2, <1>4
  <2> QED BY <2>1, <2>2, <2>3
<1> QED BY <1>3, <1>4

\* How many versions are kept.
LEMMA KeptCount ==
  ASSUME HistoryInv, NEW p \in FsPaths, NEW n \in Nat, DOMAIN versions[p] = 1..n
  PROVE  Cardinality(Kept(p)) = n
<1> DEFINE f == [s \in 1..n |-> versions[p][s]]
<1>1. f \in Bijection(1..n, Kept(p))
  <2>1. f \in [1..n -> Kept(p)] /\ \A v \in Kept(p) : \E s \in 1..n : f[s] = v
    BY DEF Kept
  <2>2. \A s, t \in 1..n : f[s] = f[t] => s = t
    BY DEF HistoryInv, Slots
  <2> QED BY <2>1, <2>2 DEF Bijection, Injection, Surjection, IsInjective
<1>2. IsFiniteSet(1..n) /\ Cardinality(1..n) = n
  BY PositionCount
<1>3. ExistsBijection(1..n, Kept(p))
  BY <1>1 DEF ExistsBijection
<1> QED BY <1>2, <1>3, FS_Bijection

\* store_version keeps the slots numbered, evicts the oldest version at most, and
\* has the text when the mount has a history.
LEMMA VersionStored ==
  ASSUME HistoryInv, NEW p \in FsPaths, NEW lost, StoreVersion(p, lost), mount' = mount
  PROVE  /\ HistoryInv'
         /\ EvictsTheOldest(p)
         /\ \A q \in FsPaths \ {p} : versions'[q] = versions[q]
         /\ versions'[p] = versions[p] \/ Holds(p, lost)
<1>0. now' = now + 1 /\ now \in Nat /\ now' \in Nat /\ mount' \in MountConfigs
  BY DEF StoreVersion, HistoryInv
<1>1. CASE ~mount.history
  <2>1. versions' = versions
    BY <1>1 DEF StoreVersion
  <2>2. ASSUME NEW q \in FsPaths PROVE Slots(q)'
    BY <1>0, <2>1 DEF HistoryInv, Slots
  <2> QED BY <1>0, <2>1, <2>2 DEF HistoryInv, EvictsTheOldest, Kept
<1>2. CASE mount.history
  <2>1. PICK n \in Nat : DOMAIN versions[p] = 1..n
    BY DEF HistoryInv, Slots
  <2> DEFINE c == NextSlot(p)
             new == [text |-> lost, at |-> now]
             V == [s \in 1..n \cup {c} |-> IF s = c THEN new ELSE versions[p][s]]
  <2>2. versions' = [versions EXCEPT ![p] = V]
    BY <1>2, <2>1 DEF StoreVersion
  <2>3. \/ c = n + 1
        \/ /\ n >= mount.depth /\ c \in 1..n
           /\ \A t \in 1..n : versions[p][c].at <= versions[p][t].at
    BY <2>1, SlotTaken
  <2>4. /\ DOMAIN V = 1..n \cup {c} /\ V[c] = new /\ new.text = lost /\ new.at = now
        /\ \A s \in 1..n : s # c => V[s] = versions[p][s]
    OBVIOUS
  <2> HIDE DEF c, new, V
  <2>5. versions'[p] = V /\ \A q \in FsPaths \ {p} : versions'[q] = versions[q]
    BY <2>2 DEF HistoryInv
  <2>6. versions' = [q \in FsPaths |-> versions'[q]]
    BY <2>2 DEF HistoryInv
  <2>7. /\ \A s \in 1..n : versions[p][s].at \in Nat /\ versions[p][s].at < now
        /\ \A s, t \in 1..n : versions[p][s].at = versions[p][t].at => s = t
    BY <2>1 DEF HistoryInv, Slots
  <2>8. \E m \in Nat : 1..n \cup {c} = 1..m
    <3>1. CASE c = n + 1
      <4>1. 1..n \cup {c} = 1..(n + 1) /\ n + 1 \in Nat
        BY <3>1
      <4> QED BY <4>1
    <3>2. CASE c \in 1..n
      <4>1. 1..n \cup {c} = 1..n
        BY <3>2
      <4> QED BY <4>1
    <3> QED BY <2>3, <3>1, <3>2
  <2>9. \A s \in DOMAIN V : V[s].at \in Nat /\ V[s].at < now'
    <3>1. ASSUME NEW s \in DOMAIN V PROVE V[s].at \in Nat /\ V[s].at < now'
      <4>1. CASE s = c
        BY <1>0, <2>4, <4>1
      <4>2. CASE s # c
        <5>1. s \in 1..n /\ V[s].at = versions[p][s].at
          BY <2>4, <4>2
        <5> QED BY <1>0, <2>7, <5>1
      <4> QED BY <4>1, <4>2
    <3> QED BY <3>1
  <2>10. \A s, t \in DOMAIN V : V[s].at = V[t].at => s = t
    <3>1. ASSUME NEW s \in DOMAIN V, s # c PROVE s \in 1..n /\ V[s].at = versions[p][s].at /\ V[s].at # now
      <4>1. s \in 1..n /\ V[s].at = versions[p][s].at
        BY <2>4, <3>1
      <4> QED BY <1>0, <2>7, <4>1
    <3> QED BY <2>4, <2>7, <3>1
  <2>11. Slots(p)'
    BY <2>4, <2>5, <2>8, <2>9, <2>10 DEF Slots
  <2>12. ASSUME NEW q \in FsPaths \ {p} PROVE Slots(q)'
    <3>1. versions'[q] = versions[q] /\ Slots(q)
      BY <2>5 DEF HistoryInv
    <3> QED BY <1>0, <3>1 DEF Slots
  <2>13. HistoryInv'
    BY <1>0, <2>6, <2>11, <2>12 DEF HistoryInv
  <2>14. Kept(p) = {versions[p][s] : s \in 1..n} /\ Kept(p)' = {V[s] : s \in 1..n \cup {c}}
    BY <2>1, <2>4, <2>5 DEF Kept
  <2>15. Holds(p, lost)
    BY <2>4, <2>14 DEF Holds
  <2>16. EvictsTheOldest(p)
    <3> DEFINE evicted == Kept(p) \ Kept(p)'
    <3>1. ASSUME NEW s \in 1..n, s # c PROVE versions[p][s] \in Kept(p)'
      BY <2>4, <2>14, <3>1
    <3>2. \A v \in evicted : c \in 1..n /\ v = versions[p][c]
      BY <2>14, <3>1
    <3> HIDE DEF evicted
    <3>3. SUFFICES ASSUME evicted # {}
                   PROVE  /\ Cardinality(Kept(p)) >= mount.depth /\ Cardinality(evicted) = 1
                          /\ \A v \in evicted, w \in Kept(p) : v.at <= w.at
      BY DEF EvictsTheOldest, evicted
    <3>4. c \in 1..n /\ evicted = {versions[p][c]}
      BY <3>2, <3>3
    <3>5. n >= mount.depth /\ \A t \in 1..n : versions[p][c].at <= versions[p][t].at
      BY <2>3, <3>4
    <3>6. Cardinality(evicted) = 1
      BY <3>4, FS_Singleton
    <3>7. Cardinality(Kept(p)) = n
      BY <2>1, KeptCount
    <3>8. \A v \in evicted, w \in Kept(p) : v.at <= w.at
      BY <2>14, <3>4, <3>5
    <3> QED BY <3>5, <3>6, <3>7, <3>8
  <2> QED BY <2>5, <2>13, <2>15, <2>16
<1> QED BY <1>1, <1>2

\* A step that stores no version.
LEMMA VersionsRest ==
  ASSUME HistoryInv, versions' = versions, mount' \in MountConfigs, now' = now \/ now' = now + 1
  PROVE  HistoryInv' /\ \A p \in FsPaths : EvictsTheOldest(p)
<1>1. now \in Nat /\ now' \in Nat /\ now <= now'
  BY DEF HistoryInv
<1>2. ASSUME NEW p \in FsPaths PROVE Slots(p)' /\ EvictsTheOldest(p)
  <2>1. Slots(p)
    BY DEF HistoryInv
  <2>2. \A s \in DOMAIN versions[p] : versions[p][s].at \in Nat /\ versions[p][s].at < now'
    BY <1>1, <2>1 DEF Slots
  <2>3. Slots(p)'
    BY <2>1, <2>2 DEF Slots
  <2>4. Kept(p)' = Kept(p)
    BY DEF Kept
  <2> QED BY <2>3, <2>4 DEF EvictsTheOldest
<1> QED BY <1>1, <1>2 DEF HistoryInv

\* What a step may do to the histories.
HistoryStep ==
  \A p \in FsPaths :
    /\ EvictsTheOldest(p)
    /\ (outcome' = "complete" /\ versions'[p] # versions[p] /\ content[p] # Absent)
         => Holds(p, content[p])

\* Every step numbers the slots and evicts as it may.
LEMMA HistoryKept == HistoryInv /\ [FsNext]_fsVars => HistoryInv' /\ HistoryStep
<1> SUFFICES ASSUME HistoryInv, [FsNext]_fsVars PROVE HistoryInv' /\ HistoryStep
  OBVIOUS
<1>0. mount \in MountConfigs
  BY DEF HistoryInv
<1>1. ASSUME NEW p \in FsPaths, NEW lost, StoreVersion(p, lost), mount' = mount,
             outcome' # "restored" /\ content[p] # Absent => lost = content[p]
      PROVE  HistoryInv' /\ HistoryStep
  <2>1. /\ HistoryInv' /\ EvictsTheOldest(p)
        /\ \A q \in FsPaths \ {p} : versions'[q] = versions[q]
        /\ versions'[p] = versions[p] \/ Holds(p, lost)
    BY <1>1, VersionStored
  <2>2. \A q \in FsPaths \ {p} : EvictsTheOldest(q)
    BY <2>1 DEF EvictsTheOldest, Kept
  <2> QED BY <1>1, <2>1, <2>2 DEF HistoryStep
<1>2. ASSUME versions' = versions, mount' \in MountConfigs, now' = now \/ now' = now + 1
      PROVE  HistoryInv' /\ HistoryStep
  BY <1>2, VersionsRest DEF HistoryStep
<1>3. ASSUME NEW a, NEW p \in FsPaths, NEW t, WriteFile(a, p, t) PROVE HistoryInv' /\ HistoryStep
  BY <1>1, <1>3 DEF WriteFile
<1>4. ASSUME NEW a, NEW p \in FsPaths, DeleteFile(a, p) PROVE HistoryInv' /\ HistoryStep
  BY <1>1, <1>4 DEF DeleteFile
<1>5. ASSUME NEW p \in FsPaths, NEW s, RestoreVersion(p, s) PROVE HistoryInv' /\ HistoryStep
  BY <1>1, <1>5 DEF RestoreVersion
<1>6. ASSUME NEW a, NEW p, Inspect(a, p) PROVE HistoryInv' /\ HistoryStep
  BY <1>0, <1>2, <1>6 DEF Inspect, historyVars
<1>7. ASSUME NEW a, NEW p, NEW r, Refuse(a, p, r) PROVE HistoryInv' /\ HistoryStep
  BY <1>0, <1>2, <1>7 DEF Refuse, historyVars
<1>8. ASSUME NEW a, NEW d, DeleteDirectory(a, d) PROVE HistoryInv' /\ HistoryStep
  BY <1>0, <1>2, <1>8 DEF DeleteDirectory, historyVars
<1>9. ASSUME NEW p, InspectMissing(p) PROVE HistoryInv' /\ HistoryStep
  BY <1>0, <1>2, <1>9 DEF InspectMissing, historyVars
<1>10. ASSUME NEW p, NEW t, OtherWrites(p, t) PROVE HistoryInv' /\ HistoryStep
  BY <1>0, <1>2, <1>10 DEF OtherWrites
<1>11. ASSUME NEW m \in MountConfigs, ReloadConfig(m) PROVE HistoryInv' /\ HistoryStep
  BY <1>2, <1>11 DEF ReloadConfig, historyVars
<1>12. ASSUME NEW w, Subscribe(w) PROVE HistoryInv' /\ HistoryStep
  BY <1>0, <1>2, <1>12 DEF Subscribe, historyVars
<1>13. CASE RemoveSessionSubscriptions
  BY <1>0, <1>2, <1>13 DEF RemoveSessionSubscriptions, historyVars
<1>14. CASE PollOnce
  BY <1>0, <1>2, <1>14 DEF PollOnce, historyVars
<1>15. CASE UNCHANGED fsVars
  BY <1>0, <1>2, <1>15 DEF fsVars, historyVars
<1> QED
  BY <1>3, <1>4, <1>5, <1>6, <1>7, <1>8, <1>9, <1>10, <1>11, <1>12, <1>13, <1>14, <1>15 DEF FsNext

\* A write, a deletion or a restoration evicts at most the oldest version, and that
\* only from a full history; the text that a call took away is in the history.
THEOREM HistoriesKeepTheNewest == FsSpec => HistoryKeepsTheNewest
<1>1. FsInit => HistoryInv
  <2>1. \A p \in FsPaths : FsInit => DOMAIN versions[p] = 1..0 /\ 1..0 = {}
    BY DEF FsInit
  <2> QED BY <2>1 DEF FsInit, HistoryInv, Slots
<1>2. HistoryInv /\ [FsNext]_fsVars => HistoryInv'
  BY HistoryKept
<1>3. HistoryInv /\ [FsNext]_fsVars =>
        [\A p \in FsPaths :
           LET evicted == Kept(p) \ Kept(p)'
           IN /\ evicted # {} =>
                   /\ Cardinality(Kept(p)) >= mount.depth /\ Cardinality(evicted) = 1
                   /\ \A v \in evicted, w \in Kept(p) : v.at <= w.at
              /\ (outcome' = "complete" /\ versions'[p] # versions[p] /\ content[p] # Absent)
                   => \E v \in Kept(p)' : v.text = content[p] /\ v.at = now]_fsVars
  BY HistoryKept DEF HistoryStep, EvictsTheOldest, Holds
<1> QED BY <1>1, <1>2, <1>3, PTL DEF FsSpec, HistoryKeepsTheNewest
-----------------------------------------------------------------------------
(* The code index *)

CodeSpec == CodeInit /\ [][CodeNext]_codeVars

\* What is ever indexed: files of the languages that are read, outside the excluded
\* directories.
CodeFiles == UNION {Contents[p] : p \in CodePaths}
Readable == {p \in CodePaths : ~Excluded(p) /\ Languages[p] # "none"}
Indexes == UNION {[D -> CodeFiles] : D \in SUBSET Readable}
TakenTimes == UNION {[D -> Nat] : D \in SUBSET CodePaths}

CodeTypes ==
  /\ saves \in Nat /\ stirred \in BOOLEAN
  /\ codeDisk \in [CodePaths -> CodeFiles \cup {NoFile}]
  /\ \A p \in CodePaths : codeDisk[p] \in Contents[p] \cup {NoFile}
  /\ changed \in [CodePaths -> Nat] /\ \A p \in CodePaths : changed[p] <= saves
  /\ indexes \in Seq(Indexes) /\ watching \in 0..Len(indexes) /\ serving \in 0..Len(indexes)
  /\ savedIndex \in Indexes \cup {NoFile}
  /\ known \in TakenTimes /\ \A p \in DOMAIN known : known[p] <= saves
  /\ scan \in [left : SUBSET CodePaths, seen : TakenTimes, under : BOOLEAN]
  /\ \A p \in DOMAIN scan.seen : scan.seen[p] <= saves
  /\ scan.under => watching # 0
  /\ ~scan.under => scan.left = {} /\ DOMAIN scan.seen = {}

\* What an index holds of a file is what the file holds.
Current(index, p) ==
  IF Indexable(p) THEN p \in DOMAIN index /\ index[p] = codeDisk[p] ELSE p \notin DOMAIN index

\* The file of that time has been indexed since it was last changed.
UpToDate(times) == \A p \in DOMAIN times : times[p] = changed[p] => Current(indexes[watching], p)

\* Every document was met by a scan, or was there before the first.
Met == DOMAIN indexes[watching] \subseteq DOMAIN known \cup DOMAIN scan.seen \cup unmet

\* Of an undisturbed scan: the files it has to visit, and has met, are the ones there.
Visits(times, left) ==
  \A p \in CodePaths : /\ p \in Watched => p \in left \/ (p \in DOMAIN times /\ times[p] = changed[p])
                       /\ p \in DOMAIN times => p \in OnDisk

WatcherInv ==
  watching # 0 => /\ UpToDate(known) /\ UpToDate(scan.seen) /\ Met
                  /\ ~stirred => IF scan.under THEN Visits(scan.seen, scan.left) ELSE Visits(known, {})

CodeInv == CodeTypes /\ WatcherInv

\* At the start there are no files and there is no index.
LEMMA CodeInitially == CodeInit => CodeInv
<1> SUFFICES ASSUME CodeInit PROVE CodeInv
  OBVIOUS
<1>1. DOMAIN <<>> = {} /\ <<>> \in [{} -> Nat]
  OBVIOUS
<1>2. <<>> \in TakenTimes
  BY <1>1 DEF TakenTimes
<1>3. indexes \in Seq(Indexes) /\ Len(indexes) = 0
  BY DEF CodeInit
<1>4. scan \in [left : SUBSET CodePaths, seen : TakenTimes, under : BOOLEAN]
      /\ scan.left = {} /\ scan.seen = <<>> /\ ~scan.under
  BY <1>2 DEF CodeInit, NoScan
<1>5. watching = 0 /\ serving = 0 /\ watching \in 0..Len(indexes) /\ serving \in 0..Len(indexes)
  BY <1>3 DEF CodeInit
<1>6. /\ codeDisk \in [CodePaths -> CodeFiles \cup {NoFile}]
      /\ \A p \in CodePaths : codeDisk[p] \in Contents[p] \cup {NoFile}
      /\ changed \in [CodePaths -> Nat] /\ \A p \in CodePaths : changed[p] <= saves
      /\ saves \in Nat /\ stirred \in BOOLEAN /\ savedIndex \in Indexes \cup {NoFile}
  <2>1. codeDisk = [p \in CodePaths |-> NoFile] /\ changed = [p \in CodePaths |-> 0] /\ saves = 0
    BY DEF CodeInit
  <2>2. stirred = FALSE /\ savedIndex = NoFile
    BY DEF CodeInit
  <2>3. codeDisk \in [CodePaths -> CodeFiles \cup {NoFile}]
    BY <2>1
  <2>4. \A p \in CodePaths : codeDisk[p] \in Contents[p] \cup {NoFile}
    BY <2>1
  <2>5. changed \in [CodePaths -> Nat] /\ \A p \in CodePaths : changed[p] <= saves
    BY <2>1
  <2> QED BY <2>1, <2>2, <2>3, <2>4, <2>5
<1>7. known \in TakenTimes /\ DOMAIN known = {} /\ DOMAIN scan.seen = {}
  BY <1>1, <1>2, <1>4 DEF CodeInit
<1>8. CodeTypes
  BY <1>3, <1>4, <1>5, <1>6, <1>7 DEF CodeTypes
<1> QED BY <1>5, <1>8 DEF CodeInv, WatcherInv

\* What index_file and remove_file make of an index.
LEMMA Reindexing ==
  ASSUME CodeTypes, NEW index \in Indexes, NEW p \in CodePaths
  PROVE  /\ Reindexed(index, p) \in Indexes /\ Current(Reindexed(index, p), p)
         /\ DOMAIN Reindexed(index, p) \subseteq DOMAIN index \cup {p}
         /\ \A q \in CodePaths : q # p /\ Current(index, q) => Current(Reindexed(index, p), q)
<1>1. PICK D \in SUBSET Readable : index \in [D -> CodeFiles]
  BY DEF Indexes
<1>2. CASE Indexable(p)
  <2>1. Reindexed(index, p) = [x \in D \cup {p} |-> IF x = p THEN codeDisk[p] ELSE index[x]]
    BY <1>1, <1>2 DEF Reindexed, WithKey
  <2>2. codeDisk[p] \in CodeFiles
    BY <1>2 DEF CodeTypes, Indexable, OnDisk
  <2>3. D \cup {p} \in SUBSET Readable
    BY <1>2 DEF Readable, Indexable
  <2>4. Reindexed(index, p) \in [D \cup {p} -> CodeFiles]
    BY <1>1, <2>1, <2>2
  <2>5. Reindexed(index, p) \in Indexes
    BY <2>3, <2>4 DEF Indexes
  <2> QED BY <1>1, <1>2, <2>1, <2>5 DEF Current
<1>3. CASE ~Indexable(p)
  <2>1. Reindexed(index, p) = [x \in D \ {p} |-> index[x]]
    BY <1>1, <1>3 DEF Reindexed, Unindexed
  <2>2. D \ {p} \in SUBSET Readable /\ Reindexed(index, p) \in [D \ {p} -> CodeFiles]
    BY <1>1, <2>1
  <2>3. Reindexed(index, p) \in Indexes
    BY <2>2 DEF Indexes
  <2> QED BY <1>1, <1>3, <2>1, <2>3 DEF Current
<1> QED BY <1>2, <1>3

\* A new index object does not touch the others.
LEMMA Served ==
  ASSUME CodeTypes, NEW index \in Indexes, Serve(index)
  PROVE  /\ indexes' \in Seq(Indexes) /\ watching \in 0..Len(indexes') /\ serving' \in 0..Len(indexes')
         /\ watching # 0 => indexes'[watching] = indexes[watching]
<1>1. indexes' = Append(indexes, index) /\ serving' = Len(indexes) + 1
  BY DEF Serve
<1>2. indexes \in Seq(Indexes) /\ Len(indexes) \in Nat /\ watching \in 0..Len(indexes)
  BY DEF CodeTypes
<1>3. Len(indexes') = Len(indexes) + 1 /\ \A i \in 1..Len(indexes) : indexes'[i] = indexes[i]
  BY <1>1, <1>2
<1> QED BY <1>1, <1>2, <1>3

\* A step that leaves the files and the watcher alone.
LEMMA WatcherKept ==
  ASSUME CodeInv, UNCHANGED <<codeDisk, changed, saves, watching, known, scan, unmet, stirred>>,
         indexes' \in Seq(Indexes), watching \in 0..Len(indexes'), serving' \in 0..Len(indexes'),
         watching # 0 => indexes'[watching] = indexes[watching],
         savedIndex' \in Indexes \cup {NoFile}
  PROVE  CodeInv'
<1>1. CodeTypes'
  BY DEF CodeInv, CodeTypes
<1>2. ASSUME watching # 0 PROVE UpToDate(known)' /\ UpToDate(scan.seen)' /\ Met'
  BY <1>2 DEF CodeInv, WatcherInv, UpToDate, Met, Current, Indexable, OnDisk
<1>3. Visits(known, {})' = Visits(known, {}) /\ Visits(scan.seen, scan.left)' = Visits(scan.seen, scan.left)
  BY DEF Visits, Watched, OnDisk
<1> QED BY <1>1, <1>2, <1>3 DEF CodeInv, WatcherInv

\* One file of a scan.
LEMMA FileVisited ==
  ASSUME CodeInv, NEW p \in CodePaths, VisitFile(p) PROVE CodeInv'
<1> USE DEF CodeInv
<1> DEFINE index == indexes[watching]
<1>1. /\ p \in scan.left /\ scan.under /\ watching # 0 /\ watching \in DOMAIN indexes /\ index \in Indexes
      /\ UNCHANGED <<codeDisk, changed, saves, serving, watching, known, savedIndex, unmet, stirred>>
  <2>1. p \in scan.left /\ scan.under /\ watching # 0
    BY DEF VisitFile, CodeTypes
  <2>2. watching \in 1..Len(indexes) /\ indexes \in Seq(Indexes)
    BY <2>1 DEF CodeTypes
  <2> QED BY <2>1, <2>2 DEF VisitFile
<1>2. PICK D \in SUBSET CodePaths : scan.seen \in [D -> Nat]
  BY DEF CodeTypes, TakenTimes
<1>3. \A q \in CodePaths : (Indexable(q)' <=> Indexable(q)) /\ (q \in OnDisk' <=> q \in OnDisk)
                           /\ (q \in Watched' <=> q \in Watched)
  BY <1>1 DEF Indexable, OnDisk, Watched
<1>4. CASE p \notin OnDisk
  <2>1. indexes' = indexes /\ scan' = [scan EXCEPT !.left = @ \ {p}]
    BY <1>4 DEF VisitFile, CodeTypes
  <2>2. scan'.left = scan.left \ {p} /\ scan'.seen = scan.seen /\ scan'.under = scan.under
    BY <2>1 DEF CodeTypes
  <2>3. CodeTypes'
    <3>1. scan' \in [left : SUBSET CodePaths, seen : TakenTimes, under : BOOLEAN]
      BY <2>1 DEF CodeTypes
    <3> QED BY <1>1, <2>1, <2>2, <3>1 DEF CodeTypes
  <2>4. UpToDate(known)' /\ UpToDate(scan.seen)' /\ Met'
    BY <1>1, <2>1, <2>2 DEF WatcherInv, UpToDate, Met, Current, Indexable, OnDisk
  <2>5. ~stirred => Visits(scan.seen, scan.left)'
    BY <1>1, <1>3, <1>4, <2>2 DEF WatcherInv, Visits, Watched
  <2> QED BY <1>1, <2>2, <2>3, <2>4, <2>5 DEF WatcherInv
<1>5. CASE p \in OnDisk
  <2> DEFINE times == WithKey(scan.seen, p, changed[p])
             new == IF p \notin DOMAIN known \/ known[p] # changed[p] THEN Reindexed(index, p) ELSE index
  <2>1. /\ scan' = [scan EXCEPT !.left = @ \ {p}, !.seen = times]
        /\ indexes' = [indexes EXCEPT ![watching] = new] \/ (indexes' = indexes /\ new = index)
    BY <1>5 DEF VisitFile
  <2>2. /\ DOMAIN times = D \cup {p} /\ times \in [D \cup {p} -> Nat] /\ times[p] = changed[p]
        /\ \A q \in D : q # p => times[q] = scan.seen[q]
    BY <1>2 DEF WithKey, CodeTypes
  <2>3. /\ new \in Indexes /\ Current(new, p) /\ DOMAIN new \subseteq DOMAIN index \cup {p}
        /\ \A q \in CodePaths : q # p /\ Current(index, q) => Current(new, q)
    <3>1. CASE p \notin DOMAIN known \/ known[p] # changed[p]
      BY <1>1, <3>1, Reindexing
    <3>2. CASE ~(p \notin DOMAIN known \/ known[p] # changed[p])
      BY <1>1, <3>2 DEF WatcherInv, UpToDate
    <3> QED BY <3>1, <3>2
  <2>4. \A x, q : Current(x, q)' <=> Current(x, q)
    BY <1>1 DEF Current, Indexable, OnDisk
  <2> HIDE DEF times, new, index
  <2>5. scan'.left = scan.left \ {p} /\ scan'.seen = times /\ scan'.under = scan.under
    BY <2>1 DEF CodeTypes
  <2>6. indexes' \in Seq(Indexes) /\ Len(indexes') = Len(indexes) /\ indexes'[watching] = new
    <3>1. indexes \in Seq(Indexes) /\ watching \in DOMAIN indexes /\ indexes[watching] = index
      BY <1>1 DEF CodeTypes, index
    <3>2. CASE indexes' = [indexes EXCEPT ![watching] = new]
      BY <2>3, <3>1, <3>2
    <3>3. CASE indexes' = indexes /\ new = index
      BY <3>1, <3>3
    <3> QED BY <2>1, <3>2, <3>3
  <2>7. times \in TakenTimes
    BY <2>2 DEF TakenTimes
  <2>8. CodeTypes'
    <3>1. scan' \in [left : SUBSET CodePaths, seen : TakenTimes, under : BOOLEAN]
      BY <2>1, <2>7 DEF CodeTypes
    <3>2. \A q \in DOMAIN times : times[q] <= saves
      BY <1>2, <2>2 DEF CodeTypes
    <3> QED BY <1>1, <2>5, <2>6, <3>1, <3>2 DEF CodeTypes
  <2>9. DOMAIN known \subseteq CodePaths
    BY DEF CodeTypes, TakenTimes
  <2>10. UpToDate(known)'
    <3>1. \A q \in DOMAIN known : known[q] = changed[q] => Current(index, q)
      BY <1>1 DEF WatcherInv, UpToDate, index
    <3>2. \A q \in DOMAIN known : known[q] = changed[q] => Current(new, q)
      BY <2>3, <2>9, <3>1
    <3> QED BY <1>1, <2>4, <2>6, <3>2 DEF UpToDate
  <2>11. UpToDate(scan.seen)'
    <3>1. \A q \in D : scan.seen[q] = changed[q] => Current(index, q)
      BY <1>1, <1>2 DEF WatcherInv, UpToDate, index
    <3>2. \A q \in D \cup {p} : times[q] = changed[q] => Current(new, q)
      BY <1>2, <2>2, <2>3, <3>1
    <3> QED BY <1>1, <2>2, <2>4, <2>5, <2>6, <3>2 DEF UpToDate
  <2>12. Met'
    <3>1. DOMAIN index \subseteq DOMAIN known \cup D \cup unmet
      BY <1>1, <1>2 DEF WatcherInv, Met, index
    <3> QED BY <1>1, <2>2, <2>3, <2>5, <2>6, <3>1 DEF Met
  <2>13. ~stirred => Visits(scan.seen, scan.left)'
    <3>1. ~stirred => \A q \in CodePaths :
            /\ q \in Watched => q \in scan.left \/ (q \in D /\ scan.seen[q] = changed[q])
            /\ q \in D => q \in OnDisk
      BY <1>1, <1>2 DEF WatcherInv, Visits
    <3>2. ~stirred => \A q \in CodePaths :
            /\ q \in Watched => q \in scan.left \ {p} \/ (q \in D \cup {p} /\ times[q] = changed[q])
            /\ q \in D \cup {p} => q \in OnDisk
      BY <1>5, <2>2, <3>1
    <3> QED BY <1>1, <1>3, <2>2, <2>5, <3>2 DEF Visits
  <2> QED BY <1>1, <2>5, <2>8, <2>10, <2>11, <2>12, <2>13 DEF WatcherInv
<1> QED BY <1>4, <1>5

\* The end of a scan: what it met is known, and only what it knew and did not meet
\* leaves the index.
LEMMA ScanEnded ==
  ASSUME CodeInv, EndScan PROVE CodeInv'
<1> USE DEF CodeInv
<1> DEFINE index == indexes[watching]
           seen == scan.seen
           new == [p \in DOMAIN index \ (DOMAIN known \ DOMAIN seen) |-> index[p]]
<1>1. /\ scan.under /\ watching # 0 /\ watching \in DOMAIN indexes /\ index \in Indexes
      /\ indexes \in Seq(Indexes) /\ scan.left = {} /\ known' = seen /\ scan' = NoScan
      /\ indexes' = [indexes EXCEPT ![watching] = new] /\ unmet' = unmet \ DOMAIN seen
      /\ UNCHANGED <<codeDisk, changed, saves, serving, watching, savedIndex, stirred>>
  <2>1. scan.under /\ watching # 0
    BY DEF EndScan, CodeTypes
  <2>2. watching \in 1..Len(indexes) /\ indexes \in Seq(Indexes)
    BY <2>1 DEF CodeTypes
  <2> QED BY <2>1, <2>2 DEF EndScan
<1>2. new \in Indexes /\ DOMAIN new = DOMAIN index \ (DOMAIN known \ DOMAIN seen)
      /\ \A p \in DOMAIN new : new[p] = index[p]
  <2>1. PICK D \in SUBSET Readable : index \in [D -> CodeFiles]
    BY <1>1 DEF Indexes
  <2>2. D \ (DOMAIN known \ DOMAIN seen) \in SUBSET Readable
        /\ new \in [D \ (DOMAIN known \ DOMAIN seen) -> CodeFiles]
    BY <2>1
  <2> QED BY <2>2 DEF Indexes
<1>3. seen \in TakenTimes /\ \A p \in DOMAIN seen : seen[p] <= saves
  BY DEF CodeTypes
<1>4. /\ \A p \in DOMAIN seen : seen[p] = changed[p] => Current(index, p)
      /\ DOMAIN index \subseteq DOMAIN known \cup DOMAIN seen \cup unmet
      /\ ~stirred => Visits(seen, {})
  BY <1>1 DEF WatcherInv, UpToDate, Met
<1>5. \A x, q : Current(x, q)' <=> Current(x, q)
  BY <1>1 DEF Current, Indexable, OnDisk
<1> HIDE DEF index, seen, new
<1>6. indexes' \in Seq(Indexes) /\ Len(indexes') = Len(indexes) /\ indexes'[watching] = new
  BY <1>1, <1>2
<1>7. DOMAIN scan'.seen = {} /\ scan'.left = {} /\ ~scan'.under
      /\ scan' \in [left : SUBSET CodePaths, seen : TakenTimes, under : BOOLEAN]
  <2>1. DOMAIN <<>> = {} /\ <<>> \in [{} -> Nat]
    OBVIOUS
  <2>2. <<>> \in TakenTimes
    BY <2>1 DEF TakenTimes
  <2> QED BY <1>1, <2>1, <2>2 DEF NoScan
<1>8. CodeTypes'
  BY <1>1, <1>3, <1>6, <1>7 DEF CodeTypes
<1>9. \A p \in DOMAIN seen : Current(index, p) => Current(new, p)
  BY <1>2 DEF Current
<1>10. UpToDate(known)' /\ UpToDate(scan.seen)'
  BY <1>1, <1>4, <1>5, <1>6, <1>7, <1>9 DEF UpToDate
<1>11. Met'
  BY <1>1, <1>2, <1>4, <1>6, <1>7 DEF Met
<1>12. ~stirred => Visits(known, {})'
  BY <1>1, <1>4 DEF Visits, Watched, OnDisk
<1> QED BY <1>1, <1>7, <1>8, <1>10, <1>11, <1>12 DEF WatcherInv

\* An edit gives the file a time that nobody has seen.
LEMMA FileEdited ==
  ASSUME CodeInv, NEW p \in CodePaths, NEW c \in Contents[p] \cup {NoFile}, EditFile(p, c)
  PROVE  CodeInv'
<1> USE DEF CodeInv
<1>1. /\ saves' = saves + 1 /\ saves \in Nat /\ stirred' = TRUE
      /\ codeDisk' = [codeDisk EXCEPT ![p] = c] /\ changed' = [changed EXCEPT ![p] = saves + 1]
      /\ UNCHANGED <<indexes, serving, watching, known, scan, savedIndex, unmet>>
  BY DEF EditFile, CodeTypes
<1>2. c \in CodeFiles \cup {NoFile}
  BY DEF CodeFiles
<1>3. /\ codeDisk' \in [CodePaths -> CodeFiles \cup {NoFile}]
      /\ \A q \in CodePaths : codeDisk'[q] \in Contents[q] \cup {NoFile}
  BY <1>1, <1>2 DEF CodeTypes
<1>4. changed' \in [CodePaths -> Nat] /\ \A q \in CodePaths : changed'[q] <= saves'
  BY <1>1 DEF CodeTypes
<1>5. /\ \A q \in DOMAIN known : known[q] \in Nat /\ known[q] <= saves /\ q \in CodePaths
      /\ \A q \in DOMAIN scan.seen : scan.seen[q] \in Nat /\ scan.seen[q] <= saves /\ q \in CodePaths
  BY DEF CodeTypes, TakenTimes
<1>6. CodeTypes'
  <2>1. \A q \in DOMAIN known : known[q] <= saves'
    BY <1>1, <1>5
  <2>2. \A q \in DOMAIN scan.seen : scan.seen[q] <= saves'
    BY <1>1, <1>5
  <2> QED BY <1>1, <1>3, <1>4, <2>1, <2>2 DEF CodeTypes
<1>7. ASSUME NEW f, \A q \in DOMAIN f : f[q] \in Nat /\ f[q] <= saves /\ q \in CodePaths,
             \A q \in DOMAIN f : f[q] = changed[q] => Current(indexes[watching], q)
      PROVE  \A q \in DOMAIN f : f[q] = changed'[q] => Current(indexes[watching], q)'
  <2> SUFFICES ASSUME NEW q \in DOMAIN f, f[q] = changed'[q] PROVE Current(indexes[watching], q)'
    OBVIOUS
  <2>1. q # p /\ changed'[q] = changed[q]
    BY <1>1, <1>7 DEF CodeTypes
  <2>2. codeDisk'[q] = codeDisk[q] /\ (Indexable(q)' <=> Indexable(q))
    BY <1>1, <1>7, <2>1 DEF CodeTypes, Indexable, OnDisk
  <2> QED BY <1>1, <1>7, <2>1, <2>2 DEF Current
<1>8. watching # 0 => UpToDate(known)' /\ UpToDate(scan.seen)' /\ Met'
  BY <1>1, <1>5, <1>7 DEF WatcherInv, UpToDate, Met
<1> QED BY <1>1, <1>6, <1>8 DEF WatcherInv

\* A scan that fails leaves no watcher.
LEMMA ScanFailed ==
  ASSUME CodeInv, NEW p \in CodePaths, ScanFails(p) PROVE CodeInv'
<1>1. /\ watching' = 0 /\ scan' = NoScan
      /\ UNCHANGED <<codeDisk, changed, saves, indexes, serving, known, savedIndex, unmet, stirred>>
  BY DEF ScanFails
<1>2. DOMAIN <<>> = {} /\ <<>> \in [{} -> Nat]
  OBVIOUS
<1>3. <<>> \in TakenTimes
  BY <1>2 DEF TakenTimes
<1>4. scan' \in [left : SUBSET CodePaths, seen : TakenTimes, under : BOOLEAN]
      /\ scan'.left = {} /\ DOMAIN scan'.seen = {} /\ ~scan'.under
  BY <1>1, <1>2, <1>3 DEF NoScan
<1>5. 0 \in 0..Len(indexes)
  BY DEF CodeInv, CodeTypes
<1>6. CodeTypes'
  BY <1>1, <1>4, <1>5 DEF CodeInv, CodeTypes
<1> QED BY <1>1, <1>6 DEF CodeInv, WatcherInv

\* Every step of the server, the watcher and the editors preserves it.
LEMMA CodeStep == CodeInv /\ [CodeNext]_codeVars => CodeInv'
<1> SUFFICES ASSUME CodeInv, [CodeNext]_codeVars PROVE CodeInv'
  OBVIOUS
<1> USE DEF CodeInv
<1>0. indexes \in Seq(Indexes) /\ watching \in 0..Len(indexes) /\ serving \in 0..Len(indexes)
      /\ savedIndex \in Indexes \cup {NoFile}
  BY DEF CodeTypes
<1>1. CASE BuildIndex
  <2>1. Built \in Indexes
    <3> DEFINE D == {q \in CodePaths : Indexable(q)}
    <3>1. D \in SUBSET Readable
      BY DEF Readable, Indexable
    <3>2. \A q \in D : codeDisk[q] \in CodeFiles
      BY DEF CodeTypes, Indexable, OnDisk
    <3>3. Built \in [D -> CodeFiles]
      BY <3>2 DEF Built
    <3> QED BY <3>1, <3>3 DEF Indexes
  <2> QED BY <1>0, <1>1, <2>1, Served, WatcherKept DEF BuildIndex
<1>2. CASE SaveIndex
  <2>1. serving \in 1..Len(indexes) /\ indexes[serving] \in Indexes
    BY <1>0, <1>2 DEF SaveIndex
  <2> QED BY <1>0, <1>2, <2>1, WatcherKept DEF SaveIndex
<1>3. CASE LoadIndex
  <2>1. savedIndex \in Indexes
    BY <1>0, <1>3 DEF LoadIndex
  <2> QED BY <1>0, <1>3, <2>1, Served, WatcherKept DEF LoadIndex
<1>4. CASE StartWatcher
  <2>1. /\ watching = 0 /\ watching' = serving /\ known' = <<>> /\ stirred' = TRUE
        /\ unmet' = DOMAIN indexes[serving]
        /\ UNCHANGED <<codeDisk, changed, saves, indexes, serving, scan, savedIndex>>
    BY <1>4 DEF StartWatcher
  <2>2. ~scan.under /\ DOMAIN scan.seen = {}
    BY <2>1 DEF CodeTypes
  <2>3. DOMAIN <<>> = {} /\ <<>> \in [{} -> Nat]
    OBVIOUS
  <2>4. <<>> \in TakenTimes
    BY <2>3 DEF TakenTimes
  <2>5. CodeTypes'
    BY <2>1, <2>2, <2>3, <2>4 DEF CodeTypes
  <2> QED BY <2>1, <2>2, <2>3, <2>5 DEF WatcherInv, UpToDate, Met
<1>5. CASE StopWatcher
  <2>1. /\ ~scan.under /\ watching' = 0
        /\ UNCHANGED <<codeDisk, changed, saves, indexes, serving, known, scan, savedIndex, unmet, stirred>>
    BY <1>5 DEF StopWatcher
  <2>2. 0 \in 0..Len(indexes)
    BY <1>0
  <2> QED BY <2>1, <2>2 DEF CodeTypes, WatcherInv
<1>6. CASE BeginScan
  <2>1. /\ watching # 0 /\ ~scan.under /\ stirred' = FALSE
        /\ scan' = [left |-> Watched, seen |-> <<>>, under |-> TRUE]
        /\ UNCHANGED <<codeDisk, changed, saves, indexes, serving, watching, known, savedIndex, unmet>>
    BY <1>6 DEF BeginScan
  <2>2. DOMAIN <<>> = {} /\ <<>> \in [{} -> Nat] /\ Watched \subseteq CodePaths
    BY DEF Watched, OnDisk
  <2>3. <<>> \in TakenTimes
    BY <2>2 DEF TakenTimes
  <2>4. scan'.left = Watched /\ scan'.under /\ DOMAIN scan'.seen = {}
    BY <2>1, <2>2
  <2>5. scan' \in [left : SUBSET CodePaths, seen : TakenTimes, under : BOOLEAN]
    BY <2>1, <2>2, <2>3
  <2>6. CodeTypes'
    BY <2>1, <2>4, <2>5 DEF CodeTypes
  <2>7. DOMAIN scan.seen = {}
    BY <2>1 DEF CodeTypes
  <2>8. UpToDate(known)' /\ UpToDate(scan.seen)' /\ Met'
    BY <2>1, <2>4, <2>7 DEF WatcherInv, UpToDate, Met, Current, Indexable, OnDisk
  <2>9. Visits(scan.seen, scan.left)'
    BY <2>1, <2>4 DEF Visits, Watched, OnDisk
  <2> QED BY <2>1, <2>4, <2>6, <2>8, <2>9 DEF WatcherInv
<1>7. CASE UNCHANGED codeVars
  BY <1>0, <1>7, WatcherKept DEF codeVars
<1> QED
  BY <1>1, <1>2, <1>3, <1>4, <1>5, <1>6, <1>7, FileVisited, ScanEnded, ScanFailed, FileEdited
  DEF CodeNext

\* What a search prefers to a file counts at least as much.
LEMMA FewRivalsNoLoss ==
  ASSUME NEW index \in Indexes, NEW n, NEW p \in DOMAIN index, Score(index, p, n) > 0,
         Cardinality(Rivals(index, n, p)) < SearchLimit
  PROVE  p \in Hits(index, n)
<1> DEFINE preferred == {q \in Scoring(index, n) : RankedBefore(index, n, q, p)}
<1>1. \A q \in DOMAIN index : Score(index, q, n) \in Nat
  BY DEF Score
<1>2. preferred \subseteq Rivals(index, n, p)
  <2> SUFFICES ASSUME NEW q \in preferred PROVE q \in Rivals(index, n, p)
    OBVIOUS
  <2>1. q \in DOMAIN index /\ RankedBefore(index, n, q, p)
    BY DEF Scoring
  <2>2. q # p
    BY <1>1, <2>1, SearchesAreBounded DEF RankedBefore, Indexes, Readable
  <2>3. Score(index, q, n) >= Score(index, p, n)
    BY <1>1, <2>1 DEF RankedBefore
  <2> QED BY <2>1, <2>2, <2>3 DEF Rivals
<1>3. IsFiniteSet(Rivals(index, n, p))
  <2>1. Rivals(index, n, p) \subseteq CodePaths
    BY DEF Rivals, Indexes, Readable
  <2> QED BY <2>1, SearchesAreBounded, FS_Subset
<1>4. /\ Cardinality(preferred) <= Cardinality(Rivals(index, n, p))
      /\ Cardinality(preferred) \in Nat /\ Cardinality(Rivals(index, n, p)) \in Nat
  <2> HIDE DEF preferred
  <2> QED BY <1>2, <1>3, FS_Subset, FS_CardinalityType
<1>5. Cardinality(preferred) < SearchLimit
  BY <1>4, SearchesAreBounded
<1>6. p \in Scoring(index, n)
  BY DEF Scoring
<1> QED BY <1>5, <1>6 DEF Hits

\* A function of an indexed file is among its symbols, under its name.
LEMMA FunctionsAreFound ==
  ASSUME CodeInv, NEW index \in Indexes, NEW p \in DOMAIN index, p \in OnDisk,
         index[p] = codeDisk[p], NEW n \in FunctionNames(p)
  PROVE  /\ \E s \in Functions(index, n) : s.path = p
         /\ n \in Holders[n] \cup NamesInPath[p] \cup index[p].shown
              /\ Cardinality(Rivals(index, n, p)) < SearchLimit => p \in Hits(index, n)
<1> DEFINE tree == codeDisk[p].tree
<1>1. PICK i \in DOMAIN tree : tree[i].type \in {"function", "method"} /\ n = tree[i].name
  BY DEF FunctionNames
<1>2. p \in CodePaths /\ Languages[p] # "none"
  BY DEF Indexes, Readable
<1>3. codeDisk[p] \in Contents[p]
  BY <1>2 DEF CodeInv, CodeTypes, OnDisk
<1>4. /\ Languages[p] \in {"python", "javascript", "java", "go"}
      /\ Languages[p] = "python" => tree[i].type = "function"
      /\ Languages[p] = "java" => tree[i].type = "method"
  BY <1>1, <1>2, <1>3, CodeConstants
<1> HIDE DEF tree
<1>5. \E kind \in {"function", "method"} : Symbol(tree, i, 1, kind) \in SymbolsOf(Languages[p], tree)
  <2>0. Callable(tree, i) \in {"function", "method"}
    BY DEF Callable
  <2>1. CASE Languages[p] = "python"
    <3>1. i \in NodesOf(tree, {"function"})
      BY <1>1, <1>4, <2>1 DEF NodesOf
    <3>2. <<i, 1>> \in {y \in NodesOf(tree, {"function"}) \X {1, 2} : y[2] = 1 \/ Decorated(tree, y[1])}
      BY <3>1
    <3>3. Symbol(tree, i, 1, Callable(tree, i)) \in PythonSymbols(tree)
      BY <3>2 DEF PythonSymbols
    <3> QED BY <2>0, <2>1, <3>3 DEF SymbolsOf
  <2>2. CASE Languages[p] = "javascript"
    <3>1. Symbol(tree, i, 1, tree[i].type) \in JavascriptSymbols(tree)
      BY <1>1 DEF JavascriptSymbols, NodesOf
    <3> QED BY <1>1, <2>2, <3>1 DEF SymbolsOf
  <2>3. CASE Languages[p] = "java"
    <3>1. Symbol(tree, i, 1, Callable(tree, i)) \in JavaSymbols(tree)
      BY <1>1, <1>4, <2>3 DEF JavaSymbols, NodesOf
    <3> QED BY <2>0, <2>3, <3>1 DEF SymbolsOf
  <2>4. CASE Languages[p] = "go"
    <3>1. Symbol(tree, i, 1, tree[i].type) \in GoSymbols(tree)
      BY <1>1 DEF GoSymbols, NodesOf
    <3> QED BY <1>1, <2>4, <3>1 DEF SymbolsOf
  <2> QED BY <1>4, <2>1, <2>2, <2>3, <2>4
<1>6. PICK kind \in {"function", "method"} : Symbol(tree, i, 1, kind) \in SymbolsOf(Languages[p], tree)
  BY <1>5
<1> DEFINE s == [path |-> p, of |-> Symbol(tree, i, 1, kind)]
<1>7. s \in SymbolsIn(index) /\ s.path = p /\ s.of.name = n /\ s.of.kind = kind
  BY <1>1, <1>6 DEF SymbolsIn, Symbol, tree
<1> HIDE DEF s
<1>8. \E x \in Functions(index, n) : x.path = p
  BY <1>7 DEF Functions
<1>9. n \in Holders[n] \cup NamesInPath[p] \cup index[p].shown => Score(index, p, n) > 0
  BY <1>7 DEF Score
<1> QED BY <1>8, <1>9, FewRivalsNoLoss

\* After a scan that nobody disturbed the watcher's index holds what the files hold.
THEOREM TheIndexFollows == CodeSpec => []IndexFollowsDisk
<1>1. CodeInv => IndexFollowsDisk
  <2> SUFFICES ASSUME CodeInv, watching # 0, ~scan.under, ~stirred PROVE IndexFollowsDisk
    BY DEF IndexFollowsDisk
  <2> DEFINE index == indexes[watching]
             stale == unmet \ OnDisk
  <2>1. index \in Indexes
    BY DEF CodeInv, CodeTypes
  <2>2. /\ \A p \in DOMAIN known : known[p] = changed[p] => Current(index, p)
        /\ DOMAIN index \subseteq DOMAIN known \cup unmet
        /\ Visits(known, {})
    BY DEF CodeInv, CodeTypes, WatcherInv, UpToDate, Met
  <2>3. \A p \in DOMAIN index : p \in CodePaths /\ ~Excluded(p)
    BY <2>1 DEF Indexes, Readable
  <2> HIDE DEF index
  <2>4. ASSUME NEW p \in CodePaths \ stale PROVE Current(index, p)
    <3>1. CASE p \in Watched
      BY <2>2, <3>1 DEF Visits
    <3>2. CASE p \notin Watched
      <4>1. ~Indexable(p)
        BY <3>2 DEF Indexable, Watched
      <4>2. p \notin DOMAIN index
        BY <2>2, <2>3, <2>4, <3>2 DEF Visits, Watched
      <4> QED BY <4>1, <4>2 DEF Current
    <3> QED BY <3>1, <3>2
  <2>5. ASSUME NEW p \in DOMAIN index \ stale, NEW n \in FunctionNames(p)
        PROVE  /\ \E s \in Functions(index, n) : s.path = p
               /\ n \in Holders[n] \cup NamesInPath[p] \cup index[p].shown
                    /\ Cardinality(Rivals(index, n, p)) < SearchLimit => p \in Hits(index, n)
    <3>1. Current(index, p)
      BY <2>3, <2>4, <2>5
    <3>2. p \in OnDisk /\ index[p] = codeDisk[p]
      BY <2>5, <3>1 DEF Current, Indexable
    <3> QED BY <2>1, <2>5, <3>2, FunctionsAreFound
  <2> QED BY <2>4, <2>5 DEF IndexFollowsDisk, Current, index
<1> QED BY <1>1, CodeInitially, CodeStep, PTL DEF CodeSpec
-----------------------------------------------------------------------------
(* The excerpts of searches *)

SearchSpec == SearchInit /\ [][ExcerptNext \/ RgNext]_searchVars

TextLines == Seq([kind : STRING, level : Nat, hit : BOOLEAN])

\* A block of the line n, and two blocks of which one holds the other or that do
\* not meet.
BlockOf(s, n, lines) ==
  s.first \in 1..Len(lines) /\ s.last \in 1..Len(lines) /\ s.first <= n /\ n <= s.last
Nested(s, t) ==
  \/ s.first <= t.first /\ t.last <= s.last
  \/ t.first <= s.first /\ s.last <= t.last
  \/ s.last < t.first \/ t.last < s.first

\* Two symbols of a file may also share the line where the one ends and the other begins.
Meet(type, s, t) ==
  \/ Nested(s, t)
  \/ (type \in {"class", "function"} /\ (s.last <= t.first \/ t.last <= s.first))

\* No blank line in a block, and no second heading of a level as high as the one it
\* begins with.
NoBlank(s, lines) == \A k \in s.first..s.last : ~Blank(lines, k)
NoHeading(s, lines) ==
  Heading(lines, s.first) =>
    \A k \in (s.first..s.last) \ {s.first} :
       ~(Heading(lines, k) /\ lines[k].level <= lines[s.first].level)

\* The least and the greatest of some lines.
LEMMA EndLines ==
  ASSUME NEW n \in Nat, NEW I \in SUBSET (1..n), I # {}
  PROVE  /\ Min(I) \in I /\ \A j \in I : Min(I) <= j
         /\ Max(I) \in I /\ \A j \in I : j <= Max(I)
<1>1. PICK i \in I : \A j \in I : i <= j
  BY EndPositions
<1>2. PICK l \in I : \A j \in I : j <= l
  BY EndPositions
<1>3. Min(I) \in I /\ \A j \in I : Min(I) <= j
  BY <1>1 DEF Min
<1>4. Max(I) \in I /\ \A j \in I : Max(I) >= j
  <2>1. \A j \in I : l >= j
    BY <1>2
  <2> QED BY <2>1 DEF Max
<1>5. \A j \in I : j <= Max(I)
  BY <1>4
<1> QED BY <1>3, <1>4, <1>5

\* Paragraphs: two that meet are the same.
LEMMA Paragraphs ==
  ASSUME NEW lines \in TextLines, NEW n \in 1..Len(lines), NEW m \in 1..Len(lines),
         NEW s \in NonblankSpan(lines, n), NEW t \in NonblankSpan(lines, m)
  PROVE  BlockOf(s, n, lines) /\ NoBlank(s, lines) /\ Nested(s, t)
<1>1. Len(lines) \in Nat
  BY DEF TextLines
<1>2. ASSUME NEW k \in 1..Len(lines), NEW u \in NonblankSpan(lines, k)
      PROVE  /\ BlockOf(u, k, lines) /\ NoBlank(u, lines)
             /\ u.first = 1 \/ Blank(lines, u.first - 1)
             /\ u.last = Len(lines) \/ Blank(lines, u.last + 1)
  <2>1. PICK x \in 1..k, y \in k..Len(lines) : u = Span(x, y)
    BY <1>2 DEF NonblankSpan
  <2>2. u.first = x /\ u.last = y
    BY <2>1 DEF Span
  <2>3. x \in 1..Len(lines) /\ y \in 1..Len(lines) /\ x <= k /\ k <= y
    BY <1>1
  <2>4. /\ \A j \in u.first..u.last : ~Blank(lines, j)
        /\ u.first = 1 \/ Blank(lines, u.first - 1)
        /\ u.last = Len(lines) \/ Blank(lines, u.last + 1)
    BY <1>2 DEF NonblankSpan
  <2> QED BY <2>2, <2>3, <2>4 DEF BlockOf, NoBlank
<1>3. /\ s.first \in 1..Len(lines) /\ s.last \in 1..Len(lines)
      /\ t.first \in 1..Len(lines) /\ t.last \in 1..Len(lines)
  BY <1>2 DEF BlockOf
<1>4. ASSUME ~Nested(s, t) PROVE FALSE
  <2>1. CASE s.first < t.first
    <3>1. t.first - 1 \in s.first..s.last /\ t.first # 1
      BY <1>3, <1>4, <2>1 DEF Nested
    <3> QED BY <1>2, <3>1 DEF NoBlank
  <2>2. CASE t.first < s.first
    <3>1. s.first - 1 \in t.first..t.last /\ s.first # 1
      BY <1>3, <1>4, <2>2 DEF Nested
    <3> QED BY <1>2, <3>1 DEF NoBlank
  <2>3. CASE s.first = t.first
    BY <1>3, <1>4, <2>3 DEF Nested
  <2> QED BY <1>3, <2>1, <2>2, <2>3
<1> QED BY <1>2, <1>4

\* The lines that look like a heading.
Headings(lines) == {h \in DOMAIN lines : Heading(lines, h)}

\* A section begins at a heading and ends before the next one as high, or it is the
\* lines before the first heading.
SectionShape(s, lines) ==
  \/ /\ s.first = 1 /\ \A k \in s.first..s.last : k \notin Headings(lines)
  \/ /\ s.first \in Headings(lines)
     /\ \A k \in (s.first..s.last) \ {s.first} :
          ~(k \in Headings(lines) /\ lines[k].level <= lines[s.first].level)
     /\ \/ s.last = Len(lines)
        \/ s.last + 1 \in Headings(lines) /\ lines[s.last + 1].level <= lines[s.first].level

\* The section around a line has that shape.
LEMMA SectionOfLine ==
  ASSUME NEW lines \in TextLines, NEW n \in 1..Len(lines), NEW s \in SectionSpan(lines, n)
  PROVE  BlockOf(s, n, lines) /\ SectionShape(s, lines)
<1> DEFINE H == Headings(lines)
           mine == {h \in H : h <= n}
           next == {h \in H : h > Max(mine) /\ lines[h].level <= lines[Max(mine)].level}
<1>0. Len(lines) \in Nat /\ H \in SUBSET (1..Len(lines)) /\ DOMAIN lines = 1..Len(lines)
  BY DEF TextLines, Headings
<1>1. s = IF H = {} THEN Span(1, Len(lines))
          ELSE IF mine = {} THEN Span(1, Min(H) - 1)
          ELSE Span(Max(mine), IF next = {} THEN Len(lines) ELSE Min(next) - 1)
  BY DEF SectionSpan, Headings
<1>2. CASE H = {}
  <2>1. s.first = 1 /\ s.last = Len(lines)
    BY <1>1, <1>2 DEF Span
  <2> QED BY <1>0, <1>2, <2>1 DEF BlockOf, SectionShape
<1>3. CASE H # {} /\ mine = {}
  <2>1. Min(H) \in H /\ \A j \in H : Min(H) <= j
    BY <1>0, <1>3, EndLines
  <2>2. s.first = 1 /\ s.last = Min(H) - 1
    BY <1>1, <1>3 DEF Span
  <2>3. n < Min(H)
    BY <1>0, <1>3, <2>1
  <2> HIDE DEF H
  <2>4. \A k \in s.first..s.last : k \notin H
    <3>1. PICK x \in H : x = Min(H) /\ \A j \in H : x <= j
      BY <2>1
    <3>2. s.first = 1 /\ s.last = x - 1 /\ x \in Nat
      BY <1>0, <2>2, <3>1
    <3> SUFFICES ASSUME NEW k \in s.first..s.last, k \in H PROVE FALSE
      OBVIOUS
    <3>3. x <= k /\ k \in Nat /\ k <= x - 1
      BY <3>1, <3>2
    <3> QED BY <3>2, <3>3
  <2> QED BY <1>0, <2>1, <2>2, <2>3, <2>4 DEF BlockOf, SectionShape, H
<1>4. CASE H # {} /\ mine # {}
  <2> DEFINE h == Max(mine)
             e == IF next = {} THEN Len(lines) ELSE Min(next) - 1
  <2>1. mine \in SUBSET (1..Len(lines)) /\ mine \subseteq H /\ \A j \in mine : j <= n
    BY <1>0
  <2>2. h \in mine /\ \A j \in mine : j <= h
    BY <1>0, <1>4, <2>1, EndLines
  <2>3. s.first = h /\ s.last = e
    BY <1>1, <1>4 DEF Span
  <2>4. next = {j \in H : j > h /\ lines[j].level <= lines[h].level}
    OBVIOUS
  <2>5. \A j \in H : j > h => j > n
    <3> SUFFICES ASSUME NEW j \in H, j > h, ~(j > n) PROVE FALSE
      OBVIOUS
    <3>1. j \in Nat /\ h \in Nat
      BY <1>0, <2>1, <2>2
    <3>2. j \in mine
      BY <3>1
    <3> HIDE DEF mine, h, H
    <3>3. j <= h
      BY <2>2, <3>2
    <3> QED BY <3>1, <3>3
  <2> HIDE DEF h, mine, next, H
  <2>6. h \in H /\ h \in 1..Len(lines) /\ h <= n
    BY <1>0, <2>1, <2>2
  <2>7. CASE next = {}
    <3>1. e = Len(lines)
      BY <2>7
    <3>2. BlockOf(s, n, lines)
      BY <1>0, <2>3, <2>6, <3>1 DEF BlockOf
    <3>3. \A k \in (h..e) \ {h} : ~(k \in H /\ lines[k].level <= lines[h].level)
      BY <1>0, <2>4, <2>6, <2>7, <3>1
    <3> QED BY <2>3, <2>6, <3>1, <3>2, <3>3 DEF SectionShape, H
  <2>8. CASE next # {}
    <3>1. next \in SUBSET (1..Len(lines))
      BY <1>0, <2>4
    <3>2. Min(next) \in next /\ \A j \in next : Min(next) <= j
      BY <1>0, <2>8, <3>1, EndLines
    <3>3. PICK x \in next : x = Min(next) /\ \A j \in next : x <= j
      BY <3>2
    <3>4. e = x - 1 /\ x \in H /\ x > h /\ x > n /\ lines[x].level <= lines[h].level /\ x \in 1..Len(lines)
      BY <2>4, <2>5, <2>8, <3>1, <3>3
    <3> HIDE DEF e
    <3>5. BlockOf(s, n, lines)
      BY <1>0, <2>3, <2>6, <3>4 DEF BlockOf
    <3>6. \A k \in (h..e) \ {h} : ~(k \in H /\ lines[k].level <= lines[h].level)
      <4> SUFFICES ASSUME NEW k \in (h..e) \ {h}, k \in H, lines[k].level <= lines[h].level PROVE FALSE
        OBVIOUS
      <4>1. k > h /\ k < x /\ k \in Int
        BY <2>6, <3>4
      <4>2. k \in next
        BY <2>4, <4>1
      <4> QED BY <3>3, <3>4, <4>1, <4>2
    <3>7. e + 1 = x
      BY <3>4
    <3> QED BY <2>3, <2>6, <3>4, <3>5, <3>6, <3>7 DEF SectionShape, H
  <2> QED BY <2>7, <2>8
<1> QED BY <1>2, <1>3, <1>4

\* Two sections: one of a lower heading ends within the one around it.
LEMMA Sections ==
  ASSUME NEW lines \in TextLines, NEW n \in 1..Len(lines), NEW m \in 1..Len(lines),
         NEW s \in SectionSpan(lines, n), NEW t \in SectionSpan(lines, m)
  PROVE  BlockOf(s, n, lines) /\ NoHeading(s, lines) /\ Nested(s, t)
<1>0. Len(lines) \in Nat /\ DOMAIN lines = 1..Len(lines) /\ \A k \in 1..Len(lines) : lines[k].level \in Nat
  <2>1. \A k \in 1..Len(lines) : lines[k] \in [kind : STRING, level : Nat, hit : BOOLEAN]
    BY ElementOfSeq DEF TextLines
  <2> QED BY <2>1 DEF TextLines
<1>1. BlockOf(s, n, lines) /\ SectionShape(s, lines) /\ BlockOf(t, m, lines) /\ SectionShape(t, lines)
  BY SectionOfLine
<1>2. /\ s.first \in 1..Len(lines) /\ s.last \in 1..Len(lines) /\ s.first <= s.last
      /\ t.first \in 1..Len(lines) /\ t.last \in 1..Len(lines) /\ t.first <= t.last
  BY <1>0, <1>1 DEF BlockOf
<1>3. NoHeading(s, lines)
  <2> SUFFICES ASSUME Heading(lines, s.first), NEW k \in (s.first..s.last) \ {s.first}, Heading(lines, k)
               PROVE  ~(lines[k].level <= lines[s.first].level)
    BY DEF NoHeading
  <2>1. s.first \in Headings(lines) /\ k \in Headings(lines) /\ s.first \in s.first..s.last
    <3>1. k \in 1..Len(lines)
      BY <1>0, <1>2
    <3> QED BY <1>0, <1>2, <3>1 DEF Headings
  <2> QED BY <1>1, <2>1 DEF SectionShape
<1>4. ASSUME NEW u, NEW v, SectionShape(u, lines), SectionShape(v, lines), u.first < v.first,
             u.first \in 1..Len(lines), u.last \in 1..Len(lines), u.first <= u.last,
             v.first \in 1..Len(lines), v.last \in 1..Len(lines), v.first <= v.last, v.first <= u.last
      PROVE  v.last <= u.last
  <2>1. v.first # 1 /\ v.first \in (u.first..u.last) \ {u.first}
    BY <1>0, <1>4
  <2>2. /\ v.first \in Headings(lines)
        /\ \A k \in (v.first..v.last) \ {v.first} :
             ~(k \in Headings(lines) /\ lines[k].level <= lines[v.first].level)
    BY <1>4, <2>1 DEF SectionShape
  <2>3. /\ ~(lines[v.first].level <= lines[u.first].level)
        /\ \/ u.last = Len(lines)
           \/ u.last + 1 \in Headings(lines) /\ lines[u.last + 1].level <= lines[u.first].level
    BY <1>4, <2>1, <2>2 DEF SectionShape
  <2>4. CASE u.last = Len(lines)
    BY <1>4, <2>4
  <2>5. CASE u.last + 1 \in Headings(lines) /\ lines[u.last + 1].level <= lines[u.first].level
    <3>1. u.last + 1 \in 1..Len(lines)
      BY <1>0, <2>5 DEF Headings
    <3>2. lines[u.last + 1].level <= lines[v.first].level
      <4>1. PICK a \in Nat, b \in Nat, c \in Nat :
              a = lines[u.last + 1].level /\ b = lines[u.first].level /\ c = lines[v.first].level
        BY <1>0, <1>4, <3>1
      <4>2. a <= b /\ ~(c <= b)
        BY <2>3, <2>5, <4>1
      <4>3. a <= c
        BY <4>2
      <4> QED BY <4>1, <4>3, Zenon
    <3>3. u.last + 1 \notin (v.first..v.last) \ {v.first}
      BY <2>2, <2>5, <3>2
    <3>4. ~(u.last + 1 <= v.last)
      BY <1>4, <3>1, <3>3
    <3>5. u.last \in Nat /\ v.last \in Nat
      BY <1>0, <1>4
    <3> QED BY <3>4, <3>5
  <2> QED BY <2>3, <2>4, <2>5
<1>5. Nested(s, t)
  <2>1. CASE s.first < t.first
    BY <1>1, <1>2, <1>4, <2>1 DEF Nested
  <2>2. CASE t.first < s.first
    BY <1>1, <1>2, <1>4, <2>2 DEF Nested
  <2>3. CASE s.first = t.first
    BY <1>2, <2>3 DEF Nested
  <2> QED BY <1>2, <2>1, <2>2, <2>3
<1> QED BY <1>1, <1>3, <1>5

\* What a block of a supported type is, for the symbols the file has.
LEMMA Blocks ==
  ASSUME NEW f \in SearchFiles, NEW body \in FileTexts, NEW symbols,
         NEW type \in Supported(f), GroupOf[f] = "code" => symbols = body.symbols,
         NEW n \in DOMAIN body.lines, NEW m \in DOMAIN body.lines,
         NEW s \in BlockSpan(f, body.lines, symbols, type, n),
         NEW t \in BlockSpan(f, body.lines, symbols, type, m)
  PROVE  /\ BlockOf(s, n, body.lines) /\ Meet(type, s, t)
         /\ type = "paragraph" => NoBlank(s, body.lines)
         /\ type = "section" /\ GroupOf[f] \in {"document", "markup"} => NoHeading(s, body.lines)
<1> DEFINE lines == body.lines
<1>1. lines \in TextLines /\ Len(lines) \in Nat /\ DOMAIN lines = 1..Len(lines)
  <2>1. lines \in TextLines
    BY SearchConstants DEF TextLines
  <2> QED BY <2>1 DEF TextLines
<1> HIDE DEF lines
<1>2. n \in 1..Len(lines) /\ m \in 1..Len(lines)
  BY <1>1 DEF lines
<1>3. /\ s \in BlockSpan(f, lines, symbols, type, n) /\ t \in BlockSpan(f, lines, symbols, type, m)
  BY DEF lines
<1>4. ASSUME s = Span(n, n), t = Span(m, m) PROVE BlockOf(s, n, lines) /\ Nested(s, t)
  <2>1. s.first = n /\ s.last = n /\ t.first = m /\ t.last = m
    BY <1>4 DEF Span
  <2> QED BY <1>2, <2>1 DEF BlockOf, Nested
<1>5. ASSUME s = Span(1, Len(lines)), t = Span(1, Len(lines)) PROVE BlockOf(s, n, lines) /\ Nested(s, t)
  <2>1. s.first = 1 /\ s.last = Len(lines) /\ t.first = 1 /\ t.last = Len(lines)
    BY <1>5 DEF Span
  <2> QED BY <1>1, <1>2, <2>1 DEF BlockOf, Nested
<1>6. CASE type \in {"line", "sentence"}
  BY <1>3, <1>4, <1>6 DEF BlockSpan, lines, Meet
<1>7. CASE type = "module"
  BY <1>3, <1>5, <1>7 DEF BlockSpan, lines, Meet
<1>8. CASE type = "paragraph"
  <2>1. s \in NonblankSpan(lines, n) /\ t \in NonblankSpan(lines, m)
    BY <1>3, <1>8 DEF BlockSpan
  <2> QED BY <1>1, <1>2, <1>8, <2>1, Paragraphs DEF lines, Meet
<1>9. CASE type = "section" /\ GroupOf[f] \in {"document", "markup"}
  <2>1. s \in SectionSpan(lines, n) /\ t \in SectionSpan(lines, m)
    BY <1>3, <1>9 DEF BlockSpan
  <2> QED BY <1>1, <1>2, <1>9, <2>1, Sections DEF lines, Meet
<1>10. CASE type = "section" /\ GroupOf[f] \notin {"document", "markup"}
  <2>1. s \in NonblankSpan(lines, n) /\ t \in NonblankSpan(lines, m)
    BY <1>3, <1>10 DEF BlockSpan
  <2> QED BY <1>1, <1>2, <1>10, <2>1, Paragraphs DEF lines, Meet
<1>11. CASE type = "entry"
  <2>1. s = Span(n, n) /\ t = Span(m, m)
    BY <1>3, <1>11 DEF BlockSpan
  <2> QED BY <1>4, <1>11, <2>1 DEF lines, Meet
<1>12. CASE type = "object"
  <2>1. s = Span(1, Len(lines)) /\ t = Span(1, Len(lines))
    BY <1>3, <1>12 DEF BlockSpan
  <2> QED BY <1>5, <1>12, <2>1 DEF lines, Meet
<1>13. CASE type \in {"class", "function"}
  <2>1. s \in CodeSpan(symbols, type, n) /\ t \in CodeSpan(symbols, type, m)
    BY <1>3, <1>13 DEF BlockSpan
  <2>2. GroupOf[f] = "code"
    BY <1>13, SearchConstants DEF Supported
  <2>3. ASSUME NEW k, NEW u \in CodeSpan(symbols, type, k)
        PROVE  \E x \in body.symbols :
                 x.type = type /\ x.first <= k /\ k <= x.last /\ u.first = x.first /\ u.last = x.last
    <3>1. PICK x \in symbols : x.type = type /\ x.first <= k /\ k <= x.last /\ u = Span(x.first, x.last)
      BY <2>3 DEF CodeSpan
    <3> QED BY <2>2, <3>1 DEF Span
  <2>4. PICK x \in body.symbols : x.type = type /\ x.first <= n /\ n <= x.last /\ s.first = x.first /\ s.last = x.last
    BY <2>1, <2>3
  <2>5. PICK y \in body.symbols : y.type = type /\ t.first = y.first /\ t.last = y.last
    BY <2>1, <2>3
  <2>6. Meet(type, s, t)
    BY <1>13, <2>4, <2>5, SearchConstants DEF Meet, Nested
  <2>7. BlockOf(s, n, lines)
    <3>1. x.first \in 1..Len(lines) /\ x.last \in x.first..Len(lines)
      BY SearchConstants DEF lines
    <3> QED BY <1>1, <2>4, <3>1 DEF BlockOf
  <2> QED BY <1>13, <2>6, <2>7 DEF lines
<1> QED
  <2>1. type \in {"line", "sentence", "module", "paragraph", "section", "entry", "object", "class", "function"}
    BY SearchConstants DEF Supported
  <2> QED BY <1>6, <1>7, <1>8, <1>9, <1>10, <1>11, <1>12, <1>13, <2>1

\* What a discovery chooses is a block of a type that was asked for.
LEMMA ChosenBlock ==
  ASSUME NEW f, NEW lines, NEW symbols, NEW types, NEW n,
         DOMAIN types = 1..Len(types), Len(types) \in Nat, NEW b \in Chosen(f, lines, symbols, types, n)
  PROVE  \E i \in DOMAIN types : b.type = types[i] /\ b.span \in BlockSpan(f, lines, symbols, b.type, n)
<1> DEFINE given == {i \in DOMAIN types : BlockSpan(f, lines, symbols, types[i], n) # {}}
<1>1. given # {}
  BY DEF Chosen
<1>2. PICK s \in BlockSpan(f, lines, symbols, types[Min(given)], n) : b = [type |-> types[Min(given)], span |-> s]
  BY DEF Chosen
<1>3. given \in SUBSET (1..Len(types)) /\ Len(types) \in Nat /\ DOMAIN types = 1..Len(types)
  OBVIOUS
<1>4. Min(given) \in given
  BY <1>1, <1>3, EndLines
<1>5. given \subseteq DOMAIN types
  OBVIOUS
<1> HIDE DEF given
<1> QED BY <1>2, <1>4, <1>5

\* The blocks of a discovery.
LEMMA Discovered ==
  ASSUME page \in [SearchFiles -> FileTexts], NEW f \in SearchFiles, NEW request \in Requests,
         DiscoverExcerpts(f, request)
  PROVE  ExcerptsHoldTheirLines'
<1> DEFINE types == IF request = <<>> THEN Defaults(f) ELSE request
           body == page[f]
           lines == body.lines
           hits == {n \in DOMAIN lines : lines[n].hit}
           symbols == IF Indexed(f, types) = NoIndex THEN {} ELSE Indexed(f, types)[f]
           fresh == GroupOf[f] # "code" \/ symbols = body.symbols
           blocks == UNION {Chosen(f, lines, symbols, types, n) : n \in hits}
<1>1. /\ \A i \in DOMAIN types : types[i] \in Supported(f)
      /\ found' = {[file |-> f, type |-> b.type, span |-> b.span, text |-> body, fresh |-> fresh,
                    hits |-> {n \in hits : b \in Chosen(f, lines, symbols, types, n)}] : b \in blocks}
  BY DEF DiscoverExcerpts
<1>2. DOMAIN types = 1..Len(types) /\ Len(types) \in Nat
  <2>1. DOMAIN Defaults(f) = 1..Len(Defaults(f)) /\ Len(Defaults(f)) \in Nat
    <3>1. \/ Defaults(f) = <<"paragraph", "section", "line">>
          \/ Defaults(f) = <<"function", "class", "line", "module">>
          \/ Defaults(f) = <<"entry", "section", "line">>
      BY SearchConstants DEF Defaults
    <3>2. CASE Defaults(f) = <<"paragraph", "section", "line">>
      BY <3>2
    <3>3. CASE Defaults(f) = <<"function", "class", "line", "module">>
      BY <3>3
    <3>4. CASE Defaults(f) = <<"entry", "section", "line">>
      BY <3>4
    <3> QED BY <3>1, <3>2, <3>3, <3>4
  <2> QED BY <2>1, SearchConstants
<1>3. body \in FileTexts
  OBVIOUS
<1>4. hits \subseteq DOMAIN lines
  OBVIOUS
<1> HIDE DEF types, body, symbols, hits, fresh
<1>5. ASSUME NEW n \in hits, NEW b \in Chosen(f, lines, symbols, types, n)
      PROVE  b.type \in Supported(f) /\ b.span \in BlockSpan(f, lines, symbols, b.type, n)
  <2>1. PICK i \in DOMAIN types : b.type = types[i] /\ b.span \in BlockSpan(f, lines, symbols, b.type, n)
    BY <1>2, <1>5, ChosenBlock
  <2> QED BY <1>1, <2>1
<1>6. ASSUME fresh, NEW b \in blocks, NEW c \in blocks, b.type = c.type,
             NEW n \in hits, b \in Chosen(f, lines, symbols, types, n)
      PROVE  /\ BlockOf(b.span, n, lines) /\ Meet(b.type, b.span, c.span)
             /\ b.type = "paragraph" => NoBlank(b.span, lines)
             /\ b.type = "section" /\ GroupOf[f] \in {"document", "markup"} => NoHeading(b.span, lines)
  <2>1. PICK m \in hits : c \in Chosen(f, lines, symbols, types, m)
    OBVIOUS
  <2>2. /\ b.type \in Supported(f) /\ b.span \in BlockSpan(f, lines, symbols, b.type, n)
        /\ c.span \in BlockSpan(f, lines, symbols, b.type, m)
    BY <1>5, <1>6, <2>1
  <2>3. GroupOf[f] = "code" => symbols = body.symbols
    BY <1>6 DEF fresh
  <2> QED BY <1>3, <1>4, <2>1, <2>2, <2>3, Blocks
<1> HIDE DEF blocks, lines
<1>7. ASSUME NEW r \in found', r.fresh
      PROVE  LET inside == r.span.first..r.span.last
             IN /\ inside # {} /\ inside \subseteq DOMAIN r.text.lines /\ r.hits # {} /\ r.hits \subseteq inside
                /\ r.type = "paragraph" => \A n \in inside : ~Blank(r.text.lines, n)
                /\ r.type = "section" /\ GroupOf[r.file] \in {"document", "markup"}
                     /\ Heading(r.text.lines, r.span.first) =>
                     \A n \in inside \ {r.span.first} :
                        ~(Heading(r.text.lines, n) /\ r.text.lines[n].level <= r.text.lines[r.span.first].level)
                /\ \A q \in found' : q.type = r.type =>
                     LET other == q.span.first..q.span.last
                     IN \/ other \subseteq inside \/ inside \subseteq other \/ other \cap inside = {}
                        \/ /\ r.type \in {"class", "function"}
                           /\ r.span.last = q.span.first \/ q.span.last = r.span.first
  <2> DEFINE inside == r.span.first..r.span.last
  <2>1. PICK b \in blocks :
          /\ r.type = b.type /\ r.span = b.span /\ r.file = f /\ r.text.lines = lines /\ r.fresh = fresh
          /\ r.hits = {n \in hits : b \in Chosen(f, lines, symbols, types, n)}
    BY <1>1 DEF lines
  <2>2. PICK n \in hits : b \in Chosen(f, lines, symbols, types, n)
    BY DEF blocks
  <2>3. /\ BlockOf(b.span, n, lines)
        /\ r.type = "paragraph" => NoBlank(b.span, lines)
        /\ r.type = "section" /\ GroupOf[f] \in {"document", "markup"} => NoHeading(b.span, lines)
    BY <1>6, <1>7, <2>1, <2>2
  <2>4. ASSUME NEW m \in r.hits PROVE BlockOf(b.span, m, lines) /\ m \in DOMAIN lines
    <3>1. m \in hits /\ b \in Chosen(f, lines, symbols, types, m)
      BY <2>1, <2>4
    <3> QED BY <1>4, <1>6, <1>7, <2>1, <3>1
  <2>5. Len(lines) \in Nat /\ DOMAIN lines = 1..Len(lines)
    <3>1. lines \in TextLines
      BY <1>3, SearchConstants DEF TextLines, lines
    <3> QED BY <3>1 DEF TextLines
  <2>6. n \in r.hits
    BY <2>1, <2>2
  <2>7. inside # {} /\ inside \subseteq DOMAIN lines
    <3>1. r.span.first \in 1..Len(lines) /\ r.span.last \in 1..Len(lines)
          /\ r.span.first <= n /\ n <= r.span.last /\ n \in 1..Len(lines)
      BY <2>1, <2>3, <2>4, <2>5, <2>6 DEF BlockOf
    <3>2. n \in inside
      BY <2>5, <3>1
    <3> QED BY <2>5, <3>1, <3>2
  <2>8. r.hits \subseteq inside
    <3> SUFFICES ASSUME NEW m \in r.hits PROVE m \in inside
      OBVIOUS
    <3>1. /\ r.span.first \in 1..Len(lines) /\ r.span.last \in 1..Len(lines)
          /\ r.span.first <= m /\ m <= r.span.last /\ m \in 1..Len(lines)
      BY <2>1, <2>4, <2>5 DEF BlockOf
    <3> QED BY <2>5, <3>1
  <2>9. ASSUME NEW q \in found', q.type = r.type
        PROVE  LET other == q.span.first..q.span.last
               IN \/ other \subseteq inside \/ inside \subseteq other \/ other \cap inside = {}
                  \/ /\ r.type \in {"class", "function"}
                     /\ r.span.last = q.span.first \/ q.span.last = r.span.first
    <3>1. PICK c \in blocks : q.type = c.type /\ q.span = c.span
      BY <1>1
    <3>2. PICK m \in hits : c \in Chosen(f, lines, symbols, types, m)
      BY DEF blocks
    <3>3. b.type = c.type
      BY <2>1, <2>9, <3>1
    <3>4. Meet(r.type, r.span, q.span)
      BY <1>6, <1>7, <2>1, <2>2, <3>1, <3>3
    <3>5. BlockOf(c.span, m, lines)
      BY <1>6, <1>7, <2>1, <3>2, <3>3
    <3>6. /\ r.span.first \in Int /\ r.span.last \in Int /\ q.span.first \in Int /\ q.span.last \in Int
      BY <2>1, <2>3, <2>5, <3>1, <3>5 DEF BlockOf
    <3>7. CASE Nested(r.span, q.span)
      BY <3>6, <3>7 DEF Nested
    <3>8. CASE r.type \in {"class", "function"} /\ (r.span.last <= q.span.first \/ q.span.last <= r.span.first)
      <4>1. \/ r.span.last = q.span.first \/ q.span.last = r.span.first
            \/ r.span.last < q.span.first \/ q.span.last < r.span.first
        BY <3>6, <3>8
      <4> QED BY <3>6, <3>8, <4>1
    <3> QED BY <3>4, <3>7, <3>8 DEF Meet
  <2> HIDE DEF inside
  <2>10. r.type = "paragraph" => \A k \in inside : ~Blank(r.text.lines, k)
    BY <2>1, <2>3 DEF NoBlank, inside
  <2>11. r.type = "section" /\ GroupOf[r.file] \in {"document", "markup"} /\ Heading(r.text.lines, r.span.first) =>
           \A k \in inside \ {r.span.first} :
              ~(Heading(r.text.lines, k) /\ r.text.lines[k].level <= r.text.lines[r.span.first].level)
    BY <2>1, <2>3 DEF NoHeading, inside
  <2> QED BY <2>1, <2>6, <2>7, <2>8, <2>9, <2>10, <2>11 DEF inside
<1> QED BY <1>7 DEF ExcerptsHoldTheirLines

\* The files are among those there may be, and the blocks found last are right.
SearchInv == page \in [SearchFiles -> FileTexts] /\ ExcerptsHoldTheirLines

\* A block that was found lies in its file and holds the lines that matched, whatever
\* is written since; blocks of one type are nested or apart, but that two symbols may
\* share the line where the one ends and the other begins.
THEOREM ExcerptsAreWhole == SearchSpec => []ExcerptsHoldTheirLines
<1>1. SearchInit => SearchInv
  BY DEF SearchInit, SearchInv, ExcerptsHoldTheirLines
<1>2. SearchInv /\ [ExcerptNext \/ RgNext]_searchVars => SearchInv'
  <2> SUFFICES ASSUME SearchInv, [ExcerptNext \/ RgNext]_searchVars PROVE SearchInv'
    OBVIOUS
  <2>1. ASSUME NEW f \in SearchFiles, NEW q \in Requests, DiscoverExcerpts(f, q) PROVE SearchInv'
    <3>1. page' = page
      BY <2>1 DEF DiscoverExcerpts
    <3> QED BY <2>1, <3>1, Discovered DEF SearchInv
  <2>2. ASSUME page' \in [SearchFiles -> FileTexts], found' = found PROVE SearchInv'
    BY <2>2 DEF SearchInv, ExcerptsHoldTheirLines
  <2>3. ASSUME NEW f \in SearchFiles, NEW t \in FileTexts, Rewrite(f, t) PROVE SearchInv'
    BY <2>2, <2>3 DEF Rewrite, SearchInv
  <2>4. ASSUME NEW r, RetrieveExcerpt(r) PROVE SearchInv'
    BY <2>2, <2>4 DEF RetrieveExcerpt, SearchInv
  <2>5. ASSUME NEW q, NEW state, NEW child, NEW result, RgTo(q, state, child, result) PROVE SearchInv'
    BY <2>2, <2>5 DEF RgTo, SearchInv
  <2>6. CASE RgNext
    BY <2>5, <2>6 DEF RgNext, RunRg, RgEnds, RgFails, RgTimesOut, RgCancelled, OrphanEnds
  <2>7. CASE UNCHANGED searchVars
    BY <2>2, <2>7 DEF searchVars, SearchInv
  <2> QED BY <2>1, <2>3, <2>4, <2>6, <2>7 DEF ExcerptNext
<1>3. SearchInv => ExcerptsHoldTheirLines
  BY DEF SearchInv
<1> QED BY <1>1, <1>2, <1>3, PTL DEF SearchSpec

-----------------------------------------------------------------------------
(* The logs *)

LogSpec == LogInit /\ [][LogNext]_logVars

LogLines == [id : Nat, day : Nat, agent : LogAgents \cup {"none"}, whole : BOOLEAN]

\* The lines of the logs, and what was written since each was last moved: the torn
\* line of a log is its last.
LogBase ==
  /\ logLive \in [LogNames -> Seq(LogLines)] /\ logArchive \in [LogNames -> Seq(LogLines)]
  /\ written \in Nat /\ today \in Nat /\ unended \subseteq LogNames
  /\ since \in [LogNames -> SUBSET Nat]
  /\ \A l \in LogNames : since[l] = {line.id : line \in {x \in ToSet(logLive[l]) : x.whole}}
  /\ \A l \in unended : Len(logLive[l]) > 0 /\ ~logLive[l][Len(logLive[l])].whole

\* The record i of a log is on a page that is still to come.
Ahead0(l, agent, i) == Ahead(logLive[l], Records(l, agent), i)
ToCome(i) == /\ i \in Records(reader.log, reader.agent)
             /\ (reader.page - 1) * PageSize <= Ahead0(reader.log, reader.agent, i)

\* An entry that was there when the reader began was moved away, or read, or comes.
Reached(id) ==
  \/ id \in Archived(reader.log)
  \/ id \in reader.seen
  \/ ~reader.over /\ \E i \in DOMAIN logLive[reader.log] : logLive[reader.log][i].id = id /\ ToCome(i)

\* The summary the reader was shown.
Summarised ==
  LET groups == reader.buckets
  IN /\ reader.agent # "none" => DOMAIN groups \subseteq {reader.agent}
     /\ reader.total = Cardinality(UNION {{a} \X (1..groups[a].calls) : a \in DOMAIN groups})

ReaderInv ==
  reader = NoReader \/
    /\ reader.log \in LogNames /\ reader.page \in Nat \ {0}
    /\ DOMAIN reader = DOMAIN NoReader
    /\ \A id \in reader.there : Reached(id)
    /\ reader.over /\ reader.log = "tokens" => Summarised

\* How many records come before one of them: no two have as many before them.
LEMMA AheadProperties ==
  ASSUME NEW lines \in Seq(LogLines), NEW I \in SUBSET (1..Len(lines))
  PROVE  /\ Cardinality(I) \in Nat
         /\ \A i \in I : Ahead(lines, I, i) \in Nat /\ Ahead(lines, I, i) < Cardinality(I)
         /\ \A i, j \in I : Ahead(lines, I, i) = Ahead(lines, I, j) => i = j
<1> DEFINE Earlier(i) == {j \in I : Before(lines, j, i)}
<1>1. Len(lines) \in Nat /\ \A i \in I : lines[i].day \in Nat /\ i \in Nat
  <2>1. \A i \in 1..Len(lines) : lines[i] \in LogLines
    BY ElementOfSeq
  <2> QED BY <2>1 DEF LogLines
<1>2. IsFiniteSet(I) /\ Cardinality(I) \in Nat
  BY <1>1, PositionsFinite
<1>3. ASSUME NEW i \in I
      PROVE  IsFiniteSet(Earlier(i)) /\ Cardinality(Earlier(i)) \in Nat /\ Cardinality(Earlier(i)) < Cardinality(I)
  <2>1. Earlier(i) \in SUBSET I /\ i \notin Earlier(i)
    BY <1>1 DEF Before
  <2>2. IsFiniteSet(Earlier(i)) /\ Cardinality(Earlier(i)) <= Cardinality(I) /\ Cardinality(Earlier(i)) # Cardinality(I)
    BY <1>2, <2>1, FS_Subset
  <2>3. Cardinality(Earlier(i)) \in Nat
    BY <2>2, FS_CardinalityType
  <2> QED BY <1>2, <2>2, <2>3
<1>4. ASSUME NEW i \in I, NEW j \in I, Before(lines, i, j) PROVE Cardinality(Earlier(i)) < Cardinality(Earlier(j))
  <2>1. i \in Earlier(j) /\ i \notin Earlier(i)
    BY <1>1, <1>4 DEF Before
  <2>2. Earlier(i) \in SUBSET Earlier(j)
    <3> SUFFICES ASSUME NEW k \in I, Before(lines, k, i) PROVE Before(lines, k, j)
      OBVIOUS
    <3> QED BY <1>1, <1>4 DEF Before
  <2>3. Cardinality(Earlier(i)) <= Cardinality(Earlier(j)) /\ Cardinality(Earlier(i)) # Cardinality(Earlier(j))
    BY <1>3, <2>1, <2>2, FS_Subset
  <2>4. Cardinality(Earlier(i)) \in Nat /\ Cardinality(Earlier(j)) \in Nat
    BY <1>3
  <2> HIDE DEF Earlier
  <2> QED BY <2>3, <2>4
<1>5. ASSUME NEW i \in I, NEW j \in I, Cardinality(Earlier(i)) = Cardinality(Earlier(j)) PROVE i = j
  <2>0. Cardinality(Earlier(i)) \in Nat /\ Cardinality(Earlier(j)) \in Nat
    BY <1>3
  <2>1. ~Before(lines, i, j) /\ ~Before(lines, j, i)
    <3>1. /\ Before(lines, i, j) => Cardinality(Earlier(i)) < Cardinality(Earlier(j))
          /\ Before(lines, j, i) => Cardinality(Earlier(j)) < Cardinality(Earlier(i))
      BY <1>4
    <3> HIDE DEF Earlier
    <3> QED BY <1>5, <2>0, <3>1
  <2> QED BY <1>1, <2>1 DEF Before
<1> QED BY <1>2, <1>3, <1>5 DEF Ahead

\* The record with as many before it as fill the earlier pages, and fewer than fill
\* this one too, is on this page.
LEMMA OnThePage ==
  ASSUME NEW lines \in Seq(LogLines), NEW I \in SUBSET (1..Len(lines)), NEW i \in I,
         NEW turned \in Nat \ {0},
         (turned - 1) * PageSize <= Ahead(lines, I, i), Ahead(lines, I, i) < turned * PageSize
  PROVE  lines[i] \in ToSet(PageOf(Descending(lines, I), turned))
<1> DEFINE D == Descending(lines, I)
           n == Cardinality(I)
           k == Ahead(lines, I, i) + 1
           lo == (turned - 1) * PageSize
           hi == turned * PageSize
           last == IF hi < n THEN hi ELSE n
           S == {D[j] : j \in 1..n}
<1>1. n \in Nat /\ k \in 1..n /\ \A j \in I : Ahead(lines, I, j) = Ahead(lines, I, i) => j = i
  <2>1. /\ Cardinality(I) \in Nat /\ Ahead(lines, I, i) \in Nat
        /\ Ahead(lines, I, i) < Cardinality(I)
        /\ \A j \in I : Ahead(lines, I, j) = Ahead(lines, I, i) => j = i
    BY AheadProperties
  <2> QED BY <2>1
<1>2. lo \in Nat /\ hi \in Nat
  BY LogConstants
<1>3. D = [j \in 1..n |-> lines[CHOOSE x \in I : Ahead(lines, I, x) = j - 1]]
  BY DEF Descending
<1>4. D[k] = lines[i]
  <2>1. Ahead(lines, I, i) \in Nat /\ Ahead(lines, I, i) = k - 1
    <3>1. Ahead(lines, I, i) \in Nat
      BY AheadProperties
    <3> QED BY <3>1
  <2>2. (CHOOSE x \in I : Ahead(lines, I, x) = k - 1) = i
    BY <1>1, <2>1
  <2> QED BY <1>1, <1>3, <2>2
<1>5. D \in Seq(S) /\ Len(D) = n
  <2>1. D \in [1..n -> S]
    BY <1>3
  <2> HIDE DEF D, n, S
  <2>2. D \in Seq(S)
    BY <1>1, <2>1, SeqDef
  <2> QED BY <1>1, <2>1, <2>2
<1>6. PageOf(D, turned) = SubSeq(D, lo + 1, last)
  BY <1>5 DEF PageOf
<1>7. lo + 1 <= k /\ k <= last
  BY <1>1, <1>2, AheadProperties
<1> HIDE DEF D, k, lo, hi, S
<1>8. last \in Nat /\ last <= n
  BY <1>1, <1>2
<1> HIDE DEF last, n
<1>9. /\ Len(SubSeq(D, lo + 1, last)) = last - (lo + 1) + 1
      /\ \A j \in 1..(last - (lo + 1) + 1) : SubSeq(D, lo + 1, last)[j] = D[(lo + 1) + j - 1]
      /\ SubSeq(D, lo + 1, last) \in Seq(S)
  <2>1. lo + 1 \in Int /\ last \in Int /\ lo + 1 <= last /\ \A j \in (lo + 1)..last : D[j] \in S
    <3>1. \A j \in (lo + 1)..last : j \in 1..n
      BY <1>1, <1>2, <1>8
    <3>2. \A j \in 1..n : D[j] \in S
      BY <1>5, ElementOfSeq
    <3> QED BY <1>1, <1>2, <1>7, <1>8, <3>1, <3>2
  <2>2. D \in Seq(S)
    BY <1>5
  <2>3. PICK m : m = lo + 1
    OBVIOUS
  <2>4. /\ SubSeq(D, m, last) \in Seq(S)
        /\ Len(SubSeq(D, m, last)) = IF m <= last THEN last - m + 1 ELSE 0
        /\ \A j \in 1..(last - m + 1) : SubSeq(D, m, last)[j] = D[m + j - 1]
    BY <2>1, <2>2, <2>3, SubSeqProperties
  <2> QED BY <2>1, <2>3, <2>4
<1>10. k - lo \in 1..(last - (lo + 1) + 1) /\ (lo + 1) + (k - lo) - 1 = k
  BY <1>1, <1>2, <1>7, <1>8
<1>11. SubSeq(D, lo + 1, last)[k - lo] = D[k] /\ k - lo \in DOMAIN SubSeq(D, lo + 1, last)
  <2>1. DOMAIN SubSeq(D, lo + 1, last) = 1..(last - (lo + 1) + 1)
    BY <1>9
  <2> QED BY <1>9, <1>10, <2>1
<1> QED BY <1>4, <1>6, <1>11 DEF ToSet, D

\* The buckets count each record once.
LEMMA BucketsCount ==
  ASSUME NEW lines \in Seq(LogLines), NEW I \in SUBSET (1..Len(lines))
  PROVE  LET groups == Buckets(lines, I)
         IN /\ DOMAIN groups = {lines[i].agent : i \in I}
            /\ Cardinality(I) = Cardinality(UNION {{a} \X (1..groups[a].calls) : a \in DOMAIN groups})
<1> DEFINE groups == Buckets(lines, I)
           mine(a) == {i \in I : lines[i].agent = a}
           Pairs == UNION {{a} \X (1..groups[a].calls) : a \in DOMAIN groups}
           f == [i \in I |-> <<lines[i].agent, RankIn(mine(lines[i].agent), i)>>]
<1>1. Len(lines) \in Nat /\ IsFiniteSet(I)
  BY LenProperties, PositionsFinite
<1>2. DOMAIN groups = {lines[i].agent : i \in I} /\ \A a \in DOMAIN groups : groups[a].calls = Cardinality(mine(a))
  BY DEF Buckets
<1>3. \A a : mine(a) \in SUBSET (1..Len(lines)) /\ mine(a) \subseteq I
  OBVIOUS
<1>4. \A a, i : i \in mine(a) <=> i \in I /\ lines[i].agent = a
  OBVIOUS
<1> HIDE DEF groups, mine
<1>5. ASSUME NEW a
      PROVE  /\ \A i \in mine(a) : RankIn(mine(a), i) \in 1..Cardinality(mine(a))
             /\ \A k \in 1..Cardinality(mine(a)) : \E i \in mine(a) : RankIn(mine(a), i) = k
             /\ \A i, j \in mine(a) : i < j => RankIn(mine(a), i) < RankIn(mine(a), j)
  BY <1>1, <1>3, RanksAreNumbers
<1>6. f \in [I -> Pairs]
  <2> SUFFICES ASSUME NEW i \in I PROVE <<lines[i].agent, RankIn(mine(lines[i].agent), i)>> \in Pairs
    OBVIOUS
  <2>1. lines[i].agent \in DOMAIN groups /\ i \in mine(lines[i].agent)
    BY <1>2, <1>4
  <2>2. RankIn(mine(lines[i].agent), i) \in 1..groups[lines[i].agent].calls
    BY <1>2, <1>5, <2>1
  <2> QED BY <2>1, <2>2
<1>7. ASSUME NEW i \in I, NEW j \in I, f[i] = f[j] PROVE i = j
  <2>1. lines[i].agent = lines[j].agent /\ RankIn(mine(lines[i].agent), i) = RankIn(mine(lines[i].agent), j)
    BY <1>7
  <2>2. PICK a : a = lines[i].agent
    OBVIOUS
  <2>3. i \in mine(a) /\ j \in mine(a) /\ RankIn(mine(a), i) = RankIn(mine(a), j)
    BY <1>4, <2>1, <2>2
  <2>4. RankIn(mine(a), i) \in Int /\ i \in Int /\ j \in Int
    BY <1>1, <1>5, <2>3
  <2>5. ~(i < j) /\ ~(j < i)
    <3>1. (i < j => RankIn(mine(a), i) < RankIn(mine(a), j)) /\ (j < i => RankIn(mine(a), j) < RankIn(mine(a), i))
      BY <1>5, <2>3
    <3> QED BY <2>3, <2>4, <3>1
  <2> QED BY <2>4, <2>5
<1>8. ASSUME NEW x \in Pairs PROVE \E i \in I : f[i] = x
  <2>0. PICK a \in DOMAIN groups : x \in {a} \X (1..groups[a].calls)
    OBVIOUS
  <2>1. PICK k \in 1..groups[a].calls : x = <<a, k>>
    BY <2>0
  <2>2. PICK i \in mine(a) : RankIn(mine(a), i) = k
    BY <1>2, <1>5, <2>1
  <2>3. i \in I /\ lines[i].agent = a
    BY <1>4
  <2> QED BY <2>1, <2>2, <2>3
<1>9. f \in Bijection(I, Pairs)
  BY <1>6, <1>7, <1>8 DEF Bijection, Injection, Surjection, IsInjective
<1>10. ExistsBijection(I, Pairs)
  BY <1>9 DEF ExistsBijection
<1>11. Cardinality(Pairs) = Cardinality(I)
  BY <1>1, <1>10, FS_Bijection
<1> QED BY <1>2, <1>11 DEF groups

\* A log has grown, or its lines were moved to the archive.
Onward(l) ==
  /\ Archived(l) \subseteq Archived(l)'
  /\ \/ /\ Len(logLive[l]) <= Len(logLive'[l])
        /\ \A i \in 1..Len(logLive[l]) : logLive'[l][i] = logLive[l][i]
     \/ \A i \in 1..Len(logLive[l]) : logLive[l][i].id \in Archived(l)'

\* When lines are added, no record comes to an earlier page.
LEMMA AheadGrows ==
  ASSUME NEW s \in Seq(LogLines), NEW t \in Seq(LogLines), Len(s) <= Len(t),
         \A i \in 1..Len(s) : t[i] = s[i],
         NEW I \in SUBSET (1..Len(s)), NEW J \in SUBSET (1..Len(t)), I \subseteq J, NEW i \in I
  PROVE  Ahead(s, I, i) <= Ahead(t, J, i)
<1> DEFINE F == {j \in I : Before(s, j, i)}
           G == {j \in J : Before(t, j, i)}
<1>1. Len(s) \in Nat /\ Len(t) \in Nat
  OBVIOUS
<1>2. F \subseteq G
  BY DEF Before
<1>3. IsFiniteSet(G)
  <2>1. G \in SUBSET (1..Len(t))
    OBVIOUS
  <2> HIDE DEF G
  <2> QED BY <1>1, <2>1, PositionsFinite
<1>4. Cardinality(F) <= Cardinality(G)
  <2> HIDE DEF F, G
  <2> QED BY <1>2, <1>3, FS_Subset
<1> QED BY <1>4 DEF Ahead

\* Whatever is written or moved while nobody reads a page, the reader is on his way.
LEMMA ReaderKept ==
  ASSUME LogBase, LogBase', ReaderInv, \A l \in LogNames : Onward(l), UNCHANGED reader
  PROVE  ReaderInv'
<1>1. CASE reader = NoReader
  BY <1>1 DEF ReaderInv, NoReader
<1>2. CASE reader # NoReader
  <2> DEFINE l == reader.log
             a == reader.agent
             I == Records(l, a)
  <2>1. l \in LogNames /\ reader.page \in Nat \ {0} /\ Onward(l)
    BY <1>2 DEF ReaderInv
  <2>2. logLive[l] \in Seq(LogLines) /\ logLive'[l] \in Seq(LogLines)
    BY <2>1 DEF LogBase
  <2>3. I \in SUBSET (1..Len(logLive[l])) /\ I' \in SUBSET (1..Len(logLive'[l]))
    BY <2>2 DEF Records
  <2>4. ASSUME NEW id \in reader.there PROVE Reached(id)'
    <3>1. Reached(id)
      BY <1>2, <2>4 DEF ReaderInv
    <3>2. CASE id \in Archived(l) \/ id \in reader.seen
      BY <2>1, <3>2 DEF Reached, Onward
    <3>3. CASE ~reader.over /\ \E i \in DOMAIN logLive[l] : logLive[l][i].id = id /\ ToCome(i)
      <4>1. PICK i \in DOMAIN logLive[l] : logLive[l][i].id = id /\ ToCome(i)
        BY <3>3
      <4>2. i \in 1..Len(logLive[l]) /\ i \in I
        BY <2>2, <4>1 DEF ToCome
      <4>3. CASE \A j \in 1..Len(logLive[l]) : logLive[l][j].id \in Archived(l)'
        BY <4>1, <4>2, <4>3 DEF Reached
      <4>4. CASE Len(logLive[l]) <= Len(logLive'[l]) /\ \A j \in 1..Len(logLive[l]) : logLive'[l][j] = logLive[l][j]
        <5>1. I \subseteq I'
          BY <2>2, <2>3, <4>4 DEF Records
        <5>2. Ahead(logLive[l], I, i) <= Ahead(logLive'[l], I', i)
          <6> HIDE DEF I, l
          <6> QED BY <2>2, <2>3, <4>2, <4>4, <5>1, AheadGrows
        <5>3. Ahead(logLive[l], I, i) \in Nat /\ Ahead(logLive'[l], I', i) \in Nat
          <6> HIDE DEF I, l
          <6> QED BY <2>2, <2>3, <4>2, <5>1, AheadProperties
        <5>4. (reader.page - 1) * PageSize <= Ahead(logLive[l], I, i) /\ (reader.page - 1) * PageSize \in Nat
          BY <2>1, <4>1, LogConstants DEF ToCome, Ahead0
        <5>5. (reader.page - 1) * PageSize <= Ahead(logLive'[l], I', i)
          BY <5>2, <5>3, <5>4
        <5>6. ToCome(i)'
          BY <4>2, <5>1, <5>5 DEF ToCome, Ahead0
        <5>7. i \in DOMAIN logLive'[l] /\ logLive'[l][i].id = id
          BY <2>2, <4>1, <4>2, <4>4
        <5> QED BY <3>3, <5>6, <5>7 DEF Reached
      <4> QED BY <2>1, <4>3, <4>4 DEF Onward
    <3> QED BY <3>1, <3>2, <3>3 DEF Reached
  <2>5. reader'.over /\ reader'.log = "tokens" => Summarised'
    BY <1>2 DEF ReaderInv, Summarised
  <2>6. (DOMAIN reader = DOMAIN NoReader)'
    BY <1>2 DEF ReaderInv, NoReader
  <2> QED BY <2>1, <2>4, <2>5, <2>6 DEF ReaderInv
<1> QED BY <1>1, <1>2

\* A line more at the end of a log.
LEMMA OneMore ==
  ASSUME NEW s \in Seq(LogLines), NEW e \in LogLines
  PROVE  /\ Append(s, e) \in Seq(LogLines) /\ Len(Append(s, e)) = Len(s) + 1
         /\ \A i \in 1..Len(s) : Append(s, e)[i] = s[i]
         /\ Append(s, e)[Len(s) + 1] = e
         /\ ToSet(Append(s, e)) = ToSet(s) \cup {e}
<1>1. /\ Append(s, e) \in Seq(LogLines) /\ Len(Append(s, e)) = Len(s) + 1
      /\ \A i \in 1..Len(s) : Append(s, e)[i] = s[i]
      /\ Append(s, e)[Len(s) + 1] = e /\ Len(s) \in Nat
  OBVIOUS
<1>2. DOMAIN Append(s, e) = 1..(Len(s) + 1) /\ DOMAIN s = 1..Len(s)
  BY <1>1
<1>3. ToSet(Append(s, e)) = ToSet(s) \cup {e}
  <2>1. \A i \in 1..(Len(s) + 1) : i \in 1..Len(s) \/ i = Len(s) + 1
    BY <1>1
  <2>2. \A i \in 1..Len(s) : i \in 1..(Len(s) + 1)
    BY <1>1
  <2>3. Len(s) + 1 \in 1..(Len(s) + 1)
    BY <1>1
  <2> QED BY <1>1, <1>2, <2>1, <2>2, <2>3 DEF ToSet
<1> QED BY <1>1, <1>3

\* The lines of two logs are those of one and those of the other.
LEMMA BothLogs ==
  ASSUME NEW s \in Seq(LogLines), NEW t \in Seq(LogLines)
  PROVE  s \o t \in Seq(LogLines) /\ ToSet(s \o t) = ToSet(s) \cup ToSet(t)
<1>1. /\ s \o t \in Seq(LogLines) /\ Len(s \o t) = Len(s) + Len(t)
      /\ \A i \in 1..(Len(s) + Len(t)) : (s \o t)[i] = IF i <= Len(s) THEN s[i] ELSE t[i - Len(s)]
      /\ Len(s) \in Nat /\ Len(t) \in Nat
  BY ConcatProperties
<1>2. DOMAIN (s \o t) = 1..(Len(s) + Len(t)) /\ DOMAIN s = 1..Len(s) /\ DOMAIN t = 1..Len(t)
  BY <1>1
<1>3. ASSUME NEW x \in ToSet(s \o t) PROVE x \in ToSet(s) \cup ToSet(t)
  <2>1. PICK i \in 1..(Len(s) + Len(t)) : x = (s \o t)[i]
    BY <1>2 DEF ToSet
  <2>2. i \in 1..Len(s) \/ i - Len(s) \in 1..Len(t)
    BY <1>1
  <2> QED BY <1>1, <1>2, <2>1, <2>2 DEF ToSet
<1>4. ASSUME NEW x \in ToSet(s) \cup ToSet(t) PROVE x \in ToSet(s \o t)
  <2>1. CASE x \in ToSet(s)
    <3>1. PICK i \in 1..Len(s) : x = s[i]
      BY <1>2, <2>1 DEF ToSet
    <3>2. i \in 1..(Len(s) + Len(t)) /\ (s \o t)[i] = x
      BY <1>1, <3>1
    <3> QED BY <1>2, <3>2 DEF ToSet
  <2>2. CASE x \in ToSet(t)
    <3>1. PICK i \in 1..Len(t) : x = t[i]
      BY <1>2, <2>2 DEF ToSet
    <3>2. i + Len(s) \in 1..(Len(s) + Len(t)) /\ ~(i + Len(s) <= Len(s)) /\ i + Len(s) - Len(s) = i
      BY <1>1
    <3>3. (s \o t)[i + Len(s)] = x
      BY <1>1, <3>1, <3>2
    <3> QED BY <1>2, <3>2, <3>3 DEF ToSet
  <2> QED BY <2>1, <2>2
<1> QED BY <1>1, <1>3, <1>4

\* A line is written at the end of a log: it stays in order, and so do the others.
LEMMA WritingGoesOn ==
  ASSUME LogBase, NEW l \in LogNames, NEW agent \in LogAgents \cup {"none"},
         AppendLive(l, Line(agent)), UNCHANGED <<logArchive, today>>
  PROVE  LogBase' /\ \A k \in LogNames : Onward(k)
<1> DEFINE e == Line(agent)
           s == logLive[l]
<1>1. /\ s \in Seq(LogLines) /\ e \in LogLines /\ e.whole /\ Len(s) \in Nat
      /\ logLive \in [LogNames -> Seq(LogLines)] /\ since \in [LogNames -> SUBSET Nat]
      /\ since[l] = {line.id : line \in {x \in ToSet(s) : x.whole}} /\ e.id \in Nat
  <2>1. e \in LogLines /\ e.whole /\ e.id \in Nat
    BY DEF LogBase, Line, LogLines
  <2>2. s \in Seq(LogLines) /\ logLive \in [LogNames -> Seq(LogLines)] /\ since \in [LogNames -> SUBSET Nat]
    BY DEF LogBase
  <2>3. since[l] = {line.id : line \in {x \in ToSet(s) : x.whole}}
    BY DEF LogBase
  <2>4. Len(s) \in Nat
    BY <2>2, LenProperties
  <2> QED BY <2>1, <2>2, <2>3, <2>4
<1>2. /\ written' \in Nat /\ today' \in Nat /\ unended' \subseteq LogNames
      /\ logArchive' \in [LogNames -> Seq(LogLines)]
  BY DEF LogBase, AppendLive
<1>3. /\ logLive' = [logLive EXCEPT ![l] = Extended(s, l, e)] /\ unended' = unended \ {l}
      /\ since' = [since EXCEPT ![l] = IF l \in unended THEN since[l] ELSE since[l] \cup {e.id}]
  BY <1>1 DEF AppendLive
<1> HIDE DEF e
<1>4. CASE l \in unended
  <2>1. Extended(s, l, e) = s
    <3>1. Len(s) \in DOMAIN s /\ s[Len(s)] \in LogLines /\ s[Len(s)].whole = FALSE
      <4>1. Len(s) > 0 /\ ~s[Len(s)].whole
        BY <1>4 DEF LogBase
      <4>2. Len(s) \in 1..Len(s) /\ DOMAIN s = 1..Len(s)
        BY <1>1, <4>1
      <4>3. s[Len(s)] \in LogLines
        BY <1>1, <4>2, ElementOfSeq
      <4> QED BY <4>1, <4>2, <4>3 DEF LogLines
    <3>2. [s[Len(s)] EXCEPT !.whole = FALSE] = s[Len(s)]
      BY <3>1 DEF LogLines
    <3>3. Extended(s, l, e) = [s EXCEPT ![Len(s)] = [s[Len(s)] EXCEPT !.whole = FALSE]]
      BY <1>4, <3>1 DEF Extended
    <3>4. s = [i \in DOMAIN s |-> s[i]]
      BY <1>1, SeqDef
    <3> QED BY <3>1, <3>2, <3>3, <3>4
  <2>2. logLive' = logLive /\ since' = since
    BY <1>1, <1>3, <1>4, <2>1
  <2>3. LogBase'
    BY <1>2, <1>3, <2>2 DEF LogBase
  <2> QED BY <2>2, <2>3 DEF LogBase, Onward, Archived
<1>5. CASE l \notin unended
  <2>1. Extended(s, l, e) = Append(s, e)
    BY <1>5 DEF Extended
  <2>2. /\ Append(s, e) \in Seq(LogLines) /\ Len(Append(s, e)) = Len(s) + 1
        /\ \A i \in 1..Len(s) : Append(s, e)[i] = s[i]
        /\ ToSet(Append(s, e)) = ToSet(s) \cup {e}
    BY <1>1, OneMore
  <2>3. /\ logLive'[l] = Append(s, e) /\ since'[l] = since[l] \cup {e.id}
        /\ \A k \in LogNames \ {l} : logLive'[k] = logLive[k] /\ since'[k] = since[k]
        /\ logLive' \in [LogNames -> Seq(LogLines)] /\ since' \in [LogNames -> SUBSET Nat]
    BY <1>1, <1>3, <1>5, <2>1, <2>2
  <2>4. since'[l] = {line.id : line \in {x \in ToSet(logLive'[l]) : x.whole}}
    BY <1>1, <2>2, <2>3
  <2>5. \A k \in unended' : Len(logLive'[k]) > 0 /\ ~logLive'[k][Len(logLive'[k])].whole
    BY <1>3, <2>3 DEF LogBase
  <2>6. LogBase'
    BY <1>2, <2>3, <2>4, <2>5 DEF LogBase
  <2>7. \A k \in LogNames : Onward(k)
    <3> SUFFICES ASSUME NEW k \in LogNames PROVE Onward(k)
      OBVIOUS
    <3>1. Archived(k) \subseteq Archived(k)'
      BY DEF Archived
    <3>2. CASE k = l
      <4>2. logLive[k] = s /\ logLive'[k] = Append(s, e)
        BY <2>3, <3>2
      <4>3. Len(s) \in Nat
        BY <1>1
      <4>4. Len(s) <= Len(Append(s, e))
        BY <2>2, <4>3
      <4>1. Len(logLive[k]) <= Len(logLive'[k]) /\ \A i \in 1..Len(logLive[k]) : logLive'[k][i] = logLive[k][i]
        BY <2>2, <4>2, <4>4
      <4> QED BY <3>1, <4>1 DEF Onward
    <3>3. CASE k # l
      <4>1. logLive'[k] = logLive[k] /\ Len(logLive[k]) \in Nat
        BY <1>1, <2>3, <3>3
      <4> QED BY <3>1, <4>1 DEF Onward
    <3> QED BY <3>2, <3>3
  <2> QED BY <2>6, <2>7
<1> QED BY <1>4, <1>5

\* Moving logs to the archive keeps them in order.
LEMMA MovingGoesOn ==
  ASSUME LogBase, NEW logs \in SUBSET LogNames, Moved(logs), UNCHANGED <<today, written>>,
         unended' = unended \ logs
  PROVE  LogBase' /\ \A k \in LogNames : Onward(k)
<1>1. \A k \in LogNames : logLive[k] \in Seq(LogLines) /\ logArchive[k] \in Seq(LogLines) /\ since[k] \in SUBSET Nat
  BY DEF LogBase
<1>2. ASSUME NEW k \in logs
      PROVE  /\ logLive'[k] = <<>> /\ since'[k] = {} /\ logArchive'[k] = logArchive[k] \o logLive[k]
             /\ logArchive[k] \o logLive[k] \in Seq(LogLines)
             /\ ToSet(logArchive[k] \o logLive[k]) = ToSet(logArchive[k]) \cup ToSet(logLive[k])
  BY <1>1, BothLogs DEF Moved
<1>3. \A k \in LogNames \ logs : logLive'[k] = logLive[k] /\ since'[k] = since[k] /\ logArchive'[k] = logArchive[k]
  BY DEF Moved
<1>4. /\ logLive' \in [LogNames -> Seq(LogLines)] /\ logArchive' \in [LogNames -> Seq(LogLines)]
      /\ since' \in [LogNames -> SUBSET Nat]
  <2>1. logLive' = [k \in LogNames |-> logLive'[k]] /\ logArchive' = [k \in LogNames |-> logArchive'[k]]
        /\ since' = [k \in LogNames |-> since'[k]]
    BY DEF Moved
  <2>2. \A k \in LogNames : logLive'[k] \in Seq(LogLines) /\ logArchive'[k] \in Seq(LogLines) /\ since'[k] \in SUBSET Nat
    BY <1>1, <1>2, <1>3, EmptySeq
  <2> QED BY <2>1, <2>2
<1>5. ToSet(<<>>) = {}
  BY DEF ToSet
<1>6. \A k \in LogNames : since'[k] = {line.id : line \in {x \in ToSet(logLive'[k]) : x.whole}}
  <2> SUFFICES ASSUME NEW k \in LogNames PROVE since'[k] = {line.id : line \in {x \in ToSet(logLive'[k]) : x.whole}}
    OBVIOUS
  <2>1. CASE k \in logs
    BY <1>2, <1>5, <2>1
  <2>2. CASE k \notin logs
    BY <1>3, <2>2 DEF LogBase
  <2> QED BY <2>1, <2>2
<1>7. \A k \in unended' : Len(logLive'[k]) > 0 /\ ~logLive'[k][Len(logLive'[k])].whole
  BY <1>3 DEF LogBase
<1>8. LogBase'
  BY <1>4, <1>6, <1>7 DEF LogBase
<1>9. ASSUME NEW k \in LogNames PROVE Onward(k)
  <2>1. CASE k \in logs
    <3>1. Archived(k) \subseteq Archived(k)'
      BY <1>2, <2>1 DEF Archived
    <3>2. ASSUME NEW i \in 1..Len(logLive[k]) PROVE logLive[k][i].id \in Archived(k)'
      <4>1. logLive[k][i] \in ToSet(logLive[k])
        BY <1>1 DEF ToSet
      <4> QED BY <1>2, <2>1, <4>1 DEF Archived
    <3> QED BY <3>1, <3>2 DEF Onward
  <2>2. CASE k \notin logs
    BY <1>1, <1>3, <2>2 DEF Onward, Archived
  <2> QED BY <2>1, <2>2
<1> QED BY <1>8, <1>9

\* A torn line stays the last of its log until the next is written or the log moved.
LEMMA TearingGoesOn ==
  ASSUME LogBase, NEW l \in LogNames, TearLine(l)
  PROVE  LogBase' /\ \A k \in LogNames : Onward(k)
<1> DEFINE e == [Line("none") EXCEPT !.whole = FALSE]
           s == logLive[l]
<1>1. s \in Seq(LogLines) /\ logLive \in [LogNames -> Seq(LogLines)] /\ e \in LogLines /\ ~e.whole
  <2>1. \A r \in LogLines : [r EXCEPT !.whole = FALSE] \in LogLines /\ [r EXCEPT !.whole = FALSE].whole = FALSE
    BY DEF LogLines
  <2>2. Line("none") \in LogLines
    BY DEF LogBase, Line, LogLines
  <2>3. e \in LogLines /\ ~e.whole
    BY <2>1, <2>2
  <2> QED BY <2>3 DEF LogBase
<1>2. logLive' = [logLive EXCEPT ![l] = Append(s, e)] /\ unended' = unended \cup {l}
  BY <1>1 DEF TearLine
<1> HIDE DEF e
<1>3. /\ Append(s, e) \in Seq(LogLines) /\ Len(Append(s, e)) = Len(s) + 1 /\ Len(s) \in Nat
      /\ \A i \in 1..Len(s) : Append(s, e)[i] = s[i]
      /\ Append(s, e)[Len(s) + 1] = e
      /\ ToSet(Append(s, e)) = ToSet(s) \cup {e}
  BY <1>1, OneMore, LenProperties
<1>4. /\ logLive'[l] = Append(s, e) /\ logLive' \in [LogNames -> Seq(LogLines)]
      /\ \A k \in LogNames \ {l} : logLive'[k] = logLive[k]
  BY <1>1, <1>2, <1>3
<1>5. \A k \in LogNames : since'[k] = {line.id : line \in {x \in ToSet(logLive'[k]) : x.whole}}
  <2> SUFFICES ASSUME NEW k \in LogNames PROVE since'[k] = {line.id : line \in {x \in ToSet(logLive'[k]) : x.whole}}
    OBVIOUS
  <2>1. since'[k] = {line.id : line \in {x \in ToSet(logLive[k]) : x.whole}}
    BY DEF LogBase, TearLine
  <2>2. {x \in ToSet(logLive'[k]) : x.whole} = {x \in ToSet(logLive[k]) : x.whole}
    BY <1>1, <1>3, <1>4
  <2> QED BY <2>1, <2>2
<1>6. \A k \in unended' : Len(logLive'[k]) > 0 /\ ~logLive'[k][Len(logLive'[k])].whole
  <2> SUFFICES ASSUME NEW k \in unended' PROVE Len(logLive'[k]) > 0 /\ ~logLive'[k][Len(logLive'[k])].whole
    OBVIOUS
  <2>1. CASE k = l
    BY <1>1, <1>3, <1>4, <2>1
  <2>2. CASE k # l
    BY <1>2, <1>4, <2>2 DEF LogBase
  <2> QED BY <2>1, <2>2
<1>7. LogBase'
  <2>1. /\ written' \in Nat /\ today' \in Nat /\ unended' \subseteq LogNames
        /\ logArchive' \in [LogNames -> Seq(LogLines)] /\ since' \in [LogNames -> SUBSET Nat]
    BY <1>2 DEF LogBase, TearLine
  <2> QED BY <1>4, <1>5, <1>6, <2>1 DEF LogBase
<1>8. ASSUME NEW k \in LogNames PROVE Onward(k)
  <2>1. Archived(k) \subseteq Archived(k)'
    BY DEF Archived, TearLine
  <2>2. CASE k = l
    BY <1>1, <1>3, <1>4, <2>1, <2>2 DEF Onward
  <2>3. CASE k # l
    <3>1. logLive'[k] = logLive[k] /\ Len(logLive[k]) \in Nat
      BY <1>4, <2>3, LenProperties DEF LogBase
    <3> QED BY <2>1, <3>1 DEF Onward
  <2> QED BY <2>2, <2>3
<1> QED BY <1>7, <1>8

\* Who opens a log has everything that is there to come.
LEMMA OpeningReads ==
  ASSUME LogBase, NEW l \in LogNames, NEW agent, OpenReader(l, agent)
  PROVE  ReaderInv'
<1> DEFINE I == Records(l, agent)
<1>1. /\ reader' = [NoReader EXCEPT !.log = l, !.agent = agent, !.there = {logLive[l][i].id : i \in I}]
      /\ logLive' = logLive
  BY DEF OpenReader
<1>2. /\ reader'.log = l /\ reader'.agent = agent /\ reader'.page = 1 /\ reader'.over = FALSE
      /\ reader'.there = {logLive[l][i].id : i \in I} /\ DOMAIN reader' = DOMAIN NoReader
  BY <1>1 DEF NoReader
<1>3. logLive[l] \in Seq(LogLines) /\ I \in SUBSET (1..Len(logLive[l]))
  BY DEF LogBase, Records
<1>4. ASSUME NEW id \in reader'.there PROVE Reached(id)'
  <2>1. PICK i \in I : id = logLive[l][i].id
    BY <1>2
  <2>2. Ahead(logLive[l], I, i) \in Nat
    <3> HIDE DEF I
    <3> QED BY <1>3, AheadProperties
  <2>3. (reader'.page - 1) * PageSize = 0
    BY <1>2, LogConstants
  <2>4. Records(l, agent)' = I
    BY <1>1 DEF Records
  <2>5. ToCome(i)'
    BY <1>1, <1>2, <2>2, <2>3, <2>4 DEF ToCome, Ahead0
  <2>6. i \in DOMAIN logLive[l]
    BY <1>3
  <2> QED BY <1>1, <1>2, <2>1, <2>5, <2>6 DEF Reached
<1> QED BY <1>2, <1>4 DEF ReaderInv

\* Of each log, the page that is read and what it says of all of them.
LEMMA PageRead ==
  ASSUME LogBase, ReaderInv, ReadPage
  PROVE  LET I == Records(reader.log, reader.agent)
             lines == logLive[reader.log]
             shown == {line.id : line \in ToSet(PageOf(Descending(lines, I), reader.page))}
         IN /\ reader # NoReader /\ ~reader.over /\ DOMAIN reader' = DOMAIN NoReader
            /\ reader'.log = reader.log /\ reader'.agent = reader.agent /\ reader'.there = reader.there
            /\ reader'.page = reader.page + 1
            /\ reader'.seen = reader.seen \cup shown
            /\ reader'.over = (reader.page * PageSize >= Cardinality(I))
            /\ reader'.total = Cardinality(I)
            /\ reader.log = "tokens" => reader'.buckets = Buckets(lines, I)
<1> DEFINE I == Records(reader.log, reader.agent)
           lines == logLive[reader.log]
           r == CASE reader.log = "audit" -> AuditTrail(reader.agent, reader.page)
                  [] reader.log = "events" -> EventTimeline(reader.agent, reader.page)
                  [] reader.log = "tokens" -> TokenUsage(reader.agent, reader.page)
<1>1. reader # NoReader /\ ~reader.over /\ reader.log \in LogNames /\ DOMAIN reader = DOMAIN NoReader
  BY DEF ReaderInv, ReadPage
<1>2. reader' = [reader EXCEPT !.seen = reader.seen \cup {line.id : line \in ToSet(r.items)},
                               !.page = reader.page + 1, !.over = (reader.page * PageSize >= r.total),
                               !.total = r.total, !.buckets = r.buckets]
  BY <1>1 DEF ReadPage, NoReader
<1>3. /\ r.items = PageOf(Descending(lines, I), reader.page) /\ r.total = Cardinality(I)
      /\ reader.log = "tokens" => r.buckets = Buckets(lines, I)
  <2>1. CASE reader.log = "audit"
    BY <2>1 DEF AuditTrail, Response
  <2>2. CASE reader.log = "events"
    BY <2>2 DEF EventTimeline, Response
  <2>3. CASE reader.log = "tokens"
    <3>1. r = TokenUsage(reader.agent, reader.page)
      BY <2>3
    <3>2. r = [items |-> PageOf(Descending(lines, I), reader.page), total |-> Cardinality(I),
               buckets |-> Buckets(lines, I)]
      BY <2>3, <3>1 DEF TokenUsage, Response
    <3> QED BY <2>3, <3>2
  <2> QED BY <1>1, <2>1, <2>2, <2>3 DEF LogNames
<1> HIDE DEF r
<1>4. DOMAIN reader = {"log", "agent", "page", "there", "seen", "over", "total", "buckets"}
  <2>1. DOMAIN NoReader = {"log", "agent", "page", "there", "seen", "over", "total", "buckets"}
    BY DEF NoReader
  <2> QED BY <1>1, <2>1
<1> QED BY <1>1, <1>2, <1>3, <1>4

\* After a page, what was to come has been seen or is on the pages that are left.
LEMMA ReadingGoesOn ==
  ASSUME LogBase, ReaderInv, ReadPage
  PROVE  ReaderInv'
<1> DEFINE l == reader.log
           a == reader.agent
           I == Records(l, a)
           lines == logLive[l]
<1>1. /\ reader # NoReader /\ ~reader.over /\ DOMAIN reader' = DOMAIN NoReader
      /\ reader'.log = l /\ reader'.agent = a /\ reader'.there = reader.there
      /\ reader'.page = reader.page + 1
      /\ reader'.seen = reader.seen \cup {line.id : line \in ToSet(PageOf(Descending(lines, I), reader.page))}
      /\ reader'.over = (reader.page * PageSize >= Cardinality(I))
      /\ reader'.total = Cardinality(I)
      /\ l = "tokens" => reader'.buckets = Buckets(lines, I)
  BY PageRead
<1>2. l \in LogNames /\ reader.page \in Nat \ {0}
  BY <1>1 DEF ReaderInv
<1>3. lines \in Seq(LogLines) /\ I \in SUBSET (1..Len(lines))
  BY <1>2 DEF LogBase, Records
<1>4. logLive' = logLive /\ logArchive' = logArchive
  BY DEF ReadPage
<1>5. Records(l, a)' = I /\ Archived(l)' = Archived(l)
  BY <1>1, <1>4 DEF Records, Archived
<1>6. Cardinality(I) \in Nat /\ \A i \in I : Ahead(lines, I, i) \in Nat /\ Ahead(lines, I, i) < Cardinality(I)
  <2> HIDE DEF I, lines
  <2> QED BY <1>3, AheadProperties
<1>7. ASSUME NEW id \in reader'.there PROVE Reached(id)'
  <2>1. Reached(id)
    BY <1>1 DEF ReaderInv
  <2>2. CASE id \in Archived(l) \/ id \in reader.seen
    BY <1>1, <1>5, <2>2 DEF Reached
  <2>3. CASE \E i \in DOMAIN lines : lines[i].id = id /\ ToCome(i)
    <3>1. PICK i \in DOMAIN lines : lines[i].id = id /\ ToCome(i)
      BY <2>3
    <3>2. i \in I /\ (reader.page - 1) * PageSize <= Ahead(lines, I, i)
      BY <3>1 DEF ToCome, Ahead0
    <3>3. CASE Ahead(lines, I, i) < reader.page * PageSize
      <4>1. lines[i] \in ToSet(PageOf(Descending(lines, I), reader.page))
        <5> HIDE DEF I, lines
        <5> QED BY <1>2, <1>3, <3>2, <3>3, OnThePage
      <4>2. id \in reader'.seen
        BY <1>1, <3>1, <4>1
      <4> QED BY <4>2 DEF Reached
    <3>4. CASE ~(Ahead(lines, I, i) < reader.page * PageSize)
      <4>1. reader.page * PageSize \in Nat /\ (reader'.page - 1) * PageSize = reader.page * PageSize
        BY <1>1, <1>2, LogConstants
      <4>2. reader.page * PageSize <= Ahead(lines, I, i) /\ ~(reader.page * PageSize >= Cardinality(I))
        BY <1>6, <3>2, <3>4, <4>1
      <4>3. ~reader'.over
        BY <1>1, <4>2
      <4>4. Ahead0(l, a, i)' = Ahead(lines, I, i)
        BY <1>1, <1>4, <1>5 DEF Ahead0
      <4>5. ToCome(i)'
        BY <1>1, <1>5, <3>2, <4>1, <4>2, <4>4 DEF ToCome
      <4>6. i \in DOMAIN logLive'[reader'.log] /\ logLive'[reader'.log][i].id = id
        BY <1>1, <1>4, <3>1
      <4> QED BY <4>3, <4>5, <4>6 DEF Reached
    <3> QED BY <3>3, <3>4
  <2> QED BY <2>1, <2>2, <2>3 DEF Reached
<1>8. ASSUME l = "tokens" PROVE Summarised'
  <2> DEFINE groups == Buckets(lines, I)
  <2>1. /\ DOMAIN groups = {lines[i].agent : i \in I}
        /\ Cardinality(I) = Cardinality(UNION {{g} \X (1..groups[g].calls) : g \in DOMAIN groups})
    <3> HIDE DEF I, lines
    <3> QED BY <1>3, BucketsCount
  <2>2. a # "none" => {lines[i].agent : i \in I} \subseteq {a}
    BY DEF Records
  <2>3. reader'.agent # "none" => DOMAIN groups \subseteq {reader'.agent}
    <3> HIDE DEF groups
    <3> QED BY <1>1, <2>1, <2>2
  <2>4. reader'.buckets = groups /\ reader'.total = Cardinality(I)
    BY <1>1, <1>8
  <2> HIDE DEF groups, I
  <2> QED BY <2>1, <2>3, <2>4 DEF Summarised
<1>9. reader'.page \in Nat \ {0}
  BY <1>1, <1>2
<1> QED BY <1>1, <1>2, <1>7, <1>8, <1>9 DEF ReaderInv

LogInv == LogBase /\ ReaderInv

\* Each step keeps the logs and the reader in order.
LEMMA LogStep ==
  ASSUME LogInv, [LogNext]_logVars
  PROVE  LogInv'
<1> USE DEF LogInv
<1>1. ASSUME LogBase', \A l \in LogNames : Onward(l), UNCHANGED reader PROVE LogInv'
  BY <1>1, ReaderKept
<1>2. ASSUME UNCHANGED <<logLive, logArchive, unended, since, written>>, today' \in Nat
      PROVE  LogBase' /\ \A l \in LogNames : Onward(l)
  <2>1. LogBase'
    BY <1>2 DEF LogBase
  <2>2. \A l \in LogNames : Len(logLive[l]) \in Nat
    BY LenProperties DEF LogBase
  <2> QED BY <1>2, <2>1, <2>2 DEF Onward, Archived
<1>3. ASSUME NEW a \in LogAgents, WriteAudit(a) PROVE LogInv'
  BY <1>1, <1>3, WritingGoesOn DEF WriteAudit, LogNames
<1>4. ASSUME NEW a \in LogAgents, WriteTokens(a) PROVE LogInv'
  BY <1>1, <1>4, WritingGoesOn DEF WriteTokens, LogNames
<1>5. ASSUME NEW a \in LogAgents, NEW garbled \in BOOLEAN, HearEvent(a, garbled) PROVE LogInv'
  <2>1. CASE garbled
    BY <1>1, <1>2, <1>5, <2>1 DEF HearEvent, LogBase
  <2>2. CASE ~garbled
    BY <1>1, <1>5, <2>2, WritingGoesOn DEF HearEvent, LogNames
  <2> QED BY <2>1, <2>2
<1>6. ASSUME NEW a \in LogAgents \cup {"none"}, NEW l \in LogNames, OpenReader(l, a) PROVE LogInv'
  <2>1. ReaderInv'
    BY <1>6, OpeningReads
  <2>2. LogBase'
    BY <1>2, <1>6 DEF OpenReader, LogBase
  <2> QED BY <2>1, <2>2
<1>7. ASSUME NEW l \in LogNames, TearLine(l) PROVE LogInv'
  BY <1>1, <1>7, TearingGoesOn DEF TearLine
<1>8. CASE RotateAudit
  <2>1. Moved({"audit"}) /\ unended' = unended \ {"audit"} /\ UNCHANGED <<today, written, reader>>
    BY <1>8 DEF RotateAudit
  <2>2. {"audit"} \in SUBSET LogNames
    BY DEF LogNames
  <2> QED BY <1>1, <2>1, <2>2, MovingGoesOn
<1>9. CASE Restart
  <2> DEFINE logs == {l \in LogNames : Aged(l)}
  <2>1. Moved(logs) /\ UNCHANGED <<today, written, reader>> /\ unended' = {l \in unended : ~Aged(l)}
    BY <1>9 DEF Restart
  <2>2. unended' = unended \ logs
    BY <2>1 DEF LogBase
  <2>3. logs \in SUBSET LogNames
    OBVIOUS
  <2> HIDE DEF logs
  <2> QED BY <1>1, <2>1, <2>2, <2>3, MovingGoesOn
<1>10. CASE NextDay
  BY <1>1, <1>2, <1>10 DEF NextDay, LogBase
<1>11. CASE ReadPage
  <2>1. ReaderInv'
    BY <1>11, ReadingGoesOn
  <2>2. LogBase'
    BY <1>2, <1>11 DEF ReadPage, LogBase
  <2> QED BY <2>1, <2>2
<1>12. CASE UNCHANGED logVars
  BY <1>1, <1>2, <1>12 DEF logVars, LogBase
<1> QED BY <1>3, <1>4, <1>5, <1>6, <1>7, <1>8, <1>9, <1>10, <1>11, <1>12 DEF LogNext

\* Whoever reads a log page by page to its end, while lines are written, torn and
\* moved to the archive, has seen every record that was there when he began and was
\* not moved away, and the summary counts each record once (logs.py, audit_log.py,
\* event_log.py, log_rotator.py).
THEOREM LogsAreSeen == LogSpec => []LogsAreRead
<1>1. LogInit => LogInv
  <2> SUFFICES ASSUME LogInit PROVE LogInv
    OBVIOUS
  <2>1. ToSet(<<>>) = {}
    BY DEF ToSet
  <2>2. <<>> \in Seq(LogLines)
    OBVIOUS
  <2>3. LogBase
    BY <2>1, <2>2 DEF LogInit, LogBase
  <2>4. ReaderInv
    BY DEF LogInit, ReaderInv
  <2> QED BY <2>3, <2>4 DEF LogInv
<1>2. LogInv /\ [LogNext]_logVars => LogInv'
  BY LogStep
<1>3. LogInv => LogsAreRead
  <2> SUFFICES ASSUME LogInv, reader.over
               PROVE  /\ reader.there \subseteq reader.seen \cup Archived(reader.log)
                      /\ reader.log = "tokens" => Summarised
    BY DEF LogInv, LogBase, LogsAreRead, Summarised
  <2>1. reader # NoReader
    BY DEF NoReader
  <2> QED BY <2>1 DEF LogInv, ReaderInv, Reached
<1> QED BY <1>1, <1>2, <1>3, PTL DEF LogSpec
=============================================================================
