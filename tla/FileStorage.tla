------------------------------ MODULE FileStorage ------------------------------
(***************************************************************************)
(* The stored files of src/faith_pa/pa/file_storage.py and the storage     *)
(* endpoints of src/faith_pa/pa/app.py: a registry of records, live and in *)
(* the trash, the bytes beside it, and the archives of sessions.  A file   *)
(* is named by the hash of its bytes.  An operation changes bytes first    *)
(* and rewrites the registry last; the process may stop in between, or     *)
(* within the rewriting, after which the registry reads as empty.          *)
(***************************************************************************)
EXTENDS Naturals, FiniteSets, Functions

CONSTANTS FileIds,      \* hashes of the contents
          FileNames,    \* filenames and descriptions
          Bindings,     \* sessions a file is bound to
          Rounds,       \* inference rounds of the chat
          MaxStops      \* bound on stops inside an operation

NoRound == "no round"
Scopes == {"global", "session", "one-time"}     \* "scoped" is treated as "session"

ASSUME StorageConstants == MaxStops \in Nat /\ NoRound \notin Rounds

VARIABLES live,       \* registry["files"]
          trash,      \* registry["trash"]
          bytes,      \* the files under storage/files
          archive,    \* the linked files in a session's last export
          cut,        \* deletions stopped before the registry was rewritten
          stops

storageVars == <<live, trash, bytes, archive, cut, stops>>

StorageInit ==
  /\ live = <<>> /\ trash = <<>> /\ bytes = {} /\ cut = {} /\ stops = 0
  /\ archive = [s \in Bindings |-> {}]

Listed == DOMAIN live \cup DOMAIN trash
With(records, id, r) == [i \in DOMAIN records \cup {id} |-> IF i = id THEN r ELSE records[i]]
Without(records, ids) == Restrict(records, DOMAIN records \ ids)

\* _write_registry, after the bytes were changed.
Save(newLive, newTrash, newBytes) ==
  /\ bytes' = newBytes
  /\ \/ /\ live' = newLive /\ trash' = newTrash
        /\ cut' = cut \cap (DOMAIN newLive \cup DOMAIN newTrash)
        /\ UNCHANGED stops
     \/ /\ stops < MaxStops /\ stops' = stops + 1
        /\ \/ cut' = cut \cup (bytes \ newBytes) /\ UNCHANGED <<live, trash>>
           \/ live' = <<>> /\ trash' = <<>> /\ cut' = {}
  /\ UNCHANGED archive

SameUpload(r, name, scope, bound) == r.name = name /\ r.scope = scope /\ r.bound = bound

\* ingest_bytes: bytes that are known are a conflict or the record there is.
IngestBytes(id, name, scope, bound, round) ==
  IF id \in Listed
  THEN LET known == IF id \in DOMAIN live THEN live[id] ELSE trash[id]
       IN /\ SameUpload(known, name, scope, bound)
          /\ id \in DOMAIN trash
          /\ Save(With(live, id, known), Without(trash, {id}), bytes)
  ELSE Save(With(live, id, [name |-> name, scope |-> scope, bound |-> bound, round |-> round]),
            trash, bytes \cup {id})

\* api_upload_storage_file, and _ingest_uploaded_file of a chat message: the
\* active session is bound, and a one-time file belongs to its round.
Upload(id, name, scope, bound) == IngestBytes(id, name, scope, bound, NoRound)
UploadInChat(id, name, scope, session, round) ==
  IngestBytes(id, name, scope, IF scope = "session" THEN {session} ELSE {},
              IF scope = "one-time" THEN round ELSE NoRound)

\* update_file
UpdateFile(id, name, scope, bound) ==
  /\ id \in DOMAIN live
  /\ Save([live EXCEPT ![id] = [@ EXCEPT !.name = name, !.scope = scope, !.bound = bound]],
          trash, bytes)

\* trash_file and the bulk endpoint over it
TrashFiles(ids) ==
  /\ ids \cap DOMAIN live # {}
  /\ Save(Without(live, ids),
          [i \in DOMAIN trash \cup (ids \cap DOMAIN live) |->
             IF i \in DOMAIN live THEN live[i] ELSE trash[i]], bytes)

\* restore_file and the bulk endpoint over it
RestoreFiles(ids) ==
  /\ ids \cap DOMAIN trash # {}
  /\ Save([i \in DOMAIN live \cup (ids \cap DOMAIN trash) |->
             IF i \in DOMAIN trash THEN trash[i] ELSE live[i]], Without(trash, ids), bytes)

\* A bug the runs must notice: the record of a live file is kept.
HardDeleteFromTrash(id) ==
  /\ id \in Listed
  /\ Save(live, Without(trash, {id}), bytes \ {id})

\* hard_delete_file.  (Its bulk endpoint is declared behind the route with a
\* parameter that matches the same path, so that it is never reached.)
HardDelete(id) ==
  /\ id \in Listed
  /\ Save(IF id \in DOMAIN trash THEN live ELSE Without(live, {id}),
          Without(trash, {id}), bytes \ {id})

\* cleanup_one_time_files, after the answer of the round was delivered.
OneTimeOf(round) == {i \in DOMAIN live : live[i].scope = "one-time" /\ live[i].round = round}
CleanupOneTime(round) == Save(Without(live, OneTimeOf(round)), trash, bytes \ OneTimeOf(round))

\* iter_linked_files_for_session
Linked(s) == {i \in DOMAIN live : \/ live[i].scope = "global"
                                  \/ live[i].scope = "session" /\ s \in live[i].bound}

\* export_session_archive, with the linked files or without.
ExportSession(s, linked) ==
  /\ archive' = [archive EXCEPT ![s] = IF linked THEN Linked(s) \cap bytes ELSE {}]
  /\ UNCHANGED <<live, trash, bytes, cut, stops>>

StorageNext ==
  \/ \E id \in FileIds, n \in FileNames, sc \in Scopes, b \in SUBSET Bindings : Upload(id, n, sc, b)
  \/ \E id \in FileIds, n \in FileNames, sc \in Scopes, s \in Bindings, r \in Rounds :
       UploadInChat(id, n, sc, s, r)
  \/ \E id \in FileIds, n \in FileNames, sc \in Scopes, b \in SUBSET Bindings : UpdateFile(id, n, sc, b)
  \/ \E ids \in SUBSET FileIds : TrashFiles(ids) \/ RestoreFiles(ids)
  \/ \E id \in FileIds : HardDelete(id)
  \/ \E r \in Rounds : CleanupOneTime(r)
  \/ \E s \in Bindings, l \in BOOLEAN : ExportSession(s, l)

(***************************************************************************)
(* A file is live or in the trash, not both, and its bytes are there; only *)
(* a deletion that a stop cut short leaves a record without bytes, which   *)
(* uploading the bytes again does not mend.                                *)
(***************************************************************************)
StoredFilesAreThere ==
  /\ DOMAIN live \cap DOMAIN trash = {}
  /\ Listed \subseteq bytes \cup cut
  /\ cut \cap bytes = {}
=============================================================================
