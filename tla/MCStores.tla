------------------------------- MODULE MCStores -------------------------------
(* Small instances of what the Project Agent and the tools of its agents keep  *)
(* and read back: sessions and tasks, the instructions of the prompts, the     *)
(* costs, the stored files, the files of a mount, the key-value store, the     *)
(* code index, the excerpts of searches, the logs and the transcripts.  They   *)
(* share no state, so a behaviour exercises one of them.                       *)
EXTENDS SessionManager, ContextIncludes, TokenLog, FileStorage, FilesystemTool, KVStore,
        CodeIndex, TextSearch, LogFiles, Transcript, TLC

CONSTANTS agents, a, b, c, m1, m2, reader1, writer1,
          py, java, jsx, txt, link, load, saveAll, doc, code, conf

MCTexts == {<<>>, <<a>>, <<b>>, <<c>>, <<a, b, c>>, <<b, agents>>, <<Outside, a>>, <<b, b, a>>}

MCCatalogs == {<<>>, (m1 :> 1) @@ (m2 :> 2), m1 :> 1}

Top == <<"f">>
Sub == <<"d", "f">>
MCPaths == {Top, Sub}
MCDirs == {<<"d">>}
MCDenied == {<<"d", "s">>}
MCMounts == {[access |-> "readwrite", recursive |-> TRUE, history |-> TRUE, depth |-> 2,
              overrides |-> <<>>],
             [access |-> "readonly", recursive |-> FALSE, history |-> TRUE, depth |-> 1,
              overrides |-> (<<"f">> :> "readwrite")]}
MCAccess == (reader1 :> "readonly") @@ (writer1 :> "readwrite")
MCWatches == {[agent |-> writer1, paths |-> {Sub}, events |-> FileEvents, session |-> FALSE],
              [agent |-> writer1, paths |-> {Top}, events |-> {"file:deleted"}, session |-> FALSE],
              [agent |-> writer1, paths |-> {Sub}, events |-> {"file:created"}, session |-> TRUE]}

\* Files of four languages, one of them in a directory that is excluded, one a link.
MCLangs == (py :> "python") @@ (java :> "java") @@ (jsx :> "javascript") @@ (txt :> "none") @@ (link :> "go")
MCParts == (py :> {"src"}) @@ (java :> {"src"}) @@ (jsx :> {"build"}) @@ (txt :> {"src"}) @@ (link :> {"src"})
Node(t, up, name) == [type |-> t, up |-> up, name |-> name]
SimpleFile == [readable |-> TRUE, shown |-> {},
          tree |-> <<Node("function", 0, saveAll), Node("other", 0, "")>>]
Binary == [readable |-> FALSE, shown |-> {}, tree |-> <<>>]
InClass == [readable |-> TRUE, shown |-> {load},
            tree |-> <<Node("class", 0, "Box"), Node("decorated", 1, ""), Node("function", 2, load)>>]
OfJava == [readable |-> TRUE, shown |-> {}, tree |-> <<Node("class", 0, "Box"), Node("method", 1, load)>>]
MCContents == (py :> {SimpleFile, Binary, InClass}) @@ (java :> {OfJava}) @@ (jsx :> {SimpleFile}) @@ (txt :> {Binary}) @@ (link :> {SimpleFile})
MCInPath == [p \in CodePaths |-> {}]
MCHolders == (load :> {load}) @@ (saveAll :> {})
MCRank == (java :> 1) @@ (jsx :> 2) @@ (link :> 3) @@ (py :> 4) @@ (txt :> 5)

\* A document with sections and a symbol within a symbol, and a brace block with two
\* symbols that share a line.
MCGroups == (doc :> "document") @@ (code :> "code") @@ (conf :> "json")
SearchLine(kind, level, hit) == [kind |-> kind, level |-> level, hit |-> hit]
MCFileTexts ==
  {[lines |-> <<SearchLine("heading", 1, FALSE), SearchLine("text", 0, TRUE),
                SearchLine("heading", 2, FALSE), SearchLine("blank", 0, FALSE),
                SearchLine("text", 0, TRUE), SearchLine("heading", 1, TRUE)>>,
    symbols |-> {[type |-> "class", first |-> 1, last |-> 6], [type |-> "function", first |-> 2, last |-> 6],
                 [type |-> "function", first |-> 2, last |-> 3]}],
   [lines |-> <<SearchLine("brace", 0, FALSE), SearchLine("blank", 0, TRUE),
                SearchLine("text", 0, TRUE), SearchLine("brace", 0, FALSE)>>,
    symbols |-> {[type |-> "function", first |-> 1, last |-> 2],
                 [type |-> "function", first |-> 2, last |-> 4]}]}
MCRequests == {<<>>, <<"section">>, <<"paragraph">>, <<"class", "module">>, <<"sentence">>,
               <<"object", "entry">>}

MCBodies == {<<>>, <<"blank", "text", "blank">>, <<"user", "text">>, <<"assistant", "blank", "user">>,
             <<"text", "fence", "text">>, <<"user", "open", "close">>}

\* The texts written through a mount differ in nothing but themselves.
Symmetric == Permutations(FsTexts)

VARIABLE focus   \* the component a behaviour exercises

vars == <<sessionVars, contextVars, tokenVars, storageVars, fsVars, kvVars, codeVars, searchVars,
          logVars, transcriptVars, focus>>

Init ==
  /\ SessionInit /\ ContextInit /\ TokenInit /\ StorageInit /\ FsInit /\ KVInit
  /\ CodeInit /\ SearchInit /\ LogInit /\ TranscriptInit
  /\ focus \in {"sessions", "context", "includes", "costs", "storage", "filesystem", "kv",
                "index", "excerpts", "ripgrep", "logs", "transcript"}
  /\ focus \notin {"context", "includes"} => \A f \in Files : text[f] = Gone
  /\ focus = "context" => text = (agents :> <<b>>) @@ (a :> Gone) @@ (b :> <<a>>) @@ (c :> Gone)
  /\ focus # "filesystem" => mount.depth = 2
  /\ focus # "excerpts" => \A f, g \in SearchFiles : page[f] = page[g] /\ Len(page[f].lines) = 4

Next ==
  /\ UNCHANGED focus
  /\ \/ focus = "sessions" /\ SessionNext
     \/ focus # "sessions" /\ UNCHANGED sessionVars
  /\ \/ focus = "context" /\ ContextNext
     \/ focus # "context" /\ UNCHANGED contextVars
  /\ \/ focus = "costs" /\ TokenNext
     \/ focus # "costs" /\ UNCHANGED tokenVars
  /\ \/ focus = "storage" /\ StorageNext
     \/ focus # "storage" /\ UNCHANGED storageVars
  /\ \/ focus = "filesystem" /\ FsNext
     \/ focus # "filesystem" /\ UNCHANGED fsVars
  /\ \/ focus = "kv" /\ KVNext
     \/ focus # "kv" /\ UNCHANGED kvVars
  /\ \/ focus = "index" /\ CodeNext
     \/ focus # "index" /\ UNCHANGED codeVars
  /\ \/ focus = "excerpts" /\ ExcerptNext
     \/ focus = "ripgrep" /\ RgNext
     \/ focus \notin {"excerpts", "ripgrep"} /\ UNCHANGED searchVars
  /\ \/ focus = "logs" /\ LogNext
     \/ focus # "logs" /\ UNCHANGED logVars
  /\ \/ focus = "transcript" /\ TranscriptNext
     \/ focus # "transcript" /\ UNCHANGED transcriptVars

Spec == Init /\ [][Next]_vars
=============================================================================
