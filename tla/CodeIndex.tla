------------------------------- MODULE CodeIndex -------------------------------
(***************************************************************************)
(* The code index of src/faith_mcp/code_index: the documents and symbols   *)
(* of the source files (index.py), the server that answers from one index  *)
(* (server.py), and the watcher that keeps one up to date (watcher.py).    *)
(* A scan visits the files one by one while others edit them.  A file is   *)
(* its syntax tree: the named nodes in the order of the text, each with    *)
(* its type, the node around it and its name.                              *)
(***************************************************************************)
EXTENDS Naturals, Sequences, FiniteSets, SequencesExt

CONSTANTS CodePaths, Languages,   \* of each path, its language, or "none"
          RootParts, PartsOf,     \* the directories of the root and of each path
          ExcludedDirs,           \* DEFAULT_EXCLUDED_DIRS
          Contents,               \* what each file may hold: [readable, shown, tree]
          NamesInPath,            \* of each path, the names that are part of it
          Holders,                \* of each name, those with a word it is part of, their
                                  \* words being split at the capitals
          PathRank,               \* the order of the paths
          SearchLimit,            \* the files a search lists
          LinksOut,               \* the paths that are links to files outside the root
          NoFile,
          MaxSaves,               \* bound on the edits of the files
          MaxIndexes              \* bound on the indexes made

\* The definitions of Python are functions and those of Java methods, wherever they
\* stand (function_definition, method_declaration).
ASSUME CodeConstants ==
  \A p \in CodePaths :
    /\ Languages[p] \in {"none", "python", "javascript", "java", "go"}
    /\ \A c \in Contents[p] : \A i \in DOMAIN c.tree :
         /\ Languages[p] = "python" => c.tree[i].type # "method"
         /\ Languages[p] = "java" => c.tree[i].type # "function"

ASSUME SearchesAreBounded ==
  IsFiniteSet(CodePaths) /\ SearchLimit \in Nat /\ PathRank \in [CodePaths -> Nat]

VARIABLES codeDisk, changed,  \* the files and the time each was last changed
          saves,              \* the edits so far
          indexes,            \* the CodeIndex objects: of each path, what was read
          serving, watching,  \* the objects of the server and of the watcher, or 0
          known,              \* _known_mtimes
          scan,               \* the scan under way: files to visit, times seen
          savedIndex,         \* the snapshot file
          unmet,              \* documents the watcher has not met a file of (a history)
          stirred             \* an edit since the scan began (a history)

codeVars == <<codeDisk, changed, saves, indexes, serving, watching, known, scan, savedIndex,
              unmet, stirred>>

NoScan == [left |-> {}, seen |-> <<>>, under |-> FALSE]
WithKey(f, k, v) == [x \in DOMAIN f \cup {k} |-> IF x = k THEN v ELSE f[x]]
Unindexed(f, k) == [x \in DOMAIN f \ {k} |-> f[x]]

CodeInit ==
  /\ codeDisk = [p \in CodePaths |-> NoFile] /\ changed = [p \in CodePaths |-> 0] /\ saves = 0
  /\ indexes = <<>> /\ serving = 0 /\ watching = 0
  /\ known = <<>> /\ scan = NoScan /\ savedIndex = NoFile
  /\ unmet = {} /\ stirred = FALSE

\* The names of directories are looked up in the absolute path, the root's too.
Excluded(p) == (RootParts \cup PartsOf[p]) \cap ExcludedDirs # {}
OnDisk == {p \in CodePaths : codeDisk[p] # NoFile}

\* _should_skip_path and _build_document: what can be indexed of a file.
Indexable(p) == p \in OnDisk /\ ~Excluded(p) /\ Languages[p] # "none" /\ codeDisk[p].readable
Built == [p \in {q \in CodePaths : Indexable(q)} |-> codeDisk[p]]

\* index_file, remove_file
Reindexed(index, p) == IF Indexable(p) THEN WithKey(index, p, codeDisk[p]) ELSE Unindexed(index, p)

NodesOf(tree, types) == {i \in DOMAIN tree : tree[i].type \in types}
Symbol(tree, i, entry, kind) == [node |-> i, entry |-> entry, name |-> tree[i].name, kind |-> kind]

\* _enclosing_parent_symbol: whether a class is around a node.
Enclosing(tree, i) ==
  LET above[k \in 0..Len(tree)] == IF k = 0 THEN FALSE
                                   ELSE tree[k].type = "class" \/ above[tree[k].up]
  IN above[tree[i].up]
Callable(tree, i) == IF Enclosing(tree, i) THEN "method" ELSE "function"

\* The node of a decorated definition is read too, for the function it decorates,
\* so that one is listed twice.
Decorated(tree, i) == tree[i].up # 0 /\ tree[tree[i].up].type = "decorated"

\* _extract_tree_sitter_*_symbols
PythonSymbols(tree) ==
  {Symbol(tree, i, 1, "class") : i \in NodesOf(tree, {"class"})}
    \cup {Symbol(tree, x[1], x[2], Callable(tree, x[1])) :
            x \in {y \in NodesOf(tree, {"function"}) \X {1, 2} : y[2] = 1 \/ Decorated(tree, y[1])}}
JavascriptSymbols(tree) ==
  {Symbol(tree, i, 1, tree[i].type) : i \in NodesOf(tree, {"class", "function", "method"})}
JavaSymbols(tree) ==
  {Symbol(tree, i, 1, "class") : i \in NodesOf(tree, {"class"})}
    \cup {Symbol(tree, i, 1, Callable(tree, i)) : i \in NodesOf(tree, {"method"})}
\* A Go function with a receiver is a method, wherever it stands.
GoSymbols(tree) ==
  {Symbol(tree, i, 1, tree[i].type) :
     i \in NodesOf(tree, {"struct", "interface", "function", "method"})}

SymbolsOf(language, tree) ==
  CASE language = "python" -> PythonSymbols(tree)
    [] language = "javascript" -> JavascriptSymbols(tree)
    [] language = "java" -> JavaSymbols(tree)
    [] language = "go" -> GoSymbols(tree)

\* list_symbols, of the whole index.
SymbolsIn(index) ==
  UNION {{[path |-> p, of |-> s] : s \in SymbolsOf(Languages[p], index[p].tree)} : p \in DOMAIN index}

\* get_function: a function or a method of that name, of any class.
Functions(index, name) ==
  {s \in SymbolsIn(index) : s.of.name = name /\ s.of.kind \in {"function", "method"}}

\* _score_document, of a query that is one name: it is looked for in the path, in the
\* first lines, and among the symbols.
Score(index, p, name) ==
  (IF name \in NamesInPath[p] THEN 5 ELSE 0)
    + (IF name \in index[p].shown THEN 3 + 2 ELSE 0)
    + (IF \E s \in SymbolsIn(index) : s.path = p /\ s.of.name \in Holders[name] THEN 4 ELSE 0)

\* search: the best files, of equal ones the first by their paths.
RankedBefore(index, name, q, p) ==
  \/ Score(index, q, name) > Score(index, p, name)
  \/ Score(index, q, name) = Score(index, p, name) /\ PathRank[q] < PathRank[p]
Scoring(index, name) == {p \in DOMAIN index : Score(index, p, name) > 0}
Hits(index, name) ==
  {p \in Scoring(index, name) :
     Cardinality({q \in Scoring(index, name) : RankedBefore(index, name, q, p)}) < SearchLimit}

Serve(index) ==
  /\ Len(indexes) < MaxIndexes
  /\ indexes' = Append(indexes, index) /\ serving' = Len(indexes) + 1

\* build, refresh, and the first query: the server takes a new object, unless a file
\* that would be indexed lies outside the root, which raises.
BuildIndex ==
  /\ \A p \in LinksOut : ~Indexable(p)
  /\ Serve(Built)
  /\ UNCHANGED <<codeDisk, changed, saves, watching, known, scan, savedIndex, unmet, stirred>>

SaveIndex ==
  /\ serving # 0 /\ savedIndex' = indexes[serving]
  /\ UNCHANGED <<codeDisk, changed, saves, indexes, serving, watching, known, scan, unmet, stirred>>

LoadIndex ==
  /\ savedIndex # NoFile /\ Serve(savedIndex)
  /\ UNCHANGED <<codeDisk, changed, saves, watching, known, scan, savedIndex, unmet, stirred>>

\* FileWatcher of the server's index, and start.
StartWatcher ==
  /\ watching = 0 /\ serving # 0 /\ watching' = serving
  /\ known' = <<>> /\ unmet' = DOMAIN indexes[serving] /\ stirred' = TRUE
  /\ UNCHANGED <<codeDisk, changed, saves, indexes, serving, scan, savedIndex>>

\* stop, which may cut the wait between two scans.
StopWatcher ==
  /\ watching # 0 /\ ~scan.under /\ watching' = 0
  /\ UNCHANGED <<codeDisk, changed, saves, indexes, serving, known, scan, savedIndex, unmet, stirred>>

Watched == {p \in OnDisk : ~Excluded(p)}

\* scan_once lists the files, ...
BeginScan ==
  /\ watching # 0 /\ ~scan.under
  /\ scan' = [left |-> Watched, seen |-> <<>>, under |-> TRUE] /\ stirred' = FALSE
  /\ UNCHANGED <<codeDisk, changed, saves, indexes, serving, watching, known, savedIndex, unmet>>

\* ... takes the time of each, and indexes it when it is another one, ...
VisitFile(p) ==
  /\ p \in scan.left /\ (p \in LinksOut => p \notin OnDisk)
  /\ scan' = [scan EXCEPT !.left = @ \ {p},
                          !.seen = IF p \in OnDisk THEN WithKey(@, p, changed[p]) ELSE @]
  /\ indexes' = IF p \in OnDisk /\ (p \notin DOMAIN known \/ known[p] # changed[p])
                THEN [indexes EXCEPT ![watching] = Reindexed(@, p)] ELSE indexes
  /\ UNCHANGED <<codeDisk, changed, saves, serving, watching, known, savedIndex, unmet, stirred>>

\* A bug the runs must notice: the files that are gone stay in the index.
EndScanKeepingGone ==
  /\ scan.under /\ scan.left = {}
  /\ known' = scan.seen /\ scan' = NoScan /\ unmet' = unmet \ DOMAIN scan.seen
  /\ UNCHANGED <<codeDisk, changed, saves, indexes, serving, watching, savedIndex, stirred>>

\* ... and drops those it knew and does not find.
EndScan ==
  /\ scan.under /\ scan.left = {}
  /\ indexes' = [indexes EXCEPT ![watching] =
                   [p \in DOMAIN @ \ (DOMAIN known \ DOMAIN scan.seen) |-> @[p]]]
  /\ known' = scan.seen /\ scan' = NoScan /\ unmet' = unmet \ DOMAIN scan.seen
  /\ UNCHANGED <<codeDisk, changed, saves, serving, watching, savedIndex, stirred>>

\* A file that goes away while it is indexed, or is a link out of the root, ends the
\* scan with an exception, and with it the task of the watcher (or start, which makes
\* the first scan): only another watcher scans again.
ScanFails(p) ==
  /\ p \in scan.left /\ IF p \in OnDisk THEN p \in LinksOut ELSE Languages[p] # "none"
  /\ watching' = 0 /\ scan' = NoScan
  /\ UNCHANGED <<codeDisk, changed, saves, indexes, serving, known, savedIndex, unmet, stirred>>

EditFile(p, content) ==
  /\ saves < MaxSaves /\ codeDisk[p] # content
  /\ saves' = saves + 1
  /\ codeDisk' = [codeDisk EXCEPT ![p] = content]
  /\ changed' = [changed EXCEPT ![p] = saves + 1]
  /\ stirred' = TRUE
  /\ UNCHANGED <<indexes, serving, watching, known, scan, savedIndex, unmet>>

CodeNext ==
  \/ BuildIndex \/ SaveIndex \/ LoadIndex \/ StartWatcher \/ StopWatcher \/ BeginScan \/ EndScan
  \/ \E p \in CodePaths : VisitFile(p) \/ ScanFails(p) \/ \E c \in Contents[p] \cup {NoFile} : EditFile(p, c)

FunctionNames(p) ==
  {codeDisk[p].tree[i].name : i \in {k \in DOMAIN codeDisk[p].tree :
                                       codeDisk[p].tree[k].type \in {"function", "method"}}}

\* The other files a search for a name may prefer.
Rivals(index, name, p) ==
  {q \in DOMAIN index \ {p} : Score(index, q, name) >= Score(index, p, name)}

(***************************************************************************)
(* After a scan that nobody disturbed, the watcher's index holds what the  *)
(* files hold: it finds a function by its name, in a file of a language    *)
(* that is read and outside the excluded directories, exactly when there   *)
(* is one, but for documents whose files were gone before the watcher's    *)
(* first scan.  A search for the name of a function lists its file, if     *)
(* the name is in the first lines, in the path or, as written there, among *)
(* the words of the symbols, which it is not when it has capitals inside,  *)
(* and if there are fewer other files than the limit that count as much.   *)
(***************************************************************************)
IndexFollowsDisk ==
  watching # 0 /\ ~scan.under /\ ~stirred =>
    LET index == indexes[watching]
        stale == unmet \ OnDisk
    IN /\ \A p \in CodePaths \ stale :
            IF Indexable(p) THEN p \in DOMAIN index /\ index[p] = codeDisk[p]
                            ELSE p \notin DOMAIN index
       /\ \A p \in DOMAIN index \ stale : \A n \in FunctionNames(p) :
            /\ \E s \in Functions(index, n) : s.path = p
            /\ n \in Holders[n] \cup NamesInPath[p] \cup index[p].shown
                 /\ Cardinality(Rivals(index, n, p)) < SearchLimit => p \in Hits(index, n)
=============================================================================
