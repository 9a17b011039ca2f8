---------------------------- MODULE ContextIncludes ----------------------------
(***************************************************************************)
(* The project instructions of src/faith_pa/pa/effective_context.py: the   *)
(* files AGENTS.md refers to, resolved depth first within limits, their    *)
(* texts cached behind a hash, and the snapshots of the contexts the turns *)
(* were given.  A file's text is the sequence of the paths it mentions.    *)
(*                                                                         *)
(* A refresh of the cache reads AGENTS.md, resolves the includes to hash   *)
(* them and, when the hash is a new one, resolves them again to build the  *)
(* block from; files are edited between these steps, not within one        *)
(* resolution.  A turn refreshes twice before it takes the block, and once *)
(* more to describe it; an estimate of the context's size refreshes once.  *)
(***************************************************************************)
EXTENDS Naturals, Sequences, FiniteSets, Functions, SequenceParts

LOCAL INSTANCE SequencesExt

CONSTANTS Instructions,     \* AGENTS.md
          Included,         \* the other files of the project
          Texts,            \* the texts a file may have
          MaxIncludeDepth,  \* max_include_depth
          MaxIncludeFiles,  \* max_include_files
          MaxEdits,         \* bound on the edits of files
          MaxPrompts        \* bound on the turns

Outside == "outside"        \* a reference out of the workspace
Gone == <<"gone">>            \* the text of a file that does not exist
Files == Included \cup {Instructions}

ASSUME ContextConstants ==
  /\ IsFiniteSet(Files) /\ Outside \notin Files
  /\ Texts \subseteq Seq(Files \cup {Outside})
  /\ MaxIncludeDepth \in Nat /\ MaxIncludeFiles \in Nat /\ MaxEdits \in Nat /\ MaxPrompts \in Nat

VARIABLES text,       \* the files
          hash,       \* _stable_hash: {} for None, or the input it was taken of
          block,      \* _stable_block: the texts it was built from
          reading,    \* the refresh under way: what it is for, its stage, the instructions it read
          snapshots,  \* the snapshot files, by the hash of the words: the turns they list
          prompts,    \* the texts each turn was given
          edits,
          \* what the properties need to know
          looked,     \* the texts the last hash was taken of
          askew       \* an edit fell between the two resolutions the block comes from

contextVars == <<text, hash, block, reading, snapshots, prompts, edits, looked, askew>>

\* read_project_instructions, and the read of an include.
Text(f) == IF text[f] = Gone THEN <<>> ELSE text[f]

\* _enumerate_candidate_include_paths: each path once, where it is mentioned first.
Candidates(t) == At(t, {i \in DOMAIN t : \A j \in DOMAIN t : j < i => t[j] # t[i]})

NoIncludes == [files |-> <<>>, warned |-> {}]

Limit(found, w) == [found EXCEPT !.warned = @ \cup {w}]

Findings == [files : Seq(Files), warned : SUBSET {"depth", "count", "skipped"}]

\* A bug the runs must notice: a file that was included is included again.
SkippedIfAway(f, found) == f = Outside \/ text[f] = Gone

\* What is no file of the workspace, or was included already.
Skipped(f, found) == f = Outside \/ text[f] = Gone \/ f \in Range(found.files)

Calls == [owner : Files, refs : Seq(Files \cup {Outside}), next : Nat \ {0}, depth : Nat \ {0},
          found : Findings]

Call(f, t, depth, found) ==
  [owner |-> f, refs |-> Candidates(t), next |-> 1, depth |-> depth, found |-> found]

\* The loop of a call, taken up after a candidate with what was found by then.
Onwards(c, found) == [c EXCEPT !.next = @ + 1, !.found = found]

\* resolve_children, from the candidate c.next of c.owner on.
Resolve[c \in Calls] ==
  LET f == c.refs[c.next]
  IN IF c.depth > MaxIncludeDepth THEN Limit(c.found, "depth")
     ELSE IF c.next > Len(c.refs) THEN c.found
     ELSE IF f = c.owner THEN Resolve[Onwards(c, c.found)]
     ELSE IF Len(c.found.files) >= MaxIncludeFiles THEN Limit(c.found, "count")
     ELSE IF Skipped(f, c.found) THEN Resolve[Onwards(c, Limit(c.found, "skipped"))]
     ELSE LET with == [c.found EXCEPT !.files = Append(@, f)]
          IN Resolve[Onwards(c, Resolve[Call(f, Text(f), c.depth + 1, with)])]

\* _resolve_include_entries, of instructions that were read before.
Includes(top) == Resolve[Call(Instructions, top, 1, NoIncludes)]

\* The instructions and the entries of their includes, with the texts they have now.
Entries(top) ==
  [top |-> top,
   parts |-> [i \in DOMAIN Includes(top).files |->
                LET f == Includes(top).files[i] IN [path |-> f, content |-> Text(f)]]]

\* The texts of a context one after another, each include behind its path.
Words(c) == c.top \o FlattenSeq([i \in DOMAIN c.parts |-> <<c.parts[i].path>> \o c.parts[i].content])

\* A bug the runs must notice: the texts of the includes are not hashed.
HashOfInstructions(c) == c.top

\* _build_stable_hash_input
StableHash(c) == Words(c)

NotReading == [pass |-> "none", stage |-> "fresh", top |-> <<>>]
NoEntries == [top |-> <<>>, parts |-> <<>>]

ContextInit ==
  /\ text \in [Files -> Texts \cup {Gone}]
  /\ hash = {}
  /\ block = NoEntries
  /\ reading = NotReading
  /\ snapshots = <<>>
  /\ prompts = <<>>
  /\ edits = 0
  /\ looked = NoEntries
  /\ askew = FALSE

\* The user, or a promoted rule, changes a file.
Edit(f, t) ==
  /\ edits < MaxEdits
  /\ edits' = edits + 1
  /\ text' = [text EXCEPT ![f] = t]
  /\ askew' = (askew \/ reading.stage = "stale")
  /\ UNCHANGED <<hash, block, reading, snapshots, prompts, looked>>

-----------------------------------------------------------------------------
(* _refresh_stable_block_if_needed *)

\* It reads AGENTS.md.
Refresh(pass) == reading' = [pass |-> pass, stage |-> "read", top |-> Text(Instructions)]

\* The includes are resolved to be hashed; the block is kept when its hash is the same.
Look ==
  /\ reading.stage = "read"
  /\ looked' = Entries(reading.top)
  /\ LET same == hash = {StableHash(looked')}
     IN /\ reading' = [reading EXCEPT !.stage = IF same THEN "fresh" ELSE "stale"]
        /\ askew' = (same /\ askew)
  /\ UNCHANGED <<text, hash, block, snapshots, prompts, edits>>

\* The block is built from a second resolution, and kept under the hash of the first.
Build ==
  /\ reading.stage = "stale"
  /\ block' = Entries(reading.top)
  /\ hash' = {StableHash(looked)}
  /\ reading' = [reading EXCEPT !.stage = "fresh"]
  /\ UNCHANGED <<text, snapshots, prompts, edits, looked, askew>>

-----------------------------------------------------------------------------
(* compile_for_turn and what refreshes beside it *)

Unread == UNCHANGED <<text, hash, block, edits, looked, askew>>

CompileForTurn ==
  /\ reading.pass = "none"
  /\ Len(prompts) < MaxPrompts
  /\ Refresh("compile")
  /\ Unread /\ UNCHANGED <<snapshots, prompts>>

\* compose_context_text: within compile_for_turn, or for the size of the context.
Compose ==
  /\ \/ reading.pass = "compile" /\ reading.stage = "fresh" /\ Refresh("compose")
     \/ reading.pass = "none" /\ Refresh("preview")
  /\ Unread /\ UNCHANGED <<snapshots, prompts>>

\* The turn is given the block, its snapshot lists the turn, and describe_context_files
\* follows.
Give ==
  /\ reading.pass = "compose" /\ reading.stage = "fresh"
  /\ prompts' = Append(prompts, block)
  /\ LET now == Words(block)
     IN snapshots' = [c \in DOMAIN snapshots \cup {now} |->
                        (IF c \in DOMAIN snapshots THEN snapshots[c] ELSE {})
                          \cup (IF c = now THEN {Len(prompts')} ELSE {})]
  /\ Refresh("describe")
  /\ Unread

Described ==
  /\ reading.pass \in {"describe", "preview"} /\ reading.stage = "fresh"
  /\ reading' = NotReading
  /\ Unread /\ UNCHANGED <<snapshots, prompts>>

ContextNext ==
  \/ \E f \in Files, t \in Texts \cup {Gone} : Edit(f, t)
  \/ Look \/ Build
  \/ CompileForTurn \/ Compose \/ Give \/ Described

\* The files there are that other files of S refer to.
Referred(S) == {f \in Files : text[f] # Gone /\ \E g \in S : f # g /\ f \in Range(Text(g))}

\* What the instructions lead to in d steps, without other limits.
Reach[d \in Nat] == IF d = 0 THEN {Instructions} ELSE Reach[d - 1] \cup Referred(Reach[d - 1])

(***************************************************************************)
(* The resolution gives every file once, at most as many as allowed, each  *)
(* one referred to along a path of the allowed length; and when it warns   *)
(* of no limit it gives them all.  (AGENTS.md itself is among them when an *)
(* included file refers to it.)                                            *)
(***************************************************************************)
IncludesAreTheReachableFiles ==
  LET files == Includes(Text(Instructions)).files
      others == Reach[Cardinality(Files)] \ {Instructions}
  IN /\ \A i, j \in DOMAIN files : files[i] = files[j] => i = j
     /\ Len(files) <= MaxIncludeFiles
     /\ Range(files) \subseteq Reach[MaxIncludeDepth] \ (IF text[Instructions] = Gone THEN {Instructions} ELSE {})
     /\ Includes(Text(Instructions)).warned \cap {"depth", "count"} = {} => others \subseteq Range(files)

(***************************************************************************)
(* A turn is given the words its last refresh has read: the cache never    *)
(* serves a text that was changed before the refresh, whatever was edited, *)
(* taken back or estimated in the meantime.  The exception is a block      *)
(* whose two resolutions an edit fell between: it is kept under the hash   *)
(* of texts it does not have, and served when they come back.              *)
(***************************************************************************)
PromptIsFresh ==
  [][prompts' # prompts /\ ~askew => Words(prompts'[Len(prompts')]) = Words(looked)]_contextVars

(***************************************************************************)
(* "Recompute the hash when the project instruction file or any included   *)
(* file changes."  It does not hold of every change: the hash is taken of  *)
(* the texts joined together, so that a text that moves from an include    *)
(* into the file that mentions it leaves it the same, and the exception    *)
(* above serves what was never hashed.                                     *)
(***************************************************************************)
PromptIsWhatWasRead == [][prompts' # prompts => prompts'[Len(prompts')] = looked]_contextVars
=============================================================================
