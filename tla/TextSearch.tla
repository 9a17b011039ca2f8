------------------------------- MODULE TextSearch -------------------------------
(***************************************************************************)
(* The search of src/faith_mcp/fulltext_search/ripgrep.py: excerpts are    *)
(* found as blocks of lines around the lines that match, named by a        *)
(* reference and fetched later by it; and ripgrep runs as a process with a *)
(* time limit.  A file is read afresh each time, but the symbols its code  *)
(* blocks are cut by come from a code index that is built once.            *)
(***************************************************************************)
EXTENDS Naturals, Sequences, FiniteSetsExt

CONSTANTS SearchFiles, GroupOf,   \* of each file: document, code, config_data, markup or json
          FileTexts,                  \* what files hold: lines [kind, level, hit] and symbols
          Requests,               \* the block types a caller may ask for, in order
          RgRequests, RgMatches,  \* the searches, and how many lines rg may print
          MaxMatches,             \* max_matches
          NoIndex,
          MaxRewrites             \* bound on the edits of the files

\* The symbols of a file are nodes of its syntax tree: within its lines, and of two
\* the one holds the other or they are apart, when they may share the line where the
\* one ends and the other begins.
ASSUME SearchConstants ==
  /\ \A f \in SearchFiles : GroupOf[f] \in {"document", "markup", "code", "config_data", "json"}
  /\ \A r \in Requests : r \in Seq(STRING)
  /\ \A t \in FileTexts :
       /\ t.lines \in Seq([kind : STRING, level : Nat, hit : BOOLEAN])
       /\ \A s \in t.symbols : s.first \in 1..Len(t.lines) /\ s.last \in s.first..Len(t.lines)
       /\ \A s, u \in t.symbols : s.type = u.type =>
            \/ s.first <= u.first /\ u.last <= s.last
            \/ u.first <= s.first /\ s.last <= u.last
            \/ s.last <= u.first \/ u.last <= s.first

VARIABLES page,       \* the files
          rewrites,   \* the edits so far
          codeIndex,  \* _code_index: of each file the symbols it had, or NoIndex
          found,      \* the references the last discovery gave
          fetched,    \* the block fetched last
          rg          \* of each search: idle, running, done, and its result

searchVars == <<page, rewrites, codeIndex, found, fetched, rg>>

NoResult == [matches |-> 0, truncated |-> FALSE]
NoBlock == [file |-> "none", lines |-> <<>>]

SearchInit ==
  /\ page \in [SearchFiles -> FileTexts] /\ rewrites = 0
  /\ codeIndex = NoIndex /\ found = {} /\ fetched = NoBlock
  /\ rg = [q \in RgRequests |-> [state |-> "idle", child |-> FALSE, result |-> NoResult]]

\* supported_block_types
Supported(f) ==
  CASE GroupOf[f] \in {"document", "markup"} -> {"line", "sentence", "paragraph", "section"}
    [] GroupOf[f] = "code" -> {"line", "module", "class", "function"}
    [] GroupOf[f] = "config_data" -> {"line", "entry", "section"}
    [] GroupOf[f] = "json" -> {"line", "entry", "object", "section"}

\* _DEFAULT_BLOCK_PRIORITIES
Defaults(f) ==
  CASE GroupOf[f] \in {"document", "markup"} -> <<"paragraph", "section", "line">>
    [] GroupOf[f] = "code" -> <<"function", "class", "line", "module">>
    [] OTHER -> <<"entry", "section", "line">>

Span(a, b) == [first |-> a, last |-> b]
Blank(lines, n) == lines[n].kind = "blank"
Heading(lines, n) == lines[n].kind = "heading"

\* _find_nonblank_span: the lines around that are not blank.
NonblankSpan(lines, n) ==
  IF Blank(lines, n) THEN {}
  ELSE {s \in {Span(x, y) : x \in 1..n, y \in n..Len(lines)} :
          /\ \A k \in s.first..s.last : ~Blank(lines, k)
          /\ s.first = 1 \/ Blank(lines, s.first - 1)
          /\ s.last = Len(lines) \/ Blank(lines, s.last + 1)}

\* A bug the runs must notice: the section takes the next heading along.
SectionThroughHeading(lines, n) ==
  LET headings == {h \in DOMAIN lines : Heading(lines, h)}
      mine == {h \in headings : h <= n}
      next == {h \in headings : h > Max(mine) /\ lines[h].level <= lines[Max(mine)].level}
  IN IF headings = {} THEN {Span(1, Len(lines))}
     ELSE IF mine = {} THEN {Span(1, Min(headings) - 1)}
     ELSE {Span(Max(mine), IF next = {} THEN Len(lines) ELSE Min(next))}

\* _find_document_section_span: from the heading above up to the next one of
\* its level or a higher one.
SectionSpan(lines, n) ==
  LET headings == {h \in DOMAIN lines : Heading(lines, h)}
      mine == {h \in headings : h <= n}
      next == {h \in headings : h > Max(mine) /\ lines[h].level <= lines[Max(mine)].level}
  IN IF headings = {} THEN {Span(1, Len(lines))}
     ELSE IF mine = {} THEN {Span(1, Min(headings) - 1)}
     ELSE {Span(Max(mine), IF next = {} THEN Len(lines) ELSE Min(next) - 1)}

\* _resolve_code_block_span: the shortest symbol of the index around the line.
CodeSpan(symbols, type, n) ==
  LET around == {s \in symbols : s.type = type /\ s.first <= n /\ n <= s.last}
      length(s) == s.last - s.first
  IN {Span(s.first, s.last) : s \in
        {x \in around : \A y \in around : \/ length(x) < length(y)
                                          \/ length(x) = length(y) /\ x.first <= y.first}}

\* _resolve_block_span: none, or the one block of that type.
BlockSpan(f, lines, symbols, type, n) ==
  CASE type \in {"line", "sentence"} -> {Span(n, n)}
    [] type = "module" -> {Span(1, Len(lines))}
    [] type = "paragraph" -> NonblankSpan(lines, n)
    [] type = "section" -> IF GroupOf[f] \in {"document", "markup"}
                           THEN SectionSpan(lines, n) ELSE NonblankSpan(lines, n)
    [] type = "entry" -> IF Blank(lines, n) THEN {} ELSE {Span(n, n)}
    [] type = "object" -> IF lines[1].kind = "brace" /\ lines[Len(lines)].kind = "brace"
                          THEN {Span(1, Len(lines))} ELSE {}
    [] OTHER -> CodeSpan(symbols, type, n)

\* The first type that gives a block of the line.
Chosen(f, lines, symbols, types, n) ==
  LET given == {i \in DOMAIN types : BlockSpan(f, lines, symbols, types[i], n) # {}}
  IN IF given = {} THEN {}
     ELSE {[type |-> types[Min(given)], span |-> s] :
             s \in BlockSpan(f, lines, symbols, types[Min(given)], n)}

\* The index is built when a code block is first looked for.
Indexed(f, types) ==
  IF GroupOf[f] = "code" /\ types[1] \in {"class", "function"} /\ codeIndex = NoIndex
  THEN [g \in SearchFiles |-> page[g].symbols] ELSE codeIndex

\* _discover_file_excerpts: one reference for each block, with its lines that match.
DiscoverExcerpts(f, request) ==
  LET types == IF request = <<>> THEN Defaults(f) ELSE request
      lines == page[f].lines
      hits == {n \in DOMAIN lines : lines[n].hit}
      index == Indexed(f, types)
      symbols == IF index = NoIndex THEN {} ELSE index[f]
      blocks == UNION {Chosen(f, lines, symbols, types, n) : n \in hits}
  IN /\ \A i \in DOMAIN types : types[i] \in Supported(f)
     /\ codeIndex' = IF hits = {} THEN codeIndex ELSE index
     /\ found' = {[file |-> f, type |-> b.type, span |-> b.span, text |-> page[f],
                   fresh |-> GroupOf[f] # "code" \/ symbols = page[f].symbols,
                   hits |-> {n \in hits : b \in Chosen(f, lines, symbols, types, n)}] : b \in blocks}
     /\ UNCHANGED <<page, rewrites, fetched, rg>>

\* _materialize_reference: whatever the file has there now.
RetrieveExcerpt(r) ==
  /\ r.span.last <= Len(page[r.file].lines)
  /\ fetched' = [file |-> r.file, lines |-> SubSeq(page[r.file].lines, r.span.first, r.span.last)]
  /\ UNCHANGED <<page, rewrites, codeIndex, found, rg>>

Rewrite(f, text) ==
  /\ rewrites < MaxRewrites /\ page[f] # text
  /\ rewrites' = rewrites + 1 /\ page' = [page EXCEPT ![f] = text]
  /\ UNCHANGED <<codeIndex, found, fetched, rg>>

RgTo(q, state, child, result) ==
  /\ rg' = [rg EXCEPT ![q] = [state |-> state, child |-> child, result |-> result]]
  /\ UNCHANGED <<page, rewrites, codeIndex, found, fetched>>

\* _run_rg: the process is started, ...
RunRg(q) == rg[q].state = "idle" /\ RgTo(q, "running", TRUE, NoResult)

\* ... its output cut to the limit, or its failure reported, ...
RgEnds(q, n) ==
  /\ rg[q].state = "running"
  /\ RgTo(q, "done", FALSE, [matches |-> Min({n, MaxMatches}), truncated |-> n >= MaxMatches])
RgFails(q) == rg[q].state = "running" /\ RgTo(q, "failed", FALSE, NoResult)

\* ... it is killed when the time is over, ...
RgTimesOut(q) == rg[q].state = "running" /\ RgTo(q, "timed out", FALSE, NoResult)

\* ... but goes on when its request is cancelled, to its own end.
RgCancelled(q) == rg[q].state = "running" /\ RgTo(q, "cancelled", TRUE, NoResult)
OrphanEnds(q) == rg[q].state = "cancelled" /\ rg[q].child /\ RgTo(q, "cancelled", FALSE, NoResult)

ExcerptNext ==
  \/ \E f \in SearchFiles : \/ \E r \in Requests : DiscoverExcerpts(f, r)
                            \/ \E t \in FileTexts : Rewrite(f, t)
  \/ \E r \in found : RetrieveExcerpt(r)

RgNext ==
  \E q \in RgRequests : \/ RunRg(q) \/ RgFails(q) \/ RgTimesOut(q) \/ RgCancelled(q)
                        \/ OrphanEnds(q) \/ \E n \in RgMatches : RgEnds(q, n)

(***************************************************************************)
(* A block that was found lies within the file it was found in and holds   *)
(* the lines that matched; no two blocks of one type overlap without one   *)
(* holding the other, but for the last line of one symbol where another    *)
(* begins; a paragraph has no blank line, and a section of a document no   *)
(* second heading of the level it begins with.  The blocks of code are so  *)
(* while the file has the symbols it had when the index was built.         *)
(***************************************************************************)
ExcerptsHoldTheirLines ==
  \A r \in found : r.fresh =>
    LET lines == r.text.lines
        inside == r.span.first..r.span.last
    IN /\ inside # {} /\ inside \subseteq DOMAIN lines /\ r.hits # {} /\ r.hits \subseteq inside
       /\ r.type = "paragraph" => \A n \in inside : ~Blank(lines, n)
       /\ r.type = "section" /\ GroupOf[r.file] \in {"document", "markup"} /\ Heading(lines, r.span.first) =>
            \A n \in inside \ {r.span.first} :
               ~(Heading(lines, n) /\ lines[n].level <= lines[r.span.first].level)
       /\ \A s \in found : s.type = r.type =>
            LET other == s.span.first..s.span.last
            IN \/ other \subseteq inside \/ inside \subseteq other \/ other \cap inside = {}
               \/ /\ r.type \in {"class", "function"}
                  /\ r.span.last = s.span.first \/ s.span.last = r.span.first
=============================================================================
