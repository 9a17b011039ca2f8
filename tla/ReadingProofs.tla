----------------------------- MODULE ReadingProofs -----------------------------
(* Theorems about what is read back: the instructions of a prompt with the files  *)
(* they include, the transcript of a session, and the costs of the calls, for     *)
(* every value of the constants.                                                  *)
EXTENDS ContextIncludes, Transcript, TokenLog, SequencePartsProofs

-----------------------------------------------------------------------------
(* The files the instructions of a prompt include *)

ContextTypes == text \in [Files -> Texts \cup {Gone}]

\* The natural numbers are well ordered.
LEMMA NumbersAreOrdered == WellOrders({p \in Nat \X Nat : p[1] < p[2]}, Nat)
<1> DEFINE R == {p \in Nat \X Nat : p[1] < p[2]}
<1>1. \A x, y \in Nat : <<x, y>> \in R <=> x < y
  OBVIOUS
<1> HIDE DEF R
<1>2. ASSUME NEW T \in SUBSET Nat, T # {} PROVE \E x \in T : \A y \in T : <<y, x>> \notin R
  <2>1. PICK x \in T : \A y \in T : x <= y
    BY <1>2, LeastNumber
  <2> QED BY <1>1, <2>1
<1> QED BY <1>1, <1>2 DEF WellOrders

\* What the files refer to are files or Outside.
LEMMA TextTyped ==
  ASSUME ContextTypes, NEW f \in Files
  PROVE  /\ Text(f) \in Seq(Files \cup {Outside}) /\ Len(Text(f)) \in Nat
         /\ \A i \in 1..Len(Text(f)) : Text(f)[i] \in Files \cup {Outside}
<1>1. Text(f) \in Seq(Files \cup {Outside})
  BY ContextConstants DEF ContextTypes, Text
<1> QED BY <1>1, ElementOfSeq, LenProperties

\* The calls and takings up a call waits for.
Before(b, c) ==
  /\ c.depth <= MaxIncludeDepth
  /\ \/ b.depth > c.depth
     \/ /\ b.depth = c.depth /\ b.owner = c.owner /\ b.refs = c.refs
        /\ b.next > c.next /\ c.next <= Len(c.refs)
CallOrder == {p \in Calls \X Calls : Before(p[1], p[2])}

\* What the order of the calls says, as a set of pairs.
LEMMA CallOrderIsBefore == \A b, c \in Calls : <<b, c>> \in CallOrder <=> Before(b, c)
BY DEF CallOrder

\* The calls are well ordered: one that is nested is deeper, the next one of a file
\* is further on, and there is a deepest call.
LEMMA CallsAreOrdered == WellOrders(CallOrder, Calls)
<1>0. /\ \A c \in Calls : c.depth \in Nat /\ c.next \in Nat /\ c.owner \in Files /\ Len(c.refs) \in Nat
      /\ MaxIncludeDepth \in Nat
  <2>1. \A c \in Calls : c.depth \in Nat /\ c.next \in Nat /\ c.owner \in Files
                        /\ c.refs \in Seq(Files \cup {Outside})
    BY DEF Calls
  <2> QED BY <2>1, LenProperties, ContextConstants
<1>1. ASSUME NEW x \in Calls, NEW y \in Calls, NEW z \in Calls, Before(x, y), Before(y, z)
      PROVE  Before(x, z)
  BY <1>0, <1>1 DEF Before
<1>2. ASSUME NEW T \in SUBSET Calls, T # {}
      PROVE  \E x \in T : \A y \in T : ~Before(y, x)
  <2>1. CASE \E x \in T : x.depth > MaxIncludeDepth
    <3>1. PICK x \in T : x.depth > MaxIncludeDepth
      BY <2>1
    <3> QED BY <1>0, <3>1 DEF Before
  <2>2. CASE \A x \in T : x.depth <= MaxIncludeDepth
    <3> DEFINE depths == {MaxIncludeDepth - x.depth : x \in T}
    <3>1. depths \in SUBSET Nat /\ depths # {}
      BY <1>0, <1>2, <2>2
    <3>2. PICK d \in depths : \A e \in depths : d <= e
      BY <3>1, LeastNumber
    <3>3. PICK x \in T : \A y \in T : y.depth <= x.depth
      <4>1. PICK x \in T : d = MaxIncludeDepth - x.depth
        BY <3>2
      <4>2. ASSUME NEW y \in T PROVE y.depth <= x.depth
        <5>1. d <= MaxIncludeDepth - y.depth
          BY <3>2
        <5> QED BY <1>0, <4>1, <5>1
      <4> QED BY <4>2
    <3> DEFINE U == {y \in T : y.owner = x.owner /\ y.refs = x.refs /\ y.depth = x.depth}
               L == Len(x.refs)
    <3>4. CASE \E y \in U : y.next > L
      <4>1. PICK y \in U : y.next > L
        BY <3>4
      <4>2. \A z \in T : ~Before(z, y)
        BY <1>0, <3>3, <4>1 DEF Before
      <4> QED BY <4>1, <4>2
    <3>5. CASE \A y \in U : y.next <= L
      <4> DEFINE rests == {L - y.next : y \in U}
      <4>1. rests \in SUBSET Nat /\ rests # {}
        BY <1>0, <3>5
      <4>2. PICK r \in rests : \A q \in rests : r <= q
        BY <4>1, LeastNumber
      <4>3. PICK y \in U : r = L - y.next
        BY <4>2
      <4>4. ASSUME NEW z \in T, Before(z, y) PROVE FALSE
        <5>1. z \in U /\ z.next > y.next
          BY <1>0, <3>3, <4>3, <4>4 DEF Before
        <5>2. r <= L - z.next
          BY <4>2, <5>1
        <5> QED BY <1>0, <4>3, <5>1, <5>2
      <4> QED BY <4>3, <4>4
    <3> QED BY <1>0, <3>4, <3>5
  <2> QED BY <1>0, <2>1, <2>2
<1>3. ASSUME NEW T \in SUBSET Calls, T # {}
      PROVE  \E x \in T : \A y \in T : <<y, x>> \notin CallOrder
  <2>1. PICK x \in T : \A y \in T : ~Before(y, x)
    BY <1>2, <1>3
  <2> QED BY <2>1, CallOrderIsBefore
<1> QED BY <1>1, <1>3, CallOrderIsBefore DEF WellOrders

\* One step of the resolution, the results of the calls taken from F.
ResolveStep(c, F) ==
  LET f == c.refs[c.next]
  IN IF c.depth > MaxIncludeDepth THEN Limit(c.found, "depth")
     ELSE IF c.next > Len(c.refs) THEN c.found
     ELSE IF f = c.owner THEN F[Onwards(c, c.found)]
     ELSE IF Len(c.found.files) >= MaxIncludeFiles THEN Limit(c.found, "count")
     ELSE IF Skipped(f, c.found) THEN F[Onwards(c, Limit(c.found, "skipped"))]
     ELSE LET with == [c.found EXCEPT !.files = Append(@, f)]
          IN F[Onwards(c, F[Call(f, Text(f), c.depth + 1, with)])]

\* The recursive function, as the value that TLA+ chooses for its equation.
LEMMA ResolveUnfolds ==
  ASSUME \E F \in [Calls -> Findings] : F = [c \in Calls |-> ResolveStep(c, F)]
  PROVE  Resolve = [c \in Calls |-> ResolveStep(c, Resolve)]
BY DEF Resolve, ResolveStep

With(found, f) == [found EXCEPT !.files = Append(@, f)]

\* The candidates of a text are its paths.
LEMMA CandidatesAre ==
  ASSUME NEW S, NEW t \in Seq(S)
  PROVE  Candidates(t) \in Seq(S) /\ Range(Candidates(t)) = Range(t)
<1> DEFINE I == {i \in DOMAIN t : \A j \in DOMAIN t : j < i => t[j] # t[i]}
<1>1. DOMAIN t = 1..Len(t) /\ Len(t) \in Nat
  BY LenProperties
<1>2. I \in SUBSET (1..Len(t)) /\ Candidates(t) = At(t, I)
  BY <1>1 DEF Candidates
<1>3. \A i \in I : t[i] \in Range(t)
  BY DEF Range
<1>4. ASSUME NEW i \in DOMAIN t PROVE \E j \in I : t[j] = t[i]
  <2> DEFINE T == {j \in DOMAIN t : t[j] = t[i]}
  <2>1. T \in SUBSET Nat /\ T # {}
    BY <1>1
  <2>2. PICK j \in T : \A k \in T : j <= k
    <3> HIDE DEF T
    <3> QED BY <2>1, LeastNumber
  <2>3. \A k \in DOMAIN t : k < j => t[k] # t[j]
    <3> SUFFICES ASSUME NEW k \in DOMAIN t, k < j, t[k] = t[j] PROVE FALSE
      OBVIOUS
    <3>1. k \in T /\ k \in Nat /\ j \in Nat
      BY <1>1, <2>2
    <3> QED BY <2>2, <3>1
  <2> QED BY <2>2, <2>3
<1> HIDE DEF I
<1>5. /\ At(t, I) \in Seq(S) /\ Len(At(t, I)) = Cardinality(I)
      /\ \A k \in 1..Cardinality(I) : \E i \in I : At(t, I)[k] = t[i]
      /\ \A i \in I : \E k \in 1..Cardinality(I) : At(t, I)[k] = t[i]
  BY <1>2, AtProperties
<1>6. DOMAIN At(t, I) = 1..Cardinality(I)
  BY <1>5, LenProperties
<1>7. Range(At(t, I)) = Range(t)
  <2> DEFINE u == At(t, I)
  <2>1. Range(u) = {u[k] : k \in 1..Cardinality(I)} /\ Range(t) = {t[i] : i \in DOMAIN t}
    BY <1>6 DEF Range
  <2>2. ASSUME NEW k \in 1..Cardinality(I) PROVE u[k] \in Range(t)
    <3>1. PICK i \in I : u[k] = t[i]
      BY <1>5
    <3> QED BY <1>3, <3>1
  <2>3. ASSUME NEW i \in DOMAIN t PROVE t[i] \in Range(u)
    <3>1. PICK j \in I : t[j] = t[i]
      BY <1>4
    <3>2. PICK k \in 1..Cardinality(I) : u[k] = t[j]
      BY <1>5
    <3> HIDE DEF u
    <3> QED BY <2>1, <3>1, <3>2
  <2> HIDE DEF u
  <2> QED BY <2>1, <2>2, <2>3 DEF u
<1> QED BY <1>2, <1>5, <1>7

\* The calls a call makes, and the ways it goes on, are calls again.
LEMMA CallsTyped ==
  ASSUME ContextTypes, NEW c \in Calls
  PROVE  /\ c.found \in Findings /\ c.owner \in Files /\ c.next \in Nat \ {0} /\ c.depth \in Nat \ {0}
         /\ c.refs \in Seq(Files \cup {Outside}) /\ Len(c.refs) \in Nat
         /\ \A i \in 1..Len(c.refs) : c.refs[i] \in Files \cup {Outside}
         /\ \A w \in {"depth", "count", "skipped"} : Limit(c.found, w) \in Findings
         /\ \A f \in Files : /\ With(c.found, f) \in Findings
                             /\ \A fd \in Findings : Call(f, Text(f), c.depth + 1, fd) \in Calls
         /\ \A fd \in Findings : Onwards(c, fd) \in Calls
<1>1. /\ c.found \in Findings /\ c.owner \in Files /\ c.next \in Nat \ {0} /\ c.depth \in Nat \ {0}
      /\ c.refs \in Seq(Files \cup {Outside})
      /\ c = [owner |-> c.owner, refs |-> c.refs, next |-> c.next, depth |-> c.depth, found |-> c.found]
  BY DEF Calls
<1>0. Len(c.refs) \in Nat /\ \A i \in 1..Len(c.refs) : c.refs[i] \in Files \cup {Outside}
  BY <1>1, LenProperties, ElementOfSeq
<1>2. \A w \in {"depth", "count", "skipped"} : Limit(c.found, w) \in Findings
  BY <1>1 DEF Findings, Limit
<1>3. ASSUME NEW f \in Files PROVE With(c.found, f) \in Findings
  <2>1. Append(c.found.files, f) \in Seq(Files)
    BY <1>1 DEF Findings
  <2> QED BY <1>1, <2>1 DEF Findings, With
<1>4. \A f \in Files, fd \in Findings : Call(f, Text(f), c.depth + 1, fd) \in Calls
  <2> SUFFICES ASSUME NEW f \in Files, NEW fd \in Findings
               PROVE  Call(f, Text(f), c.depth + 1, fd) \in Calls
    OBVIOUS
  <2>1. Candidates(Text(f)) \in Seq(Files \cup {Outside})
    BY TextTyped, CandidatesAre
  <2>2. c.depth + 1 \in Nat \ {0} /\ 1 \in Nat \ {0}
    BY <1>1
  <2> QED BY <2>1, <2>2 DEF Calls, Call
<1>5. ASSUME NEW fd \in Findings PROVE Onwards(c, fd) \in Calls
  <2>1. Onwards(c, fd) = [owner |-> c.owner, refs |-> c.refs, next |-> c.next + 1, depth |-> c.depth,
                          found |-> fd]
    <3> DEFINE e == [c EXCEPT !.next = @ + 1]
    <3>1. e = [owner |-> c.owner, refs |-> c.refs, next |-> c.next + 1, depth |-> c.depth,
               found |-> c.found]
      BY <1>1
    <3>2. Onwards(c, fd) = [e EXCEPT !.found = fd]
      BY DEF Onwards
    <3> HIDE DEF e
    <3> QED BY <3>1, <3>2
  <2>2. c.next + 1 \in Nat \ {0}
    BY <1>1
  <2> QED BY <1>1, <2>1, <2>2 DEF Calls
<1> QED BY <1>0, <1>1, <1>2, <1>3, <1>4, <1>5

\* A candidate that is not skipped is a file.
LEMMA CandidatesAreFiles ==
  ASSUME ContextTypes, NEW c \in Calls, c.next <= Len(c.refs), ~Skipped(c.refs[c.next], c.found)
  PROVE  c.refs[c.next] \in Files
<1>1. c.next \in 1..Len(c.refs) /\ c.owner \in Files
  <2>1. c.owner \in Files /\ c.next \in Nat \ {0}
    BY CallsTyped
  <2>2. Len(c.refs) \in Nat
    BY CallsTyped
  <2> QED BY <2>1, <2>2
<1>2. c.refs[c.next] \in Files \cup {Outside}
  BY <1>1, CallsTyped
<1> QED BY <1>2 DEF Skipped

\* What a call waits for comes before it.
LEMMA CalledBefore ==
  ASSUME ContextTypes, NEW c \in Calls, c.depth <= MaxIncludeDepth, NEW fd \in Findings
  PROVE  /\ \A f \in Files : Before(Call(f, Text(f), c.depth + 1, fd), c)
         /\ c.next <= Len(c.refs) => Before(Onwards(c, fd), c)
<1>1. c.depth \in Nat /\ c.next \in Nat
  BY CallsTyped
<1>2. ASSUME NEW f \in Files PROVE Before(Call(f, Text(f), c.depth + 1, fd), c)
  BY <1>1 DEF Before, Call
<1>3. /\ Onwards(c, fd).depth = c.depth /\ Onwards(c, fd).owner = c.owner
      /\ Onwards(c, fd).refs = c.refs /\ Onwards(c, fd).next = c.next + 1
  BY CallsTyped DEF Onwards, Calls
<1> QED BY <1>1, <1>2, <1>3 DEF Before

\* A call that is neither too deep nor done.
LEMMA InTheLoop ==
  ASSUME ContextTypes, NEW c \in Calls, ~(c.depth > MaxIncludeDepth), ~(c.next > Len(c.refs))
  PROVE  c.depth <= MaxIncludeDepth /\ c.next <= Len(c.refs)
<1>1. c.owner \in Files /\ c.next \in Nat /\ c.depth \in Nat /\ MaxIncludeDepth \in Nat
  BY CallsTyped, ContextConstants
<1>2. Len(c.refs) \in Nat
  BY CallsTyped
<1> QED BY <1>1, <1>2

\* What a call finds are files, when what the other calls find are.
LEMMA StepTyped ==
  ASSUME ContextTypes, NEW c \in Calls, NEW F, \A b \in Calls : Before(b, c) => F[b] \in Findings
  PROVE  ResolveStep(c, F) \in Findings
<1> DEFINE f == c.refs[c.next]
<1>1. CASE c.depth > MaxIncludeDepth
  BY <1>1, CallsTyped DEF ResolveStep
<1>2. CASE c.next > Len(c.refs)
  BY <1>2, CallsTyped DEF ResolveStep
<1>3. CASE ~(c.depth > MaxIncludeDepth) /\ ~(c.next > Len(c.refs))
  <2>0. c.depth <= MaxIncludeDepth /\ c.next <= Len(c.refs)
    BY <1>3, InTheLoop
  <2>1. c.found \in Findings /\ \A w \in {"depth", "count", "skipped"} : Limit(c.found, w) \in Findings
    BY CallsTyped
  <2>2. \A fd \in Findings : F[Onwards(c, fd)] \in Findings
    BY <2>0, CallsTyped, CalledBefore
  <2>3. CASE f = c.owner
    BY <1>3, <2>1, <2>2, <2>3 DEF ResolveStep
  <2>4. CASE f # c.owner /\ Len(c.found.files) >= MaxIncludeFiles
    BY <1>3, <2>1, <2>4 DEF ResolveStep
  <2>5. CASE f # c.owner /\ ~(Len(c.found.files) >= MaxIncludeFiles) /\ Skipped(f, c.found)
    BY <1>3, <2>1, <2>2, <2>5 DEF ResolveStep
  <2>6. CASE f # c.owner /\ ~(Len(c.found.files) >= MaxIncludeFiles) /\ ~Skipped(f, c.found)
    <3>1. f \in Files
      BY <2>0, <2>6, CandidatesAreFiles
    <3>2. F[Call(f, Text(f), c.depth + 1, With(c.found, f))] \in Findings
      BY <2>0, <3>1, CallsTyped, CalledBefore
    <3>3. ResolveStep(c, F) = F[Onwards(c, F[Call(f, Text(f), c.depth + 1, With(c.found, f))])]
      BY <1>3, <2>6 DEF ResolveStep, With
    <3> QED BY <2>2, <3>2, <3>3
  <2> QED BY <2>3, <2>4, <2>5, <2>6
<1> QED BY <1>1, <1>2, <1>3

\* A call rests on calls before it only.
LEMMA StepLooksBack ==
  ASSUME ContextTypes, NEW c \in Calls, NEW F, NEW H,
         \A b \in Calls : Before(b, c) => F[b] = H[b] /\ F[b] \in Findings
  PROVE  ResolveStep(c, F) = ResolveStep(c, H)
<1> DEFINE f == c.refs[c.next]
<1>1. CASE c.depth > MaxIncludeDepth
  BY <1>1 DEF ResolveStep
<1>2. CASE c.next > Len(c.refs)
  BY <1>2 DEF ResolveStep
<1>3. CASE ~(c.depth > MaxIncludeDepth) /\ ~(c.next > Len(c.refs))
  <2>0. c.depth <= MaxIncludeDepth /\ c.next <= Len(c.refs)
    BY <1>3, InTheLoop
  <2>1. c.found \in Findings /\ \A w \in {"depth", "count", "skipped"} : Limit(c.found, w) \in Findings
    BY CallsTyped
  <2>2. ASSUME NEW fd \in Findings PROVE F[Onwards(c, fd)] = H[Onwards(c, fd)]
    BY <2>0, CallsTyped, CalledBefore
  <2>3. CASE f = c.owner
    BY <1>3, <2>1, <2>2, <2>3 DEF ResolveStep
  <2>4. CASE f # c.owner /\ Len(c.found.files) >= MaxIncludeFiles
    BY <1>3, <2>1, <2>4 DEF ResolveStep
  <2>5. CASE f # c.owner /\ ~(Len(c.found.files) >= MaxIncludeFiles) /\ Skipped(f, c.found)
    BY <1>3, <2>1, <2>2, <2>5 DEF ResolveStep
  <2>6. CASE f # c.owner /\ ~(Len(c.found.files) >= MaxIncludeFiles) /\ ~Skipped(f, c.found)
    <3>1. f \in Files
      BY <2>0, <2>6, CandidatesAreFiles
    <3> DEFINE inner == Call(f, Text(f), c.depth + 1, With(c.found, f))
    <3>2. inner \in Calls /\ Before(inner, c)
      BY <2>0, <3>1, CallsTyped, CalledBefore
    <3>3. F[inner] = H[inner] /\ F[inner] \in Findings
      BY <3>2, Zenon
    <3>4. F[Onwards(c, F[inner])] = H[Onwards(c, H[inner])]
      BY <2>2, <3>3
    <3>5. ResolveStep(c, F) = F[Onwards(c, F[inner])] /\ ResolveStep(c, H) = H[Onwards(c, H[inner])]
      BY <1>3, <2>6 DEF ResolveStep, With
    <3> QED BY <3>4, <3>5
  <2> QED BY <2>3, <2>4, <2>5, <2>6
<1> QED BY <1>1, <1>2, <1>3

\* The recursion is well defined: the resolution of every call is its step.
LEMMA ResolveDefined ==
  ASSUME ContextTypes
  PROVE  Resolve \in [Calls -> Findings] /\ \A c \in Calls : Resolve[c] = ResolveStep(c, Resolve)
<1> DEFINE G == [c \in Calls |-> [F \in [Calls -> Findings] |-> ResolveStep(c, F)]]
<1>1. G \in [Calls -> [[Calls -> Findings] -> Findings]]
  BY StepTyped
<1>2. \A c \in Calls, F \in [Calls -> Findings] : G[c][F] = ResolveStep(c, F)
  OBVIOUS
<1> HIDE DEF G
<1>3. LooksBack(G, CallOrder, Calls, Findings)
  <2> SUFFICES ASSUME NEW c \in Calls, NEW F \in [Calls -> Findings], NEW H \in [Calls -> Findings],
                      \A b \in Calls : <<b, c>> \in CallOrder => F[b] = H[b]
               PROVE  G[c][F] = G[c][H]
    BY DEF LooksBack
  <2>1. \A b \in Calls : Before(b, c) => F[b] = H[b] /\ F[b] \in Findings
    BY CallOrderIsBefore
  <2> QED BY <1>2, <2>1, StepLooksBack
<1>4. NoIncludes \in Findings
  BY DEF NoIncludes, Findings
<1>5. PICK F \in [Calls -> Findings] : \A c \in Calls : F[c] = G[c][F]
  <2>1. Findings # {}
    BY <1>4
  <2>2. WellOrders(CallOrder, Calls)
    BY CallsAreOrdered
  <2>3. Recursive(G, CallOrder, Calls, Findings)
    BY <1>1, <1>3, <2>1 DEF Recursive
  <2> QED BY <2>2, <2>3, RecursionExists DEF Solvable
<1>6. F = [c \in Calls |-> ResolveStep(c, F)]
  <2>1. \A c \in Calls : F[c] = ResolveStep(c, F)
    BY <1>2, <1>5
  <2> QED BY <2>1
<1>7. Resolve = [c \in Calls |-> ResolveStep(c, Resolve)]
  BY <1>6, ResolveUnfolds
<1>8. \A c \in Calls : Resolve[c] \in Findings
  <2> DEFINE T == {c \in Calls : Resolve[c] \notin Findings}
  <2>1. SUFFICES ASSUME T # {} PROVE FALSE
    OBVIOUS
  <2>2. PICK c \in T : \A b \in T : <<b, c>> \notin CallOrder
    BY <2>1, CallsAreOrdered DEF WellOrders
  <2>3. \A b \in Calls : Before(b, c) => Resolve[b] \in Findings
    BY <2>2, CallOrderIsBefore
  <2>4. ResolveStep(c, Resolve) \in Findings
    BY <2>2, <2>3, StepTyped
  <2> QED BY <1>7, <2>2, <2>4
<1> QED BY <1>7, <1>8

\* What Reach computes, and that it grows.
ReachStep(d, F) ==
  IF d = 0 THEN {Instructions}
  ELSE F[d - 1] \cup Referred(F[d - 1])

\* The recursive function of the files within reach, likewise.
LEMMA ReachUnfolds ==
  ASSUME \E F \in [Nat -> SUBSET Files] : F = [d \in Nat |-> ReachStep(d, F)]
  PROVE  Reach = [d \in Nat |-> ReachStep(d, Reach)]
BY DEF Reach, ReachStep

\* Its equation holds: the next level holds what the files of a level refer to.
LEMMA ReachDefined ==
  /\ Reach[0] = {Instructions}
  /\ \A d \in Nat : Reach[d + 1] = Reach[d] \cup Referred(Reach[d])
<1> DEFINE G == [d \in Nat |-> [F \in [Nat -> SUBSET Files] |-> ReachStep(d, F)]]
           R == {p \in Nat \X Nat : p[1] < p[2]}
<1>1. \A d \in Nat, F \in [Nat -> SUBSET Files] : ReachStep(d, F) \in SUBSET Files
  <2> SUFFICES ASSUME NEW d \in Nat, NEW F \in [Nat -> SUBSET Files] PROVE ReachStep(d, F) \in SUBSET Files
    OBVIOUS
  <2>1. CASE d = 0
    BY <2>1 DEF ReachStep, Files
  <2>2. CASE d # 0
    <3>1. F[d - 1] \in SUBSET Files
      BY <2>2
    <3> QED BY <2>2, <3>1 DEF ReachStep, Referred
  <2> QED BY <2>1, <2>2
<1>2. G \in [Nat -> [[Nat -> SUBSET Files] -> SUBSET Files]]
  BY <1>1
<1>3. \A d \in Nat, F \in [Nat -> SUBSET Files] : G[d][F] = ReachStep(d, F)
  OBVIOUS
<1> HIDE DEF G
<1>4. LooksBack(G, R, Nat, SUBSET Files)
  <2> SUFFICES ASSUME NEW d \in Nat, NEW F \in [Nat -> SUBSET Files], NEW H \in [Nat -> SUBSET Files],
                      \A e \in Nat : <<e, d>> \in R => F[e] = H[e]
               PROVE  G[d][F] = G[d][H]
    BY DEF LooksBack
  <2>1. ASSUME d # 0 PROVE F[d - 1] = H[d - 1]
    <3>1. d - 1 \in Nat /\ <<d - 1, d>> \in R
      BY <2>1
    <3> HIDE DEF R
    <3> QED BY <3>1
  <2>2. ReachStep(d, F) = ReachStep(d, H)
    BY <2>1 DEF ReachStep
  <2> QED BY <1>3, <2>2
<1>5. PICK F \in [Nat -> SUBSET Files] : \A d \in Nat : F[d] = G[d][F]
  <2>1. Recursive(G, R, Nat, SUBSET Files)
    BY <1>2, <1>4 DEF Recursive
  <2> QED BY <2>1, NumbersAreOrdered, RecursionExists DEF Solvable
<1>6. F = [d \in Nat |-> ReachStep(d, F)]
  <2>1. \A d \in Nat : F[d] = ReachStep(d, F)
    BY <1>3, <1>5
  <2> QED BY <2>1
<1>7. \A d \in Nat : Reach[d] = ReachStep(d, Reach)
  BY <1>6, ReachUnfolds
<1>8. Reach[0] = {Instructions}
  BY <1>7 DEF ReachStep
<1>9. ASSUME NEW d \in Nat
      PROVE  Reach[d + 1] = Reach[d] \cup Referred(Reach[d])
  <2>1. PICK e \in Nat : e = d + 1 /\ e # 0 /\ e - 1 = d
    OBVIOUS
  <2>2. Reach[e] = ReachStep(e, Reach)
    BY <1>7
  <2>3. ReachStep(e, Reach) = Reach[d] \cup Referred(Reach[d])
    BY <2>1, Zenon DEF ReachStep
  <2> QED BY <2>1, <2>2, <2>3
<1> QED BY <1>8, <1>9

\* What is within reach is within reach of one reference more.
LEMMA ReachGrows ==
  /\ \A d \in Nat : Reach[d] \subseteq Files
  /\ \A d, e \in Nat : d <= e => Reach[d] \subseteq Reach[e]
<1>1. \A d \in Nat : Reach[d] \subseteq Files
  <2> DEFINE T == {d \in Nat : Reach[d] \subseteq Files}
  <2>1. 0 \in T
    BY ReachDefined DEF Files
  <2>2. \A d \in T : d + 1 \in T
    BY ReachDefined DEF Referred
  <2>3. T = Nat
    <3> HIDE DEF T
    <3>1. T \in SUBSET Nat
      BY DEF T
    <3> QED BY <2>1, <2>2, <3>1, Induction
  <2> QED BY <2>3
<1>2. ASSUME NEW d \in Nat PROVE \A n \in Nat : Reach[d] \subseteq Reach[d + n]
  <2> DEFINE T == {n \in Nat : Reach[d] \subseteq Reach[d + n]}
  <2>1. 0 \in T
    OBVIOUS
  <2>2. ASSUME NEW n \in T PROVE n + 1 \in T
    <3>1. d + n \in Nat /\ d + (n + 1) = (d + n) + 1
      OBVIOUS
    <3>2. Reach[d + n] \subseteq Reach[(d + n) + 1]
      BY <3>1, ReachDefined
    <3> QED BY <2>2, <3>1, <3>2
  <2>3. T = Nat
    <3> HIDE DEF T
    <3>1. T \in SUBSET Nat
      BY DEF T
    <3> QED BY <2>1, <2>2, <3>1, Induction
  <2> QED BY <2>3
<1>3. ASSUME NEW d \in Nat, NEW e \in Nat, d <= e PROVE Reach[d] \subseteq Reach[e]
  <2>1. e - d \in Nat /\ d + (e - d) = e
    BY <1>3
  <2> QED BY <1>2, <2>1
<1> QED BY <1>1, <1>3

(***************************************************************************)
(* What a call of the resolution adds to what was found.                   *)
(***************************************************************************)
Extends(a, b) ==
  /\ Len(a.files) <= Len(b.files)
  /\ \A i \in 1..Len(a.files) : b.files[i] = a.files[i]
  /\ a.warned \subseteq b.warned
Once(files) == \A i, j \in DOMAIN files : files[i] = files[j] => i = j
Wanted == {f \in Files : text[f] # Gone /\ f \in Reach[MaxIncludeDepth]}
Named(g, f) == f \in Files /\ f # g /\ text[f] # Gone
Refers(g, f) == Named(g, f) /\ f \in Range(Text(g))
Complete(found) == found.warned \cap {"depth", "count"} = {}
Closed(g, files) == \A f \in Files : Refers(g, f) => f \in Range(files)

OnTheWay(c) ==
  /\ c.owner \in Reach[c.depth - 1] /\ Range(c.refs) \subseteq Range(Text(c.owner))
  /\ Range(c.found.files) \subseteq Wanted

Sound(c, r) ==
  /\ Extends(c.found, r)
  /\ Once(c.found.files) => Once(r.files)
  /\ Len(c.found.files) <= MaxIncludeFiles => Len(r.files) <= MaxIncludeFiles
  /\ OnTheWay(c) => Range(r.files) \subseteq Wanted
  /\ Complete(r) =>
       /\ \A j \in c.next..Len(c.refs) :
            Named(c.owner, c.refs[j]) => c.refs[j] \in Range(r.files)
       /\ \A g \in Range(r.files) \ Range(c.found.files) : Closed(g, r.files)

\* The parts of what a call finds.
LEMMA FindingsTyped ==
  ASSUME NEW a \in Findings
  PROVE  /\ a.files \in Seq(Files) /\ Len(a.files) \in Nat /\ DOMAIN a.files = 1..Len(a.files)
         /\ a.warned \subseteq {"depth", "count", "skipped"}
         /\ Range(a.files) = {a.files[i] : i \in 1..Len(a.files)} /\ Range(a.files) \subseteq Files
<1>1. a.files \in Seq(Files) /\ a.warned \subseteq {"depth", "count", "skipped"}
  BY DEF Findings
<1>2. Len(a.files) \in Nat /\ DOMAIN a.files = 1..Len(a.files)
  BY <1>1, LenProperties
<1>3. \A i \in 1..Len(a.files) : a.files[i] \in Files
  BY <1>1, ElementOfSeq
<1> QED BY <1>1, <1>2, <1>3 DEF Range

\* What extends an extension extends what that extends.
LEMMA ExtensionsChain ==
  ASSUME NEW a \in Findings, NEW b \in Findings, NEW d \in Findings, Extends(a, b), Extends(b, d)
  PROVE  Extends(a, d) /\ Range(a.files) \subseteq Range(b.files)
<1>1. Len(a.files) \in Nat /\ Len(b.files) \in Nat /\ Len(d.files) \in Nat
  BY FindingsTyped
<1>2. Extends(a, d)
  BY <1>1 DEF Extends
<1>3. ASSUME NEW i \in 1..Len(a.files) PROVE a.files[i] \in Range(b.files)
  <2>1. i \in 1..Len(b.files) /\ b.files[i] = a.files[i]
    BY <1>1 DEF Extends
  <2>2. Range(b.files) = {b.files[l] : l \in 1..Len(b.files)}
    BY FindingsTyped
  <2> QED BY <2>1, <2>2
<1>4. Range(a.files) = {a.files[i] : i \in 1..Len(a.files)}
  BY FindingsTyped
<1> QED BY <1>2, <1>3, <1>4

\* What was found stays found.
LEMMA ExtensionsKeep == \A a, b \in Findings : Extends(a, b) => Range(a.files) \subseteq Range(b.files)
BY ExtensionsChain, FindingsTyped DEF Extends

\* A reference out of the workspace is no file.
LEMMA OutsideIsNoFile == Outside \notin Files
BY ContextConstants

\* What a call finds when it stops at a limit or at the end.
LEMMA SoundAtTheEnd ==
  ASSUME ContextTypes, NEW c \in Calls, NEW r \in Findings, r.files = c.found.files, c.found.warned \subseteq r.warned,
         Complete(r) => Len(c.refs) < c.next
  PROVE  Sound(c, r)
<1>1. c.found \in Findings /\ c.next \in Nat /\ Len(c.refs) \in Nat /\ Len(r.files) \in Nat
  BY CallsTyped, FindingsTyped
<1>2. Extends(c.found, r)
  BY <1>1 DEF Extends
<1>3. Complete(r) => c.next..Len(c.refs) = {}
  BY <1>1
<1> QED BY <1>2, <1>3 DEF Sound, OnTheWay

\* What a call finds that passes over a candidate.
LEMMA SoundPassing ==
  ASSUME ContextTypes, NEW c \in Calls, c.next <= Len(c.refs),
         NEW fd \in Findings, fd.files = c.found.files, c.found.warned \subseteq fd.warned,
         LET f == c.refs[c.next] IN f = c.owner \/ Skipped(f, c.found),
         NEW r \in Findings, Sound(Onwards(c, fd), r)
  PROVE  Sound(c, r)
<1> DEFINE f == c.refs[c.next]
           b == Onwards(c, fd)
<1>0. /\ c.found \in Findings /\ c.owner \in Files /\ c.next \in Nat \ {0} /\ Len(c.refs) \in Nat
      /\ b.found = fd /\ b.owner = c.owner /\ b.refs = c.refs /\ b.next = c.next + 1 /\ b.depth = c.depth
  <2>1. /\ b.found = fd /\ b.owner = c.owner /\ b.refs = c.refs
        /\ b.next = c.next + 1 /\ b.depth = c.depth
    BY DEF Onwards, Calls
  <2> QED BY <2>1, CallsTyped
<1> HIDE DEF b
<1>1. Extends(c.found, r)
  <2>1. Extends(c.found, fd)
    BY <1>0, FindingsTyped DEF Extends
  <2>2. Extends(fd, r)
    BY <1>0 DEF Sound, b
  <2> QED BY <1>0, <2>1, <2>2, ExtensionsChain
<1>2. Once(c.found.files) => Once(r.files)
  BY <1>0 DEF Sound, b
<1>3. Len(c.found.files) <= MaxIncludeFiles => Len(r.files) <= MaxIncludeFiles
  BY <1>0 DEF Sound, b
<1>4. OnTheWay(c) => Range(r.files) \subseteq Wanted
  BY <1>0 DEF Sound, OnTheWay, b
<1>5. ASSUME Complete(r), NEW j \in c.next..Len(c.refs), Named(c.owner, c.refs[j])
      PROVE  c.refs[j] \in Range(r.files)
  <2>1. CASE j = c.next
    <3>1. f \in Range(c.found.files)
      BY <1>0, <1>5, <2>1, OutsideIsNoFile DEF Named, Skipped
    <3>2. Range(c.found.files) \subseteq Range(r.files)
      BY <1>0, <1>1, ExtensionsChain, ExtensionsKeep
    <3> QED BY <2>1, <3>1, <3>2
  <2>2. CASE j # c.next
    <3>1. j \in (c.next + 1)..Len(c.refs)
      BY <1>0, <2>2
    <3> QED BY <1>0, <1>5, <3>1 DEF Sound, b
  <2> QED BY <2>1, <2>2
<1>6. Complete(r) => \A g \in Range(r.files) \ Range(c.found.files) : Closed(g, r.files)
  BY <1>0 DEF Sound, b
<1> QED BY <1>1, <1>2, <1>3, <1>4, <1>5, <1>6 DEF Sound

\* What a call finds that includes a candidate.
LEMMA SoundIncluding ==
  ASSUME ContextTypes, NEW c \in Calls, c.depth <= MaxIncludeDepth, c.next <= Len(c.refs),
         NEW f \in Files, f = c.refs[c.next], f # c.owner, Len(c.found.files) < MaxIncludeFiles,
         ~Skipped(f, c.found),
         NEW m \in Findings, Sound(Call(f, Text(f), c.depth + 1, With(c.found, f)), m),
         NEW r \in Findings, Sound(Onwards(c, m), r)
  PROVE  Sound(c, r)
<1> DEFINE w == With(c.found, f)
           a == Call(f, Text(f), c.depth + 1, w)
           b == Onwards(c, m)
<1>0. /\ c.found \in Findings /\ c.owner \in Files /\ c.next \in Nat \ {0} /\ c.depth \in Nat \ {0}
      /\ Len(c.refs) \in Nat /\ w \in Findings
      /\ b.found = m /\ b.owner = c.owner /\ b.refs = c.refs /\ b.next = c.next + 1 /\ b.depth = c.depth
      /\ a.found = w /\ a.owner = f /\ a.refs = Candidates(Text(f)) /\ a.next = 1
      /\ a.depth = c.depth + 1
  <2>1. /\ b.found = m /\ b.owner = c.owner /\ b.refs = c.refs
        /\ b.next = c.next + 1 /\ b.depth = c.depth
    BY DEF Onwards, Calls
  <2>2. /\ a.found = w /\ a.owner = f /\ a.refs = Candidates(Text(f)) /\ a.next = 1
        /\ a.depth = c.depth + 1
    BY DEF Call
  <2> QED BY <2>1, <2>2, CallsTyped
<1>1. /\ w.files = Append(c.found.files, f) /\ w.warned = c.found.warned
      /\ c.found.files \in Seq(Files) /\ Len(c.found.files) \in Nat
      /\ Len(w.files) = Len(c.found.files) + 1
      /\ \A i \in 1..Len(c.found.files) : w.files[i] = c.found.files[i]
      /\ w.files[Len(w.files)] = f
  <2>1. w.files = Append(c.found.files, f) /\ w.warned = c.found.warned
    BY <1>0 DEF With, Findings
  <2>2. c.found.files \in Seq(Files) /\ Len(c.found.files) \in Nat
    BY <1>0, FindingsTyped
  <2> QED BY <2>1, <2>2, AppendProperties
<1>2. Range(w.files) = Range(c.found.files) \cup {f}
  <2>1. /\ Range(w.files) = {w.files[i] : i \in 1..Len(w.files)}
        /\ Range(c.found.files) = {c.found.files[i] : i \in 1..Len(c.found.files)}
    BY <1>0, FindingsTyped
  <2> HIDE DEF w
  <2>2. \A i \in 1..Len(w.files) :
          w.files[i] = f \/ (i \in 1..Len(c.found.files) /\ w.files[i] = c.found.files[i])
    BY <1>1
  <2>3. Len(w.files) \in 1..Len(w.files) /\ 1..Len(c.found.files) \subseteq 1..Len(w.files)
    BY <1>1
  <2>4. Range(w.files) \subseteq Range(c.found.files) \cup {f}
    BY <2>1, <2>2
  <2>5. f \in Range(w.files)
    BY <1>1, <2>1, <2>3
  <2>6. Range(c.found.files) \subseteq Range(w.files)
    <3> SUFFICES ASSUME NEW i \in 1..Len(c.found.files) PROVE c.found.files[i] \in Range(w.files)
      BY <2>1
    <3>1. w.files[i] = c.found.files[i] /\ i \in 1..Len(w.files)
      BY <1>1, <2>3
    <3> QED BY <2>1, <3>1
  <2> QED BY <2>4, <2>5, <2>6
<1> HIDE DEF a, b, w
<1>3. Sound(a, m) /\ Sound(b, r)
  BY DEF a, b, w
<1>4. Extends(c.found, w) /\ Extends(w, m) /\ Extends(m, r)
  <2>1. Extends(c.found, w)
    BY <1>1 DEF Extends
  <2>2. Extends(w, m) /\ Extends(m, r)
    BY <1>0, <1>3 DEF Sound
  <2> QED BY <2>1, <2>2
<1>5. Extends(c.found, m) /\ Extends(c.found, r) /\ Extends(w, r)
  BY <1>0, <1>4, ExtensionsChain
<1>6. Range(w.files) \subseteq Range(m.files) /\ Range(m.files) \subseteq Range(r.files)
  BY <1>0, <1>4, ExtensionsChain, ExtensionsKeep
<1>7. Once(c.found.files) => Once(r.files)
  <2>1. SUFFICES ASSUME Once(c.found.files) PROVE Once(w.files)
    BY <1>0, <1>3 DEF Sound
  <2>2. f \notin Range(c.found.files)
    BY DEF Skipped
  <2>3. DOMAIN w.files = 1..Len(w.files) /\ DOMAIN c.found.files = 1..Len(c.found.files)
    BY <1>0, FindingsTyped
  <2>4. ASSUME NEW i \in 1..Len(c.found.files) PROVE w.files[i] # f
    BY <1>1, <2>2, <2>3 DEF Range
  <2> QED BY <1>1, <2>1, <2>3, <2>4 DEF Once
<1>8. Len(c.found.files) <= MaxIncludeFiles => Len(r.files) <= MaxIncludeFiles
  <2>1. Len(w.files) <= MaxIncludeFiles
    BY <1>1, ContextConstants
  <2> QED BY <1>0, <1>3, <2>1 DEF Sound
<1>9. Named(c.owner, f) /\ f \in Range(c.refs)
  <2>1. Len(c.refs) \in Nat /\ DOMAIN c.refs = 1..Len(c.refs)
    BY CallsTyped, LenProperties
  <2> QED BY <1>0, <2>1 DEF Named, Skipped, Range
<1>12. Range(a.refs) = Range(Text(f)) /\ a.refs \in Seq(Files \cup {Outside})
  BY <1>0, TextTyped, CandidatesAre
<1>10. ASSUME OnTheWay(c)
       PROVE  Range(r.files) \subseteq Wanted
  <2>1. f \in Reach[c.depth] /\ f \in Wanted
    <3>1. c.depth - 1 \in Nat /\ (c.depth - 1) + 1 = c.depth
      BY <1>0
    <3>2. f \in Reach[c.depth]
      BY <1>9, <1>10, <3>1, ReachDefined DEF Named, Referred, OnTheWay
    <3>3. Reach[c.depth] \subseteq Reach[MaxIncludeDepth]
      BY <1>0, ReachGrows, ContextConstants
    <3> QED BY <1>9, <3>2, <3>3 DEF Wanted, Named
  <2>2. a.depth - 1 = c.depth
    BY <1>0
  <2>3. Range(m.files) \subseteq Wanted
    BY <1>0, <1>2, <1>3, <1>10, <1>12, <2>1, <2>2 DEF Sound, OnTheWay
  <2> QED BY <1>0, <1>3, <1>10, <2>3 DEF Sound, OnTheWay
<1>11. ASSUME Complete(r)
       PROVE  /\ \A j \in c.next..Len(c.refs) :
                   Named(c.owner, c.refs[j]) => c.refs[j] \in Range(r.files)
              /\ \A g \in Range(r.files) \ Range(c.found.files) : Closed(g, r.files)
  <2>1. Complete(m)
    BY <1>4, <1>11 DEF Complete, Extends
  <2>2. ASSUME NEW j \in c.next..Len(c.refs), Named(c.owner, c.refs[j])
        PROVE  c.refs[j] \in Range(r.files)
    <3>1. CASE j = c.next
      BY <1>2, <1>6, <3>1
    <3>2. CASE j # c.next
      <4>1. j \in (c.next + 1)..Len(c.refs)
        BY <1>0, <3>2
      <4> QED BY <1>0, <1>3, <1>11, <2>2, <4>1 DEF Sound
    <3> QED BY <3>1, <3>2
  <2>3. Closed(f, m.files)
    <3>1. \A j \in 1..Len(a.refs) : Named(f, a.refs[j]) => a.refs[j] \in Range(m.files)
      BY <1>0, <1>3, <2>1 DEF Sound
    <3>2. DOMAIN a.refs = 1..Len(a.refs)
      BY <1>12, LenProperties
    <3>3. ASSUME NEW g \in Files, Refers(f, g) PROVE g \in Range(m.files)
      <4>1. g \in Range(a.refs)
        BY <1>12, <3>3 DEF Refers
      <4>2. PICK j \in DOMAIN a.refs : a.refs[j] = g
        BY <4>1 DEF Range
      <4> QED BY <3>1, <3>2, <3>3, <4>2 DEF Refers
    <3> QED BY <3>3 DEF Closed
  <2>4. ASSUME NEW g \in Range(r.files) \ Range(c.found.files) PROVE Closed(g, r.files)
    <3>1. CASE g \notin Range(m.files)
      BY <1>0, <1>3, <1>11, <3>1 DEF Sound
    <3>2. CASE g \in Range(m.files) /\ g # f
      <4>1. g \in Range(m.files) \ Range(w.files)
        BY <1>2, <3>2
      <4>2. Closed(g, m.files)
        BY <1>0, <1>3, <2>1, <4>1 DEF Sound
      <4> QED BY <1>6, <4>2 DEF Closed
    <3>3. CASE g = f
      BY <1>6, <2>3, <3>3 DEF Closed
    <3> QED BY <3>1, <3>2, <3>3
  <2> QED BY <2>2, <2>4
<1> QED BY <1>5, <1>7, <1>8, <1>10, <1>11 DEF Sound

\* Whatever a call finds it finds as it should.
LEMMA ResolveIsSound ==
  ASSUME ContextTypes
  PROVE  \A c \in Calls : Sound(c, Resolve[c])
<1> DEFINE T == {c \in Calls : ~Sound(c, Resolve[c])}
<1>1. SUFFICES ASSUME T # {} PROVE FALSE
  OBVIOUS
<1>2. PICK c \in T : \A b \in T : <<b, c>> \notin CallOrder
  BY <1>1, CallsAreOrdered DEF WellOrders
<1>3. c \in Calls /\ ~Sound(c, Resolve[c]) /\ \A b \in Calls : Before(b, c) => Sound(b, Resolve[b])
  BY <1>2, CallOrderIsBefore
<1> DEFINE f == c.refs[c.next]
           r == Resolve[c]
<1>4. /\ r = ResolveStep(c, Resolve) /\ r \in Findings /\ c.found \in Findings
      /\ \A b \in Calls : Resolve[b] \in Findings
  BY <1>3, ResolveDefined, CallsTyped
<1> HIDE DEF T
<1>5. CASE c.depth > MaxIncludeDepth
  <2>1. r = Limit(c.found, "depth")
    BY <1>4, <1>5 DEF ResolveStep
  <2>2. r.files = c.found.files /\ c.found.warned \subseteq r.warned /\ ~Complete(r)
    BY <1>4, <2>1 DEF Limit, Complete, Findings
  <2> QED BY <1>3, <1>4, <2>2, SoundAtTheEnd
<1>6. CASE ~(c.depth > MaxIncludeDepth) /\ c.next > Len(c.refs)
  <2>1. r = c.found
    BY <1>4, <1>6 DEF ResolveStep
  <2>2. Len(c.refs) < c.next
    BY <1>6
  <2> HIDE DEF r
  <2> QED BY <1>3, <1>4, <2>1, <2>2, SoundAtTheEnd DEF r
<1>7. CASE ~(c.depth > MaxIncludeDepth) /\ ~(c.next > Len(c.refs))
  <2>0. c.depth <= MaxIncludeDepth /\ c.next <= Len(c.refs)
    BY <1>3, <1>7, InTheLoop
  <2>1. ASSUME NEW fd \in Findings, fd.files = c.found.files, c.found.warned \subseteq fd.warned,
               f = c.owner \/ Skipped(f, c.found), r = Resolve[Onwards(c, fd)]
        PROVE  FALSE
    <3>1. Onwards(c, fd) \in Calls /\ Before(Onwards(c, fd), c)
      BY <1>3, <2>0, CallsTyped, CalledBefore
    <3>2. Sound(Onwards(c, fd), r)
      BY <1>3, <2>1, <3>1
    <3> HIDE DEF r
    <3>3. Sound(c, r)
      BY <1>3, <1>4, <2>0, <2>1, <3>2, SoundPassing
    <3> QED BY <1>3, <3>3 DEF r
  <2>2. CASE f = c.owner
    <3>1. r = Resolve[Onwards(c, c.found)]
      BY <1>4, <1>7, <2>2 DEF ResolveStep
    <3> QED BY <1>4, <2>1, <2>2, <3>1
  <2>3. CASE f # c.owner /\ Len(c.found.files) >= MaxIncludeFiles
    <3>1. r = Limit(c.found, "count")
      BY <1>4, <1>7, <2>3 DEF ResolveStep
    <3>2. r.files = c.found.files /\ c.found.warned \subseteq r.warned /\ ~Complete(r)
      BY <1>4, <3>1 DEF Limit, Complete, Findings
    <3> QED BY <1>3, <1>4, <3>2, SoundAtTheEnd
  <2>4. CASE f # c.owner /\ ~(Len(c.found.files) >= MaxIncludeFiles) /\ Skipped(f, c.found)
    <3> DEFINE fd == Limit(c.found, "skipped")
    <3>1. r = Resolve[Onwards(c, fd)]
      BY <1>4, <1>7, <2>4 DEF ResolveStep
    <3>2. fd.files = c.found.files /\ c.found.warned \subseteq fd.warned /\ fd \in Findings
      BY <1>3, <1>4, CallsTyped DEF Limit, Findings
    <3> QED BY <2>1, <2>4, <3>1, <3>2
  <2>5. CASE f # c.owner /\ ~(Len(c.found.files) >= MaxIncludeFiles) /\ ~Skipped(f, c.found)
    <3> DEFINE a == Call(f, Text(f), c.depth + 1, With(c.found, f))
               m == Resolve[a]
               b == Onwards(c, m)
    <3>1. f \in Files
      BY <1>3, <2>0, <2>5, CandidatesAreFiles
    <3>2. a \in Calls /\ Before(a, c)
      BY <1>3, <2>0, <3>1, CallsTyped, CalledBefore
    <3>3. m \in Findings /\ Sound(a, m)
      BY <1>3, <1>4, <3>2
    <3> HIDE DEF m
    <3>4. b \in Calls /\ Before(b, c)
      BY <1>3, <2>0, <3>3, CallsTyped, CalledBefore
    <3>5. r = Resolve[b]
      BY <1>4, <1>7, <2>5 DEF ResolveStep, With, m
    <3>6. Sound(b, r)
      BY <1>3, <3>4, <3>5
    <3>7. Len(c.found.files) < MaxIncludeFiles
      BY <1>4, <2>5, FindingsTyped, ContextConstants
    <3> HIDE DEF r, f
    <3>8. Sound(c, r)
      BY <1>3, <1>4, <2>0, <2>5, <3>1, <3>3, <3>6, <3>7, SoundIncluding DEF f
    <3> QED BY <1>3, <3>8 DEF r
  <2> QED BY <2>2, <2>3, <2>4, <2>5
<1> QED BY <1>5, <1>6, <1>7

\* The includes are sound from the instructions on.
LEMMA IncludesAreReached == ContextTypes => IncludesAreTheReachableFiles
<1> SUFFICES ASSUME ContextTypes PROVE IncludesAreTheReachableFiles
  OBVIOUS
<1> DEFINE t == Text(Instructions)
           c == Call(Instructions, t, 1, NoIncludes)
           r == Includes(t)
<1>0. /\ Instructions \in Files /\ t \in Seq(Files \cup {Outside})
      /\ Candidates(t) \in Seq(Files \cup {Outside}) /\ Range(Candidates(t)) = Range(t)
  <2>1. Instructions \in Files
    BY DEF Files
  <2> QED BY <2>1, TextTyped, CandidatesAre
<1>1. /\ c \in Calls /\ c.owner = Instructions /\ c.next = 1 /\ c.depth - 1 = 0 /\ c.found = NoIncludes
      /\ c.refs = Candidates(t)
  <2>1. NoIncludes \in Findings
    BY DEF NoIncludes, Findings
  <2> HIDE DEF t
  <2> QED BY <1>0, <2>1 DEF Calls, Call
<1>2. Sound(c, r) /\ r \in Findings /\ Instructions \in Files
  BY <1>0, <1>1, ResolveIsSound, ResolveDefined DEF Includes
<1>3. Len(NoIncludes.files) = 0 /\ Range(NoIncludes.files) = {} /\ Once(NoIncludes.files)
  <2>1. NoIncludes.files = <<>>
    BY DEF NoIncludes
  <2> QED BY <2>1 DEF Range, Once
<1> HIDE DEF r, c
<1>4. Once(r.files) /\ Len(r.files) <= MaxIncludeFiles
  BY <1>1, <1>2, <1>3, ContextConstants DEF Sound
<1>5. Range(r.files) \subseteq Wanted
  <2>1. OnTheWay(c)
    BY <1>0, <1>1, <1>3, ReachDefined DEF OnTheWay
  <2> QED BY <1>2, <2>1 DEF Sound
<1>6. ASSUME Complete(r) PROVE Reach[Cardinality(Files)] \ {Instructions} \subseteq Range(r.files)
  <2>1. Closed(Instructions, r.files)
    <3>1. \A j \in 1..Len(c.refs) : Named(Instructions, c.refs[j]) => c.refs[j] \in Range(r.files)
      BY <1>1, <1>2, <1>6 DEF Sound
    <3>2. DOMAIN c.refs = 1..Len(c.refs)
      BY <1>0, <1>1, LenProperties
    <3>3. ASSUME NEW g \in Files, Refers(Instructions, g) PROVE g \in Range(r.files)
      <4>1. g \in Range(c.refs)
        BY <1>0, <1>1, <3>3 DEF Refers
      <4>2. PICK j \in DOMAIN c.refs : c.refs[j] = g
        BY <4>1 DEF Range
      <4> QED BY <3>1, <3>2, <3>3, <4>2 DEF Refers
    <3> QED BY <3>3 DEF Closed
  <2>2. \A g \in Range(r.files) : Closed(g, r.files)
    BY <1>1, <1>2, <1>3, <1>6 DEF Sound
  <2> DEFINE T == {d \in Nat : Reach[d] \ {Instructions} \subseteq Range(r.files)}
  <2>3. 0 \in T
    BY ReachDefined
  <2>4. ASSUME NEW d \in T PROVE d + 1 \in T
    <3>1. SUFFICES ASSUME NEW f \in Files, text[f] # Gone, f # Instructions,
                          NEW g \in Reach[d], f # g, f \in Range(Text(g))
                   PROVE  f \in Range(r.files)
      BY <2>4, ReachDefined DEF Referred
    <3>2. Closed(g, r.files)
      BY <2>1, <2>2, <2>4
    <3> QED BY <3>1, <3>2 DEF Closed, Refers, Named
  <2>5. T = Nat
    <3> HIDE DEF T
    <3>1. T \in SUBSET Nat
      BY DEF T
    <3> QED BY <2>3, <2>4, <3>1, Induction
  <2>6. Cardinality(Files) \in Nat
    BY ContextConstants, FS_CardinalityType
  <2> QED BY <2>5, <2>6
<1> QED BY <1>4, <1>5, <1>6 DEF IncludesAreTheReachableFiles, Once, Wanted, Complete, r, t

ContextSpec == ContextInit /\ [][ContextNext]_contextVars

\* The includes of a turn are the files the instructions lead to, each once, as
\* many and as deep as allowed.
THEOREM IncludesAreReachable == ContextSpec => []IncludesAreTheReachableFiles
<1>1. ContextInit => ContextTypes
  BY DEF ContextInit, ContextTypes
<1>2. ContextTypes /\ [ContextNext]_contextVars => ContextTypes'
  BY DEF ContextTypes, ContextNext, Edit, Look, Build, CompileForTurn, Compose, Give, Described, Unread,
         contextVars
<1>3. ContextTypes => IncludesAreTheReachableFiles
  BY IncludesAreReached
<1> QED BY <1>1, <1>2, <1>3, PTL DEF ContextSpec

-----------------------------------------------------------------------------
(* The instructions of a prompt *)

\* The block has the words of its hash, the hash is that of the texts last looked at, and
\* what was looked at is still there to build from, unless an edit came between.
CacheInv ==
  /\ \E S : prompts \in Seq(S)
  /\ reading.stage = "stale" /\ ~askew => looked = Entries(reading.top)
  /\ reading.stage # "stale" /\ ~askew => hash \subseteq {Words(block)}
  /\ reading.stage = "fresh" /\ reading.pass # "none" => hash = {Words(looked)}
  /\ DOMAIN reading = {"pass", "stage", "top"} /\ (reading.pass = "none" => reading.stage = "fresh")

\* The entries of the instructions stay the same while no file is edited.
LEMMA EntriesStay == ASSUME text' = text PROVE \A t : Entries(t)' = Entries(t)
<1>1. Resolve' = Resolve
  BY SMT DEF Resolve, Text, Skipped
<1>2. \A f : Text(f)' = Text(f)
  BY DEF Text
<1>3. \A t : Includes(t)' = Includes(t)
  BY <1>1 DEF Includes
<1> QED BY <1>2, <1>3 DEF Entries

\* Every step keeps the cache that way.
LEMMA CacheStep == ASSUME CacheInv, [ContextNext]_contextVars PROVE CacheInv'
<1>1. CASE Look
  <2> DEFINE e == Entries(reading.top)
             same == hash = {StableHash(e)}
  <2>1. /\ reading.stage = "read" /\ looked' = e /\ askew' = (same /\ askew)
        /\ reading' = [reading EXCEPT !.stage = IF same THEN "fresh" ELSE "stale"]
        /\ UNCHANGED <<text, hash, block, prompts>>
    BY <1>1 DEF Look
  <2>2. /\ reading'.stage = (IF same THEN "fresh" ELSE "stale") /\ reading'.top = reading.top
        /\ reading'.pass = reading.pass /\ DOMAIN reading' = DOMAIN reading
    BY <2>1 DEF CacheInv
  <2>3. Entries(reading.top)' = e
    <3>1. PICK t : t = reading.top
      OBVIOUS
    <3>2. Entries(t)' = Entries(t)
      BY <2>1, EntriesStay
    <3>3. reading'.top = t
      BY <2>2, <3>1
    <3> QED BY <3>1, <3>2, <3>3 DEF Entries
  <2> HIDE DEF e
  <2> QED BY <2>1, <2>2, <2>3 DEF CacheInv, StableHash
<1>2. CASE Build
  <2>1. /\ reading.stage = "stale" /\ block' = Entries(reading.top) /\ hash' = {StableHash(looked)}
        /\ reading' = [reading EXCEPT !.stage = "fresh"]
        /\ UNCHANGED <<text, prompts, looked, askew>>
    BY <1>2 DEF Build
  <2>2. reading'.stage = "fresh" /\ DOMAIN reading' = DOMAIN reading
    BY <2>1 DEF CacheInv
  <2> QED BY <2>1, <2>2 DEF CacheInv, StableHash
<1>3. ASSUME NEW f, NEW t, Edit(f, t) PROVE CacheInv'
  <2>1. /\ askew' = (askew \/ reading.stage = "stale")
        /\ UNCHANGED <<hash, block, reading, prompts, looked>>
    BY <1>3 DEF Edit
  <2> QED BY <2>1 DEF CacheInv
<1>4. ASSUME UNCHANGED <<hash, block, looked, askew>>, prompts' = prompts \/ prompts' = Append(prompts, block),
             reading.stage = "fresh",
             reading' = NotReading \/ \E pass \in {"compile", "compose", "preview", "describe"} : Refresh(pass)
      PROVE  CacheInv'
  <2>1. /\ DOMAIN reading' = {"pass", "stage", "top"}
        /\ (reading'.stage = "read" /\ reading'.pass # "none") \/ (reading'.stage = "fresh" /\ reading'.pass = "none")
    BY <1>4 DEF NotReading, Refresh
  <2>2. (\E S : prompts \in Seq(S))'
    <3>1. PICK S : prompts \in Seq(S)
      BY DEF CacheInv
    <3>2. prompts \in Seq(S \cup {block})
      BY <3>1, SeqMonotonic
    <3>3. prompts' \in Seq(S \cup {block})
      BY <1>4, <3>2
    <3> QED BY <3>3
  <2> QED BY <1>4, <2>1, <2>2 DEF CacheInv
<1>5. CASE CompileForTurn \/ Compose \/ Give \/ Described
  BY <1>4, <1>5 DEF CompileForTurn, Compose, Give, Described, Unread, CacheInv
<1>6. CASE UNCHANGED contextVars
  BY <1>6, EntriesStay DEF CacheInv, contextVars
<1> QED BY <1>1, <1>2, <1>3, <1>5, <1>6 DEF ContextNext

\* A turn is given the words its last refresh has read, whatever is edited between the
\* steps, unless an edit fell between the two resolutions the block comes from
\* (effective_context.py, the texts cached behind a hash of them).
THEOREM PromptsAreFresh == ContextSpec => PromptIsFresh
<1>1. ContextInit => CacheInv
  BY EmptySeq DEF ContextInit, CacheInv, NotReading
<1>2. ASSUME CacheInv, Give, ~askew PROVE Words(prompts'[Len(prompts')]) = Words(looked)
  <2>1. PICK S : prompts \in Seq(S)
    BY <1>2 DEF CacheInv
  <2>2. prompts \in Seq(S \cup {block}) /\ prompts' = Append(prompts, block)
    BY <1>2, <2>1, SeqMonotonic DEF Give
  <2>3. prompts'[Len(prompts')] = block
    BY <2>2, AppendProperties, LenProperties
  <2>4. hash = {Words(looked)} /\ hash \subseteq {Words(block)}
    BY <1>2 DEF Give, CacheInv
  <2> QED BY <2>3, <2>4
<1>3. CacheInv /\ [ContextNext]_contextVars
        => [prompts' # prompts /\ ~askew => Words(prompts'[Len(prompts')]) = Words(looked)]_contextVars
  BY <1>2 DEF ContextNext, Edit, Look, Build, CompileForTurn, Compose, Described, contextVars
<1> QED BY <1>1, <1>3, CacheStep, PTL DEF ContextSpec, PromptIsFresh

-----------------------------------------------------------------------------
(* The transcript of a session *)

\* The natural numbers are well ordered, by the larger first too, up to a bound.
LEMMA NumbersUpToAreOrdered ==
  ASSUME NEW n \in Nat
  PROVE  WellOrders({p \in (1..n) \X (1..n) : p[1] > p[2]}, 1..n)
<1> DEFINE R == {p \in (1..n) \X (1..n) : p[1] > p[2]}
<1>1. \A x, y \in 1..n : <<x, y>> \in R <=> x > y
  OBVIOUS
<1> HIDE DEF R
<1>2. ASSUME NEW T \in SUBSET (1..n), T # {} PROVE \E x \in T : \A y \in T : <<y, x>> \notin R
  <2>1. PICK x \in T : \A y \in T : y <= x
    BY <1>2, EndPositions
  <2>2. x \in 1..n /\ \A y \in T : y \in 1..n
    OBVIOUS
  <2> QED BY <1>1, <2>1, <2>2
<1> QED BY <1>1, <1>2 DEF WellOrders

\* The last and the first of some positions.
LEMMA LastPosition ==
  ASSUME NEW n \in Nat, NEW I \in SUBSET (1..n), I # {}
  PROVE  Max(I) \in I /\ \A i \in I : i <= Max(I)
<1>1. \E x \in I : \A y \in I : x >= y
  <2>1. PICK x \in I : \A y \in I : y <= x
    BY EndPositions
  <2> QED BY <2>1
<1>2. Max(I) \in I /\ \A y \in I : Max(I) >= y
  BY <1>1 DEF Max
<1> QED BY <1>2

\* ... the first one.
LEMMA FirstPosition ==
  ASSUME NEW n \in Nat, NEW I \in SUBSET (1..n), I # {}
  PROVE  Min(I) \in I /\ \A i \in I : Min(I) <= i
BY EndPositions DEF Min

\* The position that is the first of some positions is their minimum.
LEMMA IsFirst ==
  ASSUME NEW n \in Nat, NEW I \in SUBSET (1..n), NEW i \in I, \A j \in I : i <= j
  PROVE  Min(I) = i
<1>1. PICK m \in I : m = Min(I) /\ m <= i
  BY FirstPosition
<1> QED BY <1>1

\* What is written.

Filled(lines) == {i \in DOMAIN lines : lines[i] # "blank"}

\* The lines the writer keeps of a text, and what it writes for none.
Kept(body) == IF TrimmedEnd(body) = <<>> THEN <<"blank">> ELSE TrimmedEnd(body)

\* The text without the blank lines at its end.
LEMMA TrimmedEndIs ==
  ASSUME NEW body \in Seq(Lines)
  PROVE  /\ TrimmedEnd(body) \in Seq(Lines)
         /\ Filled(body) = {} => TrimmedEnd(body) = <<>>
         /\ Filled(body) # {} =>
              /\ Max(Filled(body)) \in Filled(body) /\ \A i \in Filled(body) : i <= Max(Filled(body))
              /\ Len(TrimmedEnd(body)) = Max(Filled(body))
              /\ \A i \in 1..Max(Filled(body)) : TrimmedEnd(body)[i] = body[i]
<1>1. /\ Len(body) \in Nat /\ DOMAIN body = 1..Len(body) /\ \A i \in 1..Len(body) : body[i] \in Lines
      /\ Filled(body) \in SUBSET (1..Len(body))
  BY LenProperties, ElementOfSeq DEF Filled
<1>2. CASE Filled(body) = {}
  <2>1. TrimmedEnd(body) = <<>>
    BY <1>2 DEF TrimmedEnd, Filled
  <2> QED BY <1>2, <2>1
<1>3. CASE Filled(body) # {}
  <2>1. Max(Filled(body)) \in Filled(body) /\ \A i \in Filled(body) : i <= Max(Filled(body))
    BY <1>1, <1>3, LastPosition
  <2>2. TrimmedEnd(body) = SubSeq(body, 1, Max(Filled(body)))
    BY <1>3 DEF TrimmedEnd, Filled
  <2>3. PICK m \in 1..Len(body) : m = Max(Filled(body))
    BY <1>1, <2>1
  <2>4. /\ SubSeq(body, 1, m) \in Seq(Lines) /\ Len(SubSeq(body, 1, m)) = m
        /\ \A i \in 1..m : SubSeq(body, 1, m)[i] = body[i]
    BY <1>1, <2>3
  <2> QED BY <1>3, <2>1, <2>2, <2>3, <2>4
<1> QED BY <1>2, <1>3

\* What the Project Agent makes of the lines that are kept is the text without its end,
\* what the web interface makes of them the text without its ends.
LEMMA KeptReadsBack ==
  ASSUME NEW body \in Seq(Lines)
  PROVE  /\ Kept(body) \in Seq(Lines) /\ Len(Kept(body)) \in Nat \ {0}
         /\ \A i \in 1..Len(Kept(body)) : Kept(body)[i] = "blank" \/ \E j \in 1..Len(body) : Kept(body)[i] = body[j]
         /\ Unblanked(Kept(body)) = TrimmedEnd(body)
         /\ Trimmed(Kept(body)) = Trimmed(body)
<1>1. /\ Len(body) \in Nat /\ DOMAIN body = 1..Len(body) /\ \A i \in 1..Len(body) : body[i] \in Lines
      /\ Filled(body) \in SUBSET (1..Len(body))
  BY LenProperties, ElementOfSeq DEF Filled
<1>2. CASE Filled(body) = {}
  <2>1. TrimmedEnd(body) = <<>>
    BY <1>2, TrimmedEndIs
  <2>2. Kept(body) = <<"blank">> /\ "blank" \in Lines
    BY <2>1 DEF Kept, Lines
  <2>3. Trimmed(body) = <<>>
    BY <1>2 DEF Trimmed, Filled
  <2>4. Filled(<<"blank">>) = {}
    BY DEF Filled
  <2>5. Trimmed(<<"blank">>) = <<>>
    BY <2>4 DEF Trimmed, Filled
  <2> QED BY <2>1, <2>2, <2>3, <2>5 DEF Unblanked
<1>3. CASE Filled(body) # {}
  <2>1. PICK m \in Filled(body) : m = Max(Filled(body)) /\ \A i \in Filled(body) : i <= m
    BY <1>3, TrimmedEndIs
  <2>2. m \in 1..Len(body) /\ body[m] # "blank"
    BY <1>1 DEF Filled
  <2> DEFINE k == TrimmedEnd(body)
  <2>3. k \in Seq(Lines) /\ Len(k) = m /\ \A i \in 1..m : k[i] = body[i]
    BY <1>3, <2>1, TrimmedEndIs
  <2>4. k # <<>> /\ DOMAIN k = 1..m
    BY <2>2, <2>3
  <2>5. Kept(body) = k
    BY <2>4 DEF Kept
  <2> HIDE DEF k
  <2>6. k # <<"blank">>
    <3>1. k[m] = body[m]
      BY <2>2, <2>3
    <3>2. ASSUME k = <<"blank">> PROVE FALSE
      <4>1. m = 1 /\ k[1] = "blank"
        BY <2>3, <3>2
      <4> QED BY <2>2, <3>1, <4>1
    <3> QED BY <3>2
  <2>7. Filled(k) = Filled(body)
    <3>1. Filled(k) = {i \in 1..m : body[i] # "blank"}
      BY <2>3, <2>4 DEF Filled
    <3>2. Filled(body) = {i \in 1..Len(body) : body[i] # "blank"}
      BY <1>1 DEF Filled
    <3>3. m \in Nat /\ m <= Len(body)
      BY <1>1, <2>2
    <3>4. ASSUME NEW i \in 1..m PROVE i \in 1..Len(body)
      BY <1>1, <3>3
    <3>5. ASSUME NEW i \in Filled(body) PROVE i \in 1..m
      <4>1. i <= m /\ i \in 1..Len(body)
        BY <2>1, <3>2
      <4> QED BY <3>3, <4>1
    <3> QED BY <3>1, <3>2, <3>4, <3>5
  <2>8. PICK f \in Filled(body) : f = Min(Filled(body)) /\ \A i \in Filled(body) : f <= i
    BY <1>1, <1>3, FirstPosition
  <2>9. f \in 1..m /\ f \in Nat /\ m \in Nat
    BY <1>1, <2>1, <2>2, <2>8
  <2>10. Trimmed(k) = SubSeq(k, f, m) /\ Trimmed(body) = SubSeq(body, f, m)
    BY <1>3, <2>1, <2>7, <2>8 DEF Trimmed, Filled
  <2>11. SubSeq(k, f, m) = SubSeq(body, f, m)
    <3>1. /\ SubSeq(k, f, m) = [i \in 1..(m - f + 1) |-> k[f + i - 1]]
          /\ SubSeq(body, f, m) = [i \in 1..(m - f + 1) |-> body[f + i - 1]]
      BY <2>9
    <3>2. \A i \in 1..(m - f + 1) : k[f + i - 1] = body[f + i - 1]
      BY <2>3, <2>9
    <3> QED BY <3>1, <3>2
  <2>12. \A i \in 1..Len(k) : \E j \in 1..Len(body) : k[i] = body[j]
    BY <1>1, <2>2, <2>3
  <2>13. Unblanked(k) = k
    BY <2>6 DEF Unblanked
  <2>14. Len(k) \in Nat \ {0}
    BY <1>1, <2>2, <2>3
  <2> QED BY <2>3, <2>5, <2>10, <2>11, <2>12, <2>13, <2>14 DEF k
<1> QED BY <1>2, <1>3

\* What is read.

Read == [role : Lines, body : Seq(Lines)]

\* The ends a reader sees of a message are behind its opening, and not further on
\* than where the next line would be.
EndsOf(lines, ends) ==
  \A i \in 1..Len(lines) :
    ends[i] \in SUBSET ((i + 2)..(Len(lines) + 1))

\* One step of the reading, the rest of the messages taken from F.
ReadStep(lines, ends, i, F) ==
  IF i > Len(lines) THEN <<>>
  ELSE IF ~Heads(lines, i) \/ ends[i] = {} THEN F[i + 1]
  ELSE <<[role |-> lines[i], body |-> SubSeq(lines, i + 2, Min(ends[i]) - 1)]>> \o F[Min(ends[i]) + 1]

\* F gives what is read from every line on.
ReadsFrom(F, lines, ends) == \A i \in 1..(Len(lines) + 2) : F[i] = ReadStep(lines, ends, i, F)

\* The recursive function, as the value that TLA+ chooses for its equation.
LEMMA MessagesUnfold ==
  ASSUME NEW lines, NEW ends,
         \E F : F = [i \in 1..(Len(lines) + 2) |-> ReadStep(lines, ends, i, F)]
  PROVE  \E F : /\ F = [i \in 1..(Len(lines) + 2) |-> ReadStep(lines, ends, i, F)]
                /\ Messages(lines, ends) = F[1]
<1> DEFINE the == CHOOSE F : F = [i \in 1..(Len(lines) + 2) |-> ReadStep(lines, ends, i, F)]
<1>1. the = [i \in 1..(Len(lines) + 2) |-> ReadStep(lines, ends, i, the)]
  OBVIOUS
<1>2. Messages(lines, ends) = the[1]
  BY DEF Messages, ReadStep
<1> QED BY <1>1, <1>2

\* Where the reading goes on, and that it gives messages when the rest does.
LEMMA ReadStepTyped ==
  ASSUME NEW lines \in Seq(Lines), NEW ends, EndsOf(lines, ends), NEW i \in 1..(Len(lines) + 2),
         NEW F, \A j \in 1..(Len(lines) + 2) : j > i => F[j] \in Seq(Read)
  PROVE  /\ ReadStep(lines, ends, i, F) \in Seq(Read)
         /\ i <= Len(lines) /\ ends[i] # {} => Min(ends[i]) \in (i + 2)..(Len(lines) + 1)
<1>1. Len(lines) \in Nat /\ i \in Nat /\ \A j \in 1..Len(lines) : lines[j] \in Lines
  BY LenProperties, ElementOfSeq
<1>2. ASSUME i <= Len(lines), ends[i] # {} PROVE Min(ends[i]) \in (i + 2)..(Len(lines) + 1)
  <2>1. PICK e \in (i + 2)..(Len(lines) + 1) : e = Min(ends[i])
    <3>1. PICK n \in Nat : n = Len(lines) + 1
      BY <1>1
    <3>2. ends[i] \in SUBSET ((i + 2)..(Len(lines) + 1))
      BY <1>1, <1>2 DEF EndsOf
    <3>3. ends[i] \in SUBSET (1..n)
      BY <1>1, <3>1, <3>2
    <3>4. Min(ends[i]) \in ends[i]
      BY <1>2, <3>3, FirstPosition
    <3> QED BY <3>2, <3>4
  <2> QED BY <2>1
<1>3. CASE i > Len(lines)
  BY <1>3, EmptySeq DEF ReadStep
<1>4. CASE i <= Len(lines) /\ (~Heads(lines, i) \/ ends[i] = {})
  <2>1. F[i + 1] \in Seq(Read)
    BY <1>1, <1>4
  <2>2. ReadStep(lines, ends, i, F) = F[i + 1]
    BY <1>1, <1>4 DEF ReadStep
  <2> QED BY <2>1, <2>2, <1>2, <1>4
<1>5. CASE i <= Len(lines) /\ Heads(lines, i) /\ ends[i] # {}
  <2>1. PICK e \in (i + 2)..(Len(lines) + 1) : e = Min(ends[i])
    BY <1>2, <1>5
  <2>2. e + 1 \in 1..(Len(lines) + 2) /\ e + 1 > i /\ e \in Nat
    BY <1>1, <2>1
  <2>3. SubSeq(lines, i + 2, e - 1) \in Seq(Lines)
    <3>1. i + 2 \in Int /\ e - 1 \in Int /\ \A j \in (i + 2)..(e - 1) : lines[j] \in Lines
      BY <1>1, <2>1
    <3> QED BY <3>1, SubSeqProperties
  <2>4. [role |-> lines[i], body |-> SubSeq(lines, i + 2, e - 1)] \in Read
    BY <1>1, <1>5, <2>3 DEF Read
  <2>5. <<[role |-> lines[i], body |-> SubSeq(lines, i + 2, e - 1)]>> \in Seq(Read)
    BY <2>4
  <2>6. <<[role |-> lines[i], body |-> SubSeq(lines, i + 2, e - 1)]>> \o F[e + 1] \in Seq(Read)
    BY <2>2, <2>5, ConcatProperties
  <2> QED BY <1>1, <1>2, <1>5, <2>1, <2>6 DEF ReadStep
<1> QED BY <1>1, <1>2, <1>3, <1>4, <1>5

\* What the equation holds of gives messages.
LEMMA ReadTyped ==
  ASSUME NEW lines \in Seq(Lines), NEW ends, EndsOf(lines, ends),
         NEW F, ReadsFrom(F, lines, ends)
  PROVE  \A i \in 1..(Len(lines) + 2) : F[i] \in Seq(Read)
<1>1. PICK n \in Nat : n = Len(lines) + 2
  BY LenProperties
<1> DEFINE T == {i \in 1..n : F[i] \notin Seq(Read)}
<1>2. SUFFICES ASSUME T # {} PROVE FALSE
  BY <1>1
<1>3. PICK i \in T : \A j \in T : j <= i
  <2>1. T \in SUBSET (1..n)
    OBVIOUS
  <2> HIDE DEF T
  <2> QED BY <1>2, <2>1, EndPositions
<1>4. \A j \in 1..n : j > i => F[j] \in Seq(Read)
  BY <1>3
<1>6. F[i] = ReadStep(lines, ends, i, F)
  BY <1>1 DEF ReadsFrom
<1>5. F[i] \in Seq(Read)
  <2>1. i \in 1..(Len(lines) + 2) /\ \A j \in 1..(Len(lines) + 2) : j > i => F[j] \in Seq(Read)
    BY <1>1, <1>4
  <2> HIDE DEF T
  <2> QED BY <1>6, <2>1, ReadStepTyped
<1> QED BY <1>5

\* The equation of the reading holds of a function that the messages are the value of.
LEMMA MessagesDefined ==
  ASSUME NEW lines \in Seq(Lines), NEW ends, EndsOf(lines, ends)
  PROVE  \E F : /\ ReadsFrom(F, lines, ends)
                /\ \A i \in 1..(Len(lines) + 2) : F[i] \in Seq(Read)
                /\ Messages(lines, ends) = F[1]
<1> DEFINE N == Len(lines) + 2
           S == 1..N
           V == Seq(Read)
           R == {p \in S \X S : p[1] > p[2]}
           G == [i \in S |-> [F \in [S -> V] |-> ReadStep(lines, ends, i, F)]]
<1>0. N \in Nat /\ Len(lines) \in Nat /\ N = Len(lines) + 2 /\ S = 1..(Len(lines) + 2) /\ S = 1..N
  BY LenProperties
<1>1. \A x, y \in S : <<x, y>> \in R <=> x > y
  OBVIOUS
<1>2. WellOrders(R, S)
  BY <1>0, NumbersUpToAreOrdered
<1>3. G \in [S -> [[S -> V] -> V]]
  BY ReadStepTyped
<1>4. \A i \in S, F \in [S -> V] : G[i][F] = ReadStep(lines, ends, i, F)
  OBVIOUS
<1>9. V # {}
  BY EmptySeq
<1> HIDE DEF G, R, N, V, S
<1>5. LooksBack(G, R, S, V)
  <2> SUFFICES ASSUME NEW i \in S, NEW F \in [S -> V], NEW H \in [S -> V],
                      \A j \in S : <<j, i>> \in R => F[j] = H[j]
               PROVE  G[i][F] = G[i][H]
    BY DEF LooksBack
  <2>1. \A j \in S : j > i => F[j] = H[j]
    BY <1>1
  <2>2. ReadStep(lines, ends, i, F) = ReadStep(lines, ends, i, H)
    <3>1. CASE i > Len(lines)
      BY <3>1 DEF ReadStep
    <3>2. CASE i <= Len(lines) /\ (~Heads(lines, i) \/ ends[i] = {})
      <4>1. i + 1 \in S /\ i + 1 > i
        BY <1>0, <3>2
      <4> QED BY <1>0, <2>1, <3>2, <4>1 DEF ReadStep
    <3>3. CASE i <= Len(lines) /\ Heads(lines, i) /\ ends[i] # {}
      <4>1. PICK e \in (i + 2)..(Len(lines) + 1) : e = Min(ends[i])
        <5>1. i \in 1..(Len(lines) + 2) /\ \A j \in 1..(Len(lines) + 2) : j > i => F[j] \in Seq(Read)
          BY <1>0 DEF V
        <5> QED BY <1>0, <3>3, <5>1, ReadStepTyped
      <4>2. e + 1 \in S /\ e + 1 > i
        BY <1>0, <4>1
      <4>3. F[e + 1] = H[e + 1]
        BY <2>1, <4>2
      <4> QED BY <1>0, <3>3, <4>1, <4>3 DEF ReadStep
    <3> QED BY <1>0, <3>1, <3>2, <3>3
  <2> QED BY <1>4, <2>2
<1>6. PICK F \in [S -> V] : \A i \in S : F[i] = G[i][F]
  <2>1. Recursive(G, R, S, V)
    BY <1>3, <1>5, <1>9 DEF Recursive
  <2> QED BY <1>2, <2>1, RecursionExists DEF Solvable
<1>7. \E H : H = [i \in 1..(Len(lines) + 2) |-> ReadStep(lines, ends, i, H)]
  <2>1. \A i \in S : F[i] = ReadStep(lines, ends, i, F)
    BY <1>4, <1>6
  <2>2. F = [i \in S |-> ReadStep(lines, ends, i, F)]
    BY <1>6, <2>1
  <2> QED BY <1>0, <2>2
<1>8. PICK H : /\ H = [i \in 1..(Len(lines) + 2) |-> ReadStep(lines, ends, i, H)]
               /\ Messages(lines, ends) = H[1]
  BY <1>7, MessagesUnfold
<1>10. ReadsFrom(H, lines, ends)
  BY <1>8 DEF ReadsFrom
<1> QED BY <1>8, <1>10, ReadTyped

\* A message that stands behind line m, and the lines it takes.
BlockAt(lines, m, role, body) ==
  /\ role \in {"user", "assistant"}
  /\ m + Len(body) + 4 <= Len(lines)
  /\ lines[m + 1] = role /\ lines[m + 2] = "open"
  /\ \A i \in 1..Len(body) : lines[m + 2 + i] = body[i]
  /\ lines[m + 3 + Len(body)] = "close" /\ lines[m + 4 + Len(body)] = "blank"

\* The end that a reader sees of it is its own.
EndSeen(ends, m, body) == ends[m + 1] # {} /\ Min(ends[m + 1]) = m + 3 + Len(body)

\* What is read from its heading on: the message, and what is read behind it.
ReadThere(F, m, role, body) == F[m + 1] = <<[role |-> role, body |-> body]>> \o F[m + Len(body) + 5]

\* A reader that sees its end sees the message that stands there, and reads on behind it.
LEMMA BlockIsRead ==
  ASSUME NEW lines \in Seq(Lines), NEW ends, EndsOf(lines, ends),
         NEW F, ReadsFrom(F, lines, ends),
         NEW m \in Nat, NEW role, NEW body \in Seq(Lines), BlockAt(lines, m, role, body),
         EndSeen(ends, m, body)
  PROVE  ReadThere(F, m, role, body)
<1>1. Len(lines) \in Nat /\ Len(body) \in Nat /\ DOMAIN body = 1..Len(body)
      /\ \A i \in 1..Len(lines) : lines[i] \in Lines
  BY LenProperties, ElementOfSeq
<1>2. PICK L \in Nat : L = Len(body)
  BY <1>1
<1>3. /\ m + 1 \in 1..(Len(lines) + 2) /\ m + 1 <= Len(lines) /\ m + 1 < Len(lines)
      /\ m + L + 4 \in 1..(Len(lines) + 2) /\ m + L + 4 <= Len(lines)
      /\ m + 1 + 1 = m + 2 /\ m + L + 4 + 1 = m + L + 5
  BY <1>1, <1>2 DEF BlockAt
<1>4. Heads(lines, m + 1)
  BY <1>3 DEF Heads, BlockAt
<1>5. F[m + 1] = <<[role |-> lines[m + 1], body |-> SubSeq(lines, m + 3, m + L + 2)]>> \o F[m + L + 4]
  <2>1. m + 1 + 2 = m + 3 /\ m + 3 + L - 1 = m + L + 2 /\ m + 3 + L + 1 = m + L + 4
    BY <1>2
  <2>2. PICK p \in Nat : p = m + 1
    OBVIOUS
  <2>3. F[p] = ReadStep(lines, ends, p, F)
    BY <1>3, <2>2 DEF ReadsFrom
  <2>4. ~(p > Len(lines)) /\ Heads(lines, p) /\ ends[p] # {} /\ Min(ends[p]) = m + 3 + L
    BY <1>1, <1>2, <1>3, <1>4, <2>2 DEF EndSeen
  <2>5. /\ p + 2 = m + 3 /\ m + 3 + L - 1 = m + L + 2 /\ m + 3 + L + 1 = m + L + 4
    BY <2>1, <2>2
  <2>6. ReadStep(lines, ends, p, F)
          = <<[role |-> lines[p], body |-> SubSeq(lines, p + 2, Min(ends[p]) - 1)]>> \o F[Min(ends[p]) + 1]
    BY <2>4, Zenon DEF ReadStep
  <2>7. Min(ends[p]) - 1 = m + L + 2 /\ Min(ends[p]) + 1 = m + L + 4
    BY <2>4, <2>5
  <2> QED BY <2>2, <2>3, <2>5, <2>6, <2>7, Zenon
<1>6. SubSeq(lines, m + 3, m + L + 2) = body
  <2>1. /\ m + 3 \in Int /\ m + L + 2 \in Int
        /\ \A i \in (m + 3)..(m + L + 2) : lines[i] \in Lines
    BY <1>1, <1>3
  <2>2. /\ SubSeq(lines, m + 3, m + L + 2) \in Seq(Lines)
        /\ Len(SubSeq(lines, m + 3, m + L + 2)) =
             IF m + 3 <= m + L + 2 THEN m + L + 2 - (m + 3) + 1 ELSE 0
        /\ \A i \in 1..(m + L + 2 - (m + 3) + 1) :
             SubSeq(lines, m + 3, m + L + 2)[i] = lines[m + 3 + i - 1]
    BY <2>1, SubSeqProperties
  <2>3. Len(SubSeq(lines, m + 3, m + L + 2)) = L /\ m + L + 2 - (m + 3) + 1 = L
    BY <2>2
  <2>4. ASSUME NEW i \in 1..L PROVE SubSeq(lines, m + 3, m + L + 2)[i] = body[i]
    <3>1. m + 3 + i - 1 = m + 2 + i
      OBVIOUS
    <3>2. lines[m + 2 + i] = body[i]
      BY <1>2 DEF BlockAt
    <3> QED BY <2>2, <2>3, <3>1, <3>2
  <2> QED BY <1>2, <2>2, <2>3, <2>4, SeqEqual
<1>7. F[m + L + 4] = F[m + L + 5]
  <2>1. PICK q \in 1..(Len(lines) + 2) : q = m + L + 4 /\ q = m + 4 + L /\ q <= Len(lines) /\ q + 1 = m + L + 5
    BY <1>3
  <2>2. lines[q] = "blank"
    BY <1>2, <2>1 DEF BlockAt
  <2>3. ~Heads(lines, q)
    BY <2>2 DEF Heads
  <2>4. F[q] = ReadStep(lines, ends, q, F)
    BY <2>1 DEF ReadsFrom
  <2>5. ReadStep(lines, ends, q, F) = F[q + 1]
    BY <1>1, <2>1, <2>3 DEF ReadStep
  <2> QED BY <2>1, <2>4, <2>5
<1>8. lines[m + 1] = role
  BY DEF BlockAt
<1> QED BY <1>2, <1>5, <1>6, <1>7, <1>8 DEF ReadThere

\* The messages that were said, one behind the other, behind the heading of the file.
Laid(lines, marks, msgs, n) ==
  /\ marks[0] = 2 /\ \A j \in 0..n : marks[j] \in Nat
  /\ Len(lines) >= 2 /\ lines[1] = "text" /\ lines[2] = "blank"
  /\ \A j \in 1..n :
       /\ BlockAt(lines, marks[j - 1], msgs[j].role, Kept(msgs[j].body))
       /\ marks[j] = marks[j - 1] + Len(Kept(msgs[j].body)) + 4

\* What a reader takes from the lines of a message.
Raw(message) == [role |-> message.role, body |-> Kept(message.body)]

\* The reader finds each of them, and nothing else when nothing follows.
LEMMA LaidIsRead ==
  ASSUME NEW lines \in Seq(Lines), NEW ends, EndsOf(lines, ends),
         NEW n \in Nat, NEW marks, NEW msgs, Laid(lines, marks, msgs, n),
         \A j \in 1..n : /\ msgs[j].body \in Seq(Lines)
                         /\ EndSeen(ends, marks[j - 1], Kept(msgs[j].body))
  PROVE  /\ Messages(lines, ends) \in Seq(Read)
         /\ Len(Messages(lines, ends)) >= n
         /\ \A i \in 1..n : Messages(lines, ends)[i] = Raw(msgs[i])
         /\ marks[n] = Len(lines) => Len(Messages(lines, ends)) = n
<1>1. PICK F : /\ ReadsFrom(F, lines, ends)
               /\ \A i \in 1..(Len(lines) + 2) : F[i] \in Seq(Read)
               /\ Messages(lines, ends) = F[1]
  BY MessagesDefined
<1>2. Len(lines) \in Nat /\ Len(lines) >= 2 /\ marks[0] = 2 /\ \A j \in 0..n : marks[j] \in Nat
  BY LenProperties DEF Laid
<1>3. \A j \in 1..n : Kept(msgs[j].body) \in Seq(Lines) /\ Len(Kept(msgs[j].body)) \in Nat
  BY KeptReadsBack
<1>4. \A j \in 0..n : marks[j] <= Len(lines)
  <2>1. \A j \in 1..n : marks[j] <= Len(lines)
    BY <1>2, <1>3 DEF Laid, BlockAt
  <2> QED BY <1>2, <2>1
<1>5. F[1] = F[3]
  <2>1. ~Heads(lines, 1) /\ ~Heads(lines, 2)
    BY DEF Heads, Laid
  <2>2. F[1] = F[1 + 1] /\ F[2] = F[2 + 1]
    <3>1. \A i \in {1, 2} : /\ i \in 1..(Len(lines) + 2) /\ ~(i > Len(lines))
                            /\ F[i] = ReadStep(lines, ends, i, F)
      BY <1>1, <1>2 DEF ReadsFrom
    <3> QED BY <2>1, <3>1 DEF ReadStep
  <2> QED BY <2>2
<1> DEFINE Rest(j) == F[marks[j] + 1]
           Good(j) == /\ Rest(j) \in Seq(Read) /\ Len(Rest(j)) >= n - j
                      /\ \A k \in 1..(n - j) : Rest(j)[k] = Raw(msgs[j + k])
                      /\ marks[n] = Len(lines) => Len(Rest(j)) = n - j
           T == {d \in Nat : d <= n => Good(n - d)}
<1>6. Good(n)
  <2>1. Rest(n) \in Seq(Read)
    BY <1>1, <1>2, <1>4
  <2>2. ASSUME marks[n] = Len(lines) PROVE Rest(n) = <<>>
    <3>1. Len(lines) + 1 > Len(lines) /\ Len(lines) + 1 \in 1..(Len(lines) + 2)
      BY <1>2
    <3> QED BY <1>1, <2>2, <3>1 DEF ReadStep, ReadsFrom
  <2>3. Len(Rest(n)) \in Nat
    BY <2>1, LenProperties
  <2> HIDE DEF Rest
  <2>4. \A k \in 1..(n - n) : Rest(n)[k] = Raw(msgs[n + k])
    OBVIOUS
  <2>5. n - n = 0
    OBVIOUS
  <2> QED BY <2>1, <2>2, <2>3, <2>4, <2>5
<1>7. ASSUME NEW j \in 1..n, Good(j) PROVE Good(j - 1)
  <2> DEFINE raw == Raw(msgs[j])
             B == Kept(msgs[j].body)
  <2>1. marks[j - 1] \in Nat /\ marks[j] = marks[j - 1] + Len(B) + 4 /\ Len(B) \in Nat /\ B \in Seq(Lines)
    <3>1. j - 1 \in 0..n
      OBVIOUS
    <3> QED BY <1>2, <1>3, <3>1 DEF Laid
  <2>2. Rest(j - 1) = <<raw>> \o Rest(j)
    <3>1. BlockAt(lines, marks[j - 1], msgs[j].role, B)
      BY DEF Laid
    <3>2. EndSeen(ends, marks[j - 1], B)
      OBVIOUS
    <3> HIDE DEF B
    <3>3. ReadThere(F, marks[j - 1], msgs[j].role, B)
      BY <1>1, <2>1, <3>1, <3>2, BlockIsRead
    <3>4. marks[j - 1] + Len(B) + 5 = marks[j] + 1
      BY <2>1
    <3>5. F[marks[j - 1] + 1] = <<[role |-> msgs[j].role, body |-> B]>> \o F[marks[j] + 1]
      BY <3>3, <3>4 DEF ReadThere
    <3> QED BY <3>5 DEF Raw, B
  <2>3. raw \in Read
    <3>1. marks[j - 1] + 1 \in 1..Len(lines) /\ lines[marks[j - 1] + 1] = msgs[j].role
      <4>1. BlockAt(lines, marks[j - 1], msgs[j].role, B)
        BY DEF Laid
      <4>2. PICK m \in Nat, L \in Nat : m = marks[j - 1] /\ L = Len(B)
        BY <2>1
      <4>3. m + L + 4 <= Len(lines) /\ lines[m + 1] = msgs[j].role
        BY <4>1, <4>2, Zenon DEF BlockAt
      <4> HIDE DEF B
      <4>4. m + 1 \in 1..Len(lines)
        BY <1>2, <4>3
      <4> QED BY <4>2, <4>3, <4>4
    <3>2. msgs[j].role \in Lines
      BY <3>1, ElementOfSeq
    <3> QED BY <2>1, <3>2 DEF Raw, Read
  <2> HIDE DEF raw, B, Rest
  <2>4. Rest(j) \in Seq(Read) /\ Len(Rest(j)) \in Nat /\ Len(Rest(j)) >= n - j
    BY <1>7, LenProperties
  <2>5. /\ Rest(j - 1) \in Seq(Read) /\ Len(Rest(j - 1)) = 1 + Len(Rest(j))
        /\ Rest(j - 1)[1] = raw
        /\ \A k \in 1..Len(Rest(j)) : Rest(j - 1)[k + 1] = Rest(j)[k]
    <3>1. <<raw>> \in Seq(Read) /\ Len(<<raw>>) = 1 /\ <<raw>>[1] = raw
      BY <2>3
    <3>2. /\ <<raw>> \o Rest(j) \in Seq(Read)
          /\ Len(<<raw>> \o Rest(j)) = 1 + Len(Rest(j))
          /\ \A k \in 1..(1 + Len(Rest(j))) :
               (<<raw>> \o Rest(j))[k] = IF k <= 1 THEN raw ELSE Rest(j)[k - 1]
      BY <2>4, <3>1, ConcatProperties
    <3>3. \A k \in 1..Len(Rest(j)) : k + 1 \in 1..(1 + Len(Rest(j))) /\ ~(k + 1 <= 1) /\ k + 1 - 1 = k
      BY <2>4
    <3>4. 1 \in 1..(1 + Len(Rest(j))) /\ 1 <= 1
      BY <2>4
    <3>5. Rest(j - 1)[1] = raw
      BY <2>2, <3>2, <3>4
    <3>6. ASSUME NEW k \in 1..Len(Rest(j)) PROVE Rest(j - 1)[k + 1] = Rest(j)[k]
      BY <2>2, <3>2, <3>3
    <3> QED BY <2>2, <3>2, <3>5, <3>6
  <2>6. ASSUME NEW k \in 1..(n - (j - 1)) PROVE Rest(j - 1)[k] = Raw(msgs[j - 1 + k])
    <3>1. CASE k = 1
      BY <2>5, <3>1, j - 1 + 1 = j DEF raw
    <3>2. CASE k # 1
      <4>1. k - 1 \in 1..(n - j) /\ k - 1 \in 1..Len(Rest(j)) /\ k - 1 + 1 = k /\ j + (k - 1) = j - 1 + k
        BY <2>4, <3>2
      <4>2. Rest(j - 1)[k - 1 + 1] = Rest(j)[k - 1]
        BY <2>5, <4>1
      <4>3. Rest(j)[k - 1] = Raw(msgs[j + (k - 1)])
        BY <1>7, <4>1
      <4> QED BY <4>1, <4>2, <4>3
    <3> QED BY <3>1, <3>2
  <2>7. Len(Rest(j - 1)) >= n - (j - 1)
    BY <2>4, <2>5
  <2>8. marks[n] = Len(lines) => Len(Rest(j - 1)) = n - (j - 1)
    <3>1. marks[n] = Len(lines) => Len(Rest(j)) = n - j
      BY <1>7
    <3>2. 1 + (n - j) = n - (j - 1)
      OBVIOUS
    <3> QED BY <2>5, <3>1, <3>2
  <2> QED BY <2>5, <2>6, <2>7, <2>8
<1>8. T = Nat
  <2> HIDE DEF Good
  <2>1. 0 \in T
    BY <1>6, n - 0 = n
  <2>2. ASSUME NEW d \in T PROVE d + 1 \in T
    <3>1. CASE d + 1 <= n
      <4>1. n - d \in 1..n /\ n - d - 1 = n - (d + 1) /\ Good(n - d)
        BY <3>1
      <4>2. Good(n - d - 1)
        BY <1>7, <4>1
      <4> QED BY <4>1, <4>2
    <3>2. CASE ~(d + 1 <= n)
      BY <3>2
    <3> QED BY <3>1, <3>2
  <2>3. T \in SUBSET Nat
    OBVIOUS
  <2> HIDE DEF T
  <2> QED BY <2>1, <2>2, <2>3, Induction
<1>9. Good(0)
  <2> HIDE DEF Good
  <2>1. n \in T
    BY <1>8
  <2> QED BY <2>1, n - n = 0
<1>10. Rest(0) = Messages(lines, ends)
  BY <1>1, <1>2, <1>5
<1> QED
  <2>1. \A k \in 1..n : 0 + k = k /\ k \in 1..(n - 0)
    OBVIOUS
  <2> HIDE DEF Rest
  <2> QED BY <1>9, <1>10, <2>1, n - 0 = n

\* The ends that the two readers look for.
PAEnds(lines) == [i \in DOMAIN lines |-> TildesAfter(lines, i)]
WebEnds(lines) ==
  [i \in DOMAIN lines |-> {e \in (i + 2)..Len(lines) : lines[e] = "close"} \cup
                          (IF i + 2 <= Len(lines) THEN {Len(lines) + 1} ELSE {})]

\* Both look behind the opening only.
LEMMA EndsAreBehind ==
  ASSUME NEW lines \in Seq(Lines)
  PROVE  EndsOf(lines, PAEnds(lines)) /\ EndsOf(lines, WebEnds(lines))
<1>1. Len(lines) \in Nat /\ DOMAIN lines = 1..Len(lines)
  BY LenProperties
<1>2. EndsOf(lines, PAEnds(lines))
  BY <1>1 DEF EndsOf, PAEnds, TildesAfter
<1>3. EndsOf(lines, WebEnds(lines))
  BY <1>1 DEF EndsOf, WebEnds
<1> QED BY <1>2, <1>3

\* Both see the end of a message without lines of tildes.
LEMMA EndsAreSeen ==
  ASSUME NEW lines \in Seq(Lines), NEW m \in Nat, NEW role, NEW body \in Seq(Lines),
         BlockAt(lines, m, role, body), Len(body) # 0,
         \A i \in 1..Len(body) : body[i] \notin Tildes
  PROVE  EndSeen(PAEnds(lines), m, body) /\ EndSeen(WebEnds(lines), m, body)
<1>1. Len(lines) \in Nat /\ Len(body) \in Nat /\ DOMAIN lines = 1..Len(lines)
  BY LenProperties
<1>0. PICK L \in Nat \ {0} : L = Len(body)
  BY <1>1
<1>2. PICK e \in Nat, p \in Nat, n \in Nat :
        L = Len(body) /\ e = m + 3 + L /\ p = m + 1 /\ n = Len(lines) + 1
  <2>1. m + 3 + L \in Nat /\ m + 1 \in Nat /\ Len(lines) + 1 \in Nat
    BY <1>1
  <2> QED BY <1>0, <2>1
<1>3. /\ p \in 1..Len(lines) /\ e \in (p + 3)..Len(lines) /\ e \in (p + 2)..Len(lines)
      /\ p + 2 <= Len(lines) /\ e <= n
  BY <1>1, <1>2 DEF BlockAt
<1>4. lines[e] = "close" /\ lines[e] \in Tildes
  BY <1>2 DEF BlockAt, Tildes
<1>5. ASSUME NEW f \in Nat, f >= p + 2, f < e PROVE lines[f] \notin Tildes
  <2>1. PICK i \in 1..L : f = m + 2 + i
    <3>1. f - (m + 2) \in 1..L /\ f = m + 2 + (f - (m + 2))
      BY <1>2, <1>5
    <3> QED BY <3>1
  <2>2. lines[m + 2 + i] = body[i]
    BY <1>2 DEF BlockAt
  <2>3. body[i] \notin Tildes
    BY <1>2
  <2> QED BY <2>1, <2>2, <2>3
<1>6. PAEnds(lines)[p] # {} /\ Min(PAEnds(lines)[p]) = e
  <2> DEFINE E == TildesAfter(lines, p)
  <2>1. PAEnds(lines)[p] = E
    BY <1>1, <1>3 DEF PAEnds
  <2>2. E \in SUBSET (1..n) /\ e \in E
    BY <1>1, <1>2, <1>3, <1>4 DEF TildesAfter
  <2>3. \A f \in E : e <= f
    <3>1. SUFFICES ASSUME NEW f \in E, f < e PROVE FALSE
      BY <1>1, <2>2
    <3>2. f \in (p + 3)..Len(lines) /\ lines[f] \in Tildes
      BY DEF TildesAfter
    <3>3. f \in Nat /\ f >= p + 2
      BY <1>1, <3>2
    <3> QED BY <1>5, <3>1, <3>2, <3>3
  <2> HIDE DEF E
  <2> QED BY <2>1, <2>2, <2>3, IsFirst
<1>7. WebEnds(lines)[p] # {} /\ Min(WebEnds(lines)[p]) = e
  <2> DEFINE E == {f \in (p + 2)..Len(lines) : lines[f] = "close"} \cup {n}
  <2>1. WebEnds(lines)[p] = E
    BY <1>1, <1>2, <1>3 DEF WebEnds
  <2>2. E \in SUBSET (1..n) /\ e \in E
    BY <1>1, <1>2, <1>3, <1>4
  <2>3. \A f \in E : e <= f
    <3>1. SUFFICES ASSUME NEW f \in E, f < e PROVE FALSE
      BY <1>1, <2>2
    <3>2. f # n
      BY <1>1, <1>2, <1>3, <3>1
    <3>3. f \in (p + 2)..Len(lines) /\ lines[f] = "close"
      BY <3>2
    <3>4. f \in Nat /\ f >= p + 2
      BY <1>1, <3>3
    <3> QED BY <1>5, <3>1, <3>3, <3>4 DEF Tildes
  <2> HIDE DEF E
  <2> QED BY <2>1, <2>2, <2>3, IsFirst
<1> QED BY <1>2, <1>6, <1>7 DEF EndSeen

\* How the file grows.

Message == [role : {"user", "assistant"}, body : Bodies, whole : BOOLEAN]

\* The first j messages are whole and without lines of tildes.
PlainUpTo(j) == \A i \in 1..j : Plain(said[i])

\* The first messages stand where marks says, as long as they are plain, and the
\* last of them ends the file; a line that has no end is behind them.
Marked(marks) ==
  /\ marks \in [0..Len(said) -> Nat] /\ marks[0] = 2
  /\ \A j \in 1..Len(said) : PlainUpTo(j) =>
       /\ BlockAt(logLines, marks[j - 1], said[j].role, Kept(said[j].body))
       /\ marks[j] = marks[j - 1] + Len(Kept(said[j].body)) + 4
       /\ cutShort => marks[j] < Len(logLines)
  /\ PlainUpTo(Len(said)) => marks[Len(said)] = Len(logLines)

TranscriptInv ==
  /\ logLines \in Seq(Lines) /\ said \in Seq(Message) /\ cutShort \in BOOLEAN
  /\ said = <<>> => logLines = <<>> /\ ~cutShort
  /\ said # <<>> =>
       /\ Len(logLines) >= 2 /\ logLines[1] = "text" /\ logLines[2] = "blank"
       /\ \E marks : Marked(marks)
  /\ cutShort => Len(logLines) > 2 /\ ~said[Len(said)].whole

\* What is written of a message is the block that is read of it.
LEMMA FormattedIs ==
  ASSUME NEW role \in {"user", "assistant"}, NEW body \in Seq(Lines)
  PROVE  /\ Formatted(role, body) \in Seq(Lines)
         /\ Len(Formatted(role, body)) = Len(Kept(body)) + 4
         /\ BlockAt(Formatted(role, body), 0, role, Kept(body))
<1> DEFINE B == Kept(body)
           F == Formatted(role, body)
<1>1. B \in Seq(Lines) /\ Len(B) \in Nat
  BY KeptReadsBack
<1>2. F = <<role, "open">> \o B \o <<"close", "blank">>
  BY DEF Formatted, Kept
<1> HIDE DEF F, B
<1>3. <<role, "open">> \in Seq(Lines) /\ <<"close", "blank">> \in Seq(Lines)
  BY DEF Lines, Tildes
<1>4. /\ <<role, "open">> \o B \in Seq(Lines) /\ Len(<<role, "open">> \o B) = 2 + Len(B)
      /\ \A i \in 1..(2 + Len(B)) : (<<role, "open">> \o B)[i] = IF i <= 2 THEN <<role, "open">>[i] ELSE B[i - 2]
  BY <1>1, <1>3, ConcatProperties
<1>5. /\ F \in Seq(Lines) /\ Len(F) = Len(B) + 4
      /\ \A i \in 1..(2 + Len(B) + 2) :
           F[i] = IF i <= 2 + Len(B) THEN (<<role, "open">> \o B)[i] ELSE <<"close", "blank">>[i - (2 + Len(B))]
  BY <1>1, <1>2, <1>3, <1>4, ConcatProperties
<1>6. F[1] = role /\ F[2] = "open"
  <2>1. /\ 1 \in 1..(2 + Len(B) + 2) /\ 2 \in 1..(2 + Len(B) + 2) /\ 1 <= 2 + Len(B) /\ 2 <= 2 + Len(B)
        /\ 1 \in 1..(2 + Len(B)) /\ 2 \in 1..(2 + Len(B))
    BY <1>1
  <2>2. <<role, "open">>[1] = role /\ <<role, "open">>[2] = "open"
    OBVIOUS
  <2> QED BY <1>4, <1>5, <2>1, <2>2
<1>7. ASSUME NEW i \in 1..Len(B) PROVE F[2 + i] = B[i]
  <2>1. 2 + i \in 1..(2 + Len(B) + 2) /\ 2 + i \in 1..(2 + Len(B)) /\ ~(2 + i <= 2) /\ 2 + i - 2 = i
    BY <1>1
  <2> QED BY <1>4, <1>5, <2>1
<1>8. F[3 + Len(B)] = "close" /\ F[4 + Len(B)] = "blank"
  <2>1. /\ 3 + Len(B) \in 1..(2 + Len(B) + 2) /\ ~(3 + Len(B) <= 2 + Len(B)) /\ 3 + Len(B) - (2 + Len(B)) = 1
        /\ 4 + Len(B) \in 1..(2 + Len(B) + 2) /\ ~(4 + Len(B) <= 2 + Len(B)) /\ 4 + Len(B) - (2 + Len(B)) = 2
    BY <1>1
  <2> QED BY <1>5, <2>1
<1>9. BlockAt(F, 0, role, B)
  <2>1. 0 + Len(B) + 4 <= Len(F) /\ 0 + 1 = 1 /\ 0 + 2 = 2 /\ 0 + 3 + Len(B) = 3 + Len(B) /\ 0 + 4 + Len(B) = 4 + Len(B)
    BY <1>1, <1>5
  <2>2. \A i \in 1..Len(B) : F[0 + 2 + i] = B[i]
    BY <1>7
  <2> QED BY <1>6, <1>8, <2>1, <2>2 DEF BlockAt
<1> QED BY <1>5, <1>9 DEF F, B

\* Where the lines of a message stand in a file behind m lines.
LEMMA BlockMoves ==
  ASSUME NEW old, NEW new, NEW k \in Nat, NEW m \in Nat, NEW role, NEW body \in Seq(Lines),
         BlockAt(old, k, role, body), Len(new) \in Nat, m + Len(body) + 4 <= Len(new),
         \A i \in 1..(Len(body) + 4) : new[m + i] = old[k + i]
  PROVE  BlockAt(new, m, role, body)
<1>1. PICK L \in Nat : L = Len(body)
  BY LenProperties
<1>2. /\ 1 \in 1..(L + 4) /\ 2 \in 1..(L + 4) /\ 3 + L \in 1..(L + 4) /\ 4 + L \in 1..(L + 4)
      /\ m + (3 + L) = m + 3 + L /\ m + (4 + L) = m + 4 + L
      /\ k + (3 + L) = k + 3 + L /\ k + (4 + L) = k + 4 + L
  BY <1>1
<1>3. /\ new[m + 1] = old[k + 1] /\ new[m + 2] = old[k + 2]
      /\ new[m + 3 + L] = old[k + 3 + L] /\ new[m + 4 + L] = old[k + 4 + L]
  BY <1>1, <1>2
<1>4. ASSUME NEW i \in 1..L PROVE new[m + 2 + i] = body[i]
  <2>1. 2 + i \in 1..(L + 4) /\ m + (2 + i) = m + 2 + i /\ k + (2 + i) = k + 2 + i
    BY <1>1
  <2>2. new[m + (2 + i)] = old[k + (2 + i)]
    BY <1>1, <2>1
  <2>3. old[k + 2 + i] = body[i]
    BY <1>1 DEF BlockAt
  <2> QED BY <2>1, <2>2, <2>3
<1> QED BY <1>1, <1>3, <1>4 DEF BlockAt

\* A message that is written behind the file stands there.
LEMMA BlockIsWritten ==
  ASSUME NEW lines \in Seq(Lines), NEW role \in {"user", "assistant"}, NEW body \in Seq(Lines)
  PROVE  /\ lines \o Formatted(role, body) \in Seq(Lines)
         /\ Len(lines \o Formatted(role, body)) = Len(lines) + Len(Kept(body)) + 4
         /\ \A i \in 1..Len(lines) : (lines \o Formatted(role, body))[i] = lines[i]
         /\ BlockAt(lines \o Formatted(role, body), Len(lines), role, Kept(body))
<1> DEFINE F == Formatted(role, body)
           new == lines \o F
           B == Kept(body)
<1>1. B \in Seq(Lines) /\ Len(B) \in Nat /\ Len(lines) \in Nat
  BY KeptReadsBack, LenProperties
<1>2. F \in Seq(Lines) /\ Len(F) = Len(B) + 4 /\ BlockAt(F, 0, role, B)
  BY FormattedIs
<1> HIDE DEF F, B
<1>3. /\ new \in Seq(Lines) /\ Len(new) = Len(lines) + Len(F)
      /\ \A i \in 1..(Len(lines) + Len(F)) : new[i] = IF i <= Len(lines) THEN lines[i] ELSE F[i - Len(lines)]
  BY <1>2, ConcatProperties
<1>4. \A i \in 1..Len(lines) : new[i] = lines[i]
  BY <1>1, <1>2, <1>3
<1>5. ASSUME NEW i \in 1..(Len(B) + 4) PROVE new[Len(lines) + i] = F[0 + i]
  <2>1. /\ Len(lines) + i \in 1..(Len(lines) + Len(F)) /\ ~(Len(lines) + i <= Len(lines))
        /\ Len(lines) + i - Len(lines) = i /\ 0 + i = i
    BY <1>1, <1>2
  <2> QED BY <1>3, <2>1
<1> HIDE DEF new
<1>6. Len(new) \in Nat /\ Len(lines) + Len(B) + 4 <= Len(new) /\ Len(new) = Len(lines) + Len(B) + 4
  BY <1>1, <1>2, <1>3
<1>7. BlockAt(new, Len(lines), role, B)
  BY <1>1, <1>2, <1>5, <1>6, BlockMoves
<1> QED BY <1>3, <1>4, <1>6, <1>7 DEF new, F, B

\* The lines of the file that no later write changes.
Settled == IF cutShort THEN Len(logLines) - 1 ELSE Len(logLines)

\* What every write behind the first does: the settled lines stay, a whole message
\* stands behind them when they are all there are, and of a torn one there is a line.
Grows(message) ==
  /\ message \in Message /\ said' = Append(said, message)
  /\ logLines' \in Seq(Lines) /\ cutShort' \in BOOLEAN
  /\ Len(logLines') > Settled /\ \A i \in 1..Settled : logLines'[i] = logLines[i]
  /\ ~cutShort /\ message.whole =>
       /\ BlockAt(logLines', Len(logLines), message.role, Kept(message.body))
       /\ Len(logLines') = Len(logLines) + Len(Kept(message.body)) + 4
  /\ cutShort' => ~cutShort /\ ~message.whole

\* It keeps the invariant.
LEMMA GrowsOn ==
  ASSUME TranscriptInv, said # <<>>, NEW message, Grows(message)
  PROVE  TranscriptInv'
<1>0. PICK n \in Nat : n = Len(said)
  BY LenProperties DEF TranscriptInv
<1> DEFINE L == Len(logLines)
<1>1. /\ n = Len(said) /\ n \in Nat \ {0} /\ L \in Nat /\ L >= 2 /\ (cutShort => L > 2) /\ cutShort \in BOOLEAN
      /\ Settled \in Nat /\ Settled >= 2 /\ Settled <= L /\ (cutShort => Settled = L - 1)
      /\ Len(logLines') \in Nat /\ Len(logLines') > Settled
      /\ (~cutShort => Settled = L)
  <2>1. n \in Nat /\ n # 0 /\ L \in Nat /\ Len(logLines') \in Nat
    BY <1>0, LenProperties, EmptySeq DEF TranscriptInv, Grows
  <2> QED BY <1>0, <2>1 DEF TranscriptInv, Grows, Settled
<1>2. /\ said' \in Seq(Message) /\ Len(said') = n + 1 /\ said' # <<>>
      /\ \A i \in 1..n : said'[i] = said[i]
      /\ said'[n + 1] = message
  BY <1>0, AppendProperties DEF TranscriptInv, Grows
<1>3. \A i \in 1..n : said[i] \in Message /\ Kept(said[i].body) \in Seq(Lines) /\ Len(Kept(said[i].body)) \in Nat
  <2> SUFFICES ASSUME NEW i \in 1..n
               PROVE  said[i] \in Message /\ Kept(said[i].body) \in Seq(Lines) /\ Len(Kept(said[i].body)) \in Nat
    OBVIOUS
  <2>1. said[i] \in Message
    BY <1>0, ElementOfSeq DEF TranscriptInv
  <2>2. said[i].body \in Seq(Lines)
    BY <2>1, TranscriptConstants DEF Message
  <2> QED BY <2>1, <2>2, KeptReadsBack
<1>4. PICK marks : Marked(marks)
  BY DEF TranscriptInv
<1>14. PICK marks1 : marks1 = [j \in 0..(n + 1) |-> IF j <= n THEN marks[j] ELSE Len(logLines')]
  OBVIOUS
<1>5. /\ marks \in [0..n -> Nat] /\ marks[0] = 2 /\ marks1 \in [0..(n + 1) -> Nat] /\ marks1[0] = 2
      /\ \A j \in 0..n : marks1[j] = marks[j]
      /\ marks1[n + 1] = Len(logLines')
  <2>1. marks \in [0..n -> Nat] /\ marks[0] = 2
    BY <1>0, <1>4 DEF Marked
  <2>2. n + 1 \in 0..(n + 1) /\ ~(n + 1 <= n) /\ 0 \in 0..n /\ \A j \in 0..n : j \in 0..(n + 1) /\ j <= n
    BY <1>1
  <2> QED BY <1>1, <1>14, <2>1, <2>2
<1>6. /\ \A j \in 1..n : PlainUpTo(j)' <=> PlainUpTo(j)
      /\ PlainUpTo(n + 1)' => PlainUpTo(n) /\ Plain(message)
  <2>1. \A i \in 1..n : Plain(said'[i]) <=> Plain(said[i])
    BY <1>2
  <2>2. ASSUME NEW j \in 1..n PROVE PlainUpTo(j)' <=> PlainUpTo(j)
    <3>1. \A i \in 1..j : i \in 1..n
      BY <1>1
    <3> QED BY <2>1, <3>1 DEF PlainUpTo
  <2>3. PlainUpTo(n + 1)' => PlainUpTo(n) /\ Plain(message)
    <3>1. n + 1 \in 1..(n + 1) /\ \A i \in 1..n : i \in 1..(n + 1)
      BY <1>1
    <3> QED BY <1>2, <2>1, <3>1 DEF PlainUpTo
  <2> QED BY <2>2, <2>3
<1>7. PlainUpTo(n + 1)' => ~cutShort /\ ~cutShort' /\ message.whole
  <2>1. cutShort => ~PlainUpTo(n)
    BY <1>1 DEF TranscriptInv, PlainUpTo, Plain
  <2>2. PlainUpTo(n + 1)' => message.whole
    BY <1>6 DEF Plain
  <2> QED BY <1>6, <2>1, <2>2 DEF Grows
<1>8. ASSUME NEW j \in 1..n, PlainUpTo(j)
      PROVE  /\ BlockAt(logLines', marks1[j - 1], said'[j].role, Kept(said'[j].body))
             /\ marks1[j] = marks1[j - 1] + Len(Kept(said'[j].body)) + 4
             /\ cutShort' => marks1[j] < Len(logLines')
  <2>1. /\ BlockAt(logLines, marks[j - 1], said[j].role, Kept(said[j].body))
        /\ marks[j] = marks[j - 1] + Len(Kept(said[j].body)) + 4
        /\ cutShort => marks[j] < L
    BY <1>0, <1>4, <1>8 DEF Marked
  <2>2. marks1[j - 1] = marks[j - 1] /\ marks1[j] = marks[j] /\ marks[j - 1] \in Nat /\ marks[j] \in Nat
    <3>1. j - 1 \in 0..n /\ j \in 0..n
      BY <1>1
    <3> QED BY <1>5, <3>1
  <2> DEFINE B == Kept(said[j].body)
             m == marks[j - 1]
  <2>3. B \in Seq(Lines) /\ Len(B) \in Nat
    BY <1>3
  <2>4. marks[j] <= L
    BY <2>1 DEF BlockAt
  <2>5. m \in Nat /\ m + Len(B) + 4 <= Settled /\ marks[j] <= Settled
    BY <1>1, <2>1, <2>2, <2>3, <2>4
  <2>6. \A i \in 1..(Len(B) + 4) : logLines'[m + i] = logLines[m + i]
    <3>1. \A i \in 1..(Len(B) + 4) : m + i \in 1..Settled
      <4>1. PICK b \in Nat : b = Len(B)
        BY <2>3
      <4> HIDE DEF B, m
      <4>2. m + b + 4 <= Settled /\ m \in Nat /\ Settled \in Nat
        BY <1>1, <2>5, <4>1
      <4>3. \A i \in 1..(b + 4) : m + i \in 1..Settled
        BY <4>2
      <4> QED BY <4>1, <4>3
    <3> QED BY <3>1 DEF Grows
  <2>7. BlockAt(logLines', m, said[j].role, B)
    <3> HIDE DEF m, B
    <3>1. m + Len(B) + 4 <= Len(logLines')
      BY <1>1, <2>3, <2>5
    <3>2. BlockAt(logLines, m, said[j].role, B)
      BY <2>1 DEF m, B
    <3> QED BY <1>1, <2>3, <2>5, <2>6, <3>1, <3>2, BlockMoves
  <2>8. marks[j] < Len(logLines')
    BY <1>1, <2>2, <2>5
  <2> QED BY <1>2, <2>1, <2>2, <2>7, <2>8
<1>9. ASSUME PlainUpTo(n + 1)'
      PROVE  /\ BlockAt(logLines', marks1[n], message.role, Kept(message.body))
             /\ marks1[n + 1] = marks1[n] + Len(Kept(message.body)) + 4
  <2>1. marks[n] = L
    BY <1>0, <1>4, <1>6, <1>9 DEF Marked
  <2>2. marks1[n] = L
    BY <1>1, <1>5, <2>1
  <2> QED BY <1>5, <1>7, <1>9, <2>2 DEF Grows
<1>10. Marked(marks1)'
  <2>1. marks1 \in [0..Len(said') -> Nat] /\ marks1[0] = 2
    BY <1>2, <1>5
  <2>2. ASSUME NEW j \in 1..Len(said'), PlainUpTo(j)'
        PROVE  /\ BlockAt(logLines', marks1[j - 1], said'[j].role, Kept(said'[j].body))
               /\ marks1[j] = marks1[j - 1] + Len(Kept(said'[j].body)) + 4
               /\ cutShort' => marks1[j] < Len(logLines')
    <3>1. CASE j \in 1..n
      BY <1>6, <1>8, <2>2, <3>1
    <3>2. CASE j = n + 1
      <4>1. j - 1 = n
        BY <1>1, <3>2
      <4>2. PlainUpTo(n + 1)'
        BY <2>2, <3>2 DEF PlainUpTo
      <4> QED BY <1>2, <1>7, <1>9, <3>2, <4>1, <4>2
    <3> QED BY <1>1, <1>2, <3>1, <3>2
  <2>3. marks1[Len(said')] = Len(logLines')
    BY <1>2, <1>5
  <2>4. /\ marks1 \in [0..Len(said') -> Nat] /\ marks1[0] = 2
        /\ \A j \in 1..Len(said') : PlainUpTo(j)' =>
             /\ BlockAt(logLines', marks1[j - 1], said'[j].role, Kept(said'[j].body))
             /\ marks1[j] = marks1[j - 1] + Len(Kept(said'[j].body)) + 4
             /\ cutShort' => marks1[j] < Len(logLines')
        /\ PlainUpTo(Len(said))' => marks1[Len(said')] = Len(logLines')
    BY <2>1, <2>2, <2>3
  <2> QED BY ONLY <2>4 DEF Marked
<1>11. logLines'[1] = "text" /\ logLines'[2] = "blank"
  <2>1. 1 \in 1..Settled /\ 2 \in 1..Settled
    BY <1>1
  <2> QED BY <2>1 DEF TranscriptInv, Grows
<1>12. cutShort' => Len(logLines') > 2 /\ ~said'[Len(said')].whole
  BY <1>1, <1>2 DEF Grows
<1>13. logLines' \in Seq(Lines) /\ cutShort' \in BOOLEAN /\ Len(logLines') >= 2
  BY <1>1 DEF Grows
<1> QED BY <1>2, <1>10, <1>11, <1>12, <1>13 DEF TranscriptInv

\* What is written behind something leaves it there.
LEMMA WrittenBehind ==
  ASSUME NEW S, NEW s \in Seq(S), NEW t \in Seq(S)
  PROVE  /\ s \o t \in Seq(S) /\ Len(s) \in Nat /\ Len(t) \in Nat /\ Len(s \o t) = Len(s) + Len(t)
         /\ \A i \in 1..Len(s) : (s \o t)[i] = s[i]
<1>1. Len(s) \in Nat /\ Len(t) \in Nat
  BY LenProperties
<1>2. \A i \in 1..Len(s) : i \in 1..(Len(s) + Len(t)) /\ i <= Len(s)
  BY <1>1
<1> QED BY <1>1, <1>2, ConcatProperties

\* A message that is written whole.
LEMMA AppendKeeps ==
  ASSUME TranscriptInv, NEW role \in {"user", "assistant"}, NEW body \in Bodies, AppendMessage(role, body)
  PROVE  TranscriptInv'
<1> DEFINE F == Formatted(role, body)
           message == [role |-> role, body |-> body, whole |-> TRUE]
<1>1. body \in Seq(Lines) /\ message \in Message /\ message.whole /\ message.role = role /\ message.body = body
  BY TranscriptConstants DEF Message
<1>2. said' = Append(said, message) /\ cutShort' = FALSE
  BY DEF AppendMessage
<1>3. F \in Seq(Lines) /\ Len(F) = Len(Kept(body)) + 4 /\ Len(Kept(body)) \in Nat
  BY <1>1, FormattedIs, KeptReadsBack
<1>4. logLines \in Seq(Lines) /\ Len(logLines) \in Nat
  BY LenProperties DEF TranscriptInv
<1> HIDE DEF message
<1>5. CASE said # <<>> /\ ~cutShort
  <2>1. logLines # <<>>
    BY <1>5, EmptySeq DEF TranscriptInv
  <2>2. logLines' = <<>> \o (logLines \o F)
    BY <1>5, <2>1 DEF AppendMessage, Glued
  <2>3. logLines' = logLines \o F
    <3>1. logLines \o F \in Seq(Lines)
      BY <1>1, <1>4, BlockIsWritten
    <3> HIDE DEF F
    <3> QED BY <2>2, <3>1, ConcatEmptySeq
  <2>4. /\ logLines' \in Seq(Lines) /\ Len(logLines') = Len(logLines) + Len(Kept(body)) + 4
        /\ \A i \in 1..Len(logLines) : logLines'[i] = logLines[i]
        /\ BlockAt(logLines', Len(logLines), role, Kept(body))
    <3>1. /\ logLines \o F \in Seq(Lines) /\ Len(logLines \o F) = Len(logLines) + Len(Kept(body)) + 4
          /\ \A i \in 1..Len(logLines) : (logLines \o F)[i] = logLines[i]
          /\ BlockAt(logLines \o F, Len(logLines), role, Kept(body))
      <4>1. PICK old \in Seq(Lines) : old = logLines
        BY <1>4
      <4>2. /\ old \o F \in Seq(Lines) /\ Len(old \o F) = Len(old) + Len(Kept(body)) + 4
            /\ \A i \in 1..Len(old) : (old \o F)[i] = old[i]
            /\ BlockAt(old \o F, Len(old), role, Kept(body))
        <5>1. body \in Seq(Lines)
          BY <1>1
        <5> QED BY ONLY <5>1, BlockIsWritten
      <4> QED BY <4>1, <4>2
    <3> HIDE DEF F
    <3> QED BY <2>3, <3>1
  <2>5. Settled = Len(logLines) /\ Len(logLines') > Settled
    BY <1>3, <1>4, <1>5, <2>4 DEF Settled
  <2>6. Grows(message)
    BY <1>1, <1>2, <2>4, <2>5 DEF Grows
  <2> QED BY <1>5, <2>6, GrowsOn
<1>6. CASE said # <<>> /\ cutShort
  <2>1. logLines # <<>> /\ Len(logLines) > 2
    BY <1>6, EmptySeq DEF TranscriptInv
  <2>2. PICK x \in Lines : logLines' = <<>> \o (SubSeq(logLines, 1, Len(logLines) - 1) \o <<x>> \o Tail(F))
    BY <1>6, <2>1 DEF AppendMessage, Glued, Lines, Tildes
  <2> HIDE DEF F
  <2> DEFINE a1 == SubSeq(logLines, 1, Len(logLines) - 1)
             a2 == a1 \o <<x>>
             a3 == a2 \o Tail(F)
  <2>3. a1 \in Seq(Lines) /\ Len(a1) = Len(logLines) - 1 /\ \A i \in 1..(Len(logLines) - 1) : a1[i] = logLines[i]
    BY <1>4, <2>1
  <2>4. <<x>> \in Seq(Lines) /\ Tail(F) \in Seq(Lines) /\ Len(Tail(F)) \in Nat
    <3>1. F # <<>>
      BY <1>3, EmptySeq
    <3>2. Tail(F) \in Seq(Lines)
      BY <1>3, <3>1, HeadTailProperties
    <3> QED BY <3>2, LenProperties
  <2> HIDE DEF a1
  <2>5. a2 \in Seq(Lines) /\ Len(a2) = Len(logLines) /\ \A i \in 1..(Len(logLines) - 1) : a2[i] = logLines[i]
    BY <1>4, <2>1, <2>3, <2>4
  <2> HIDE DEF a2
  <2>6. /\ a3 \in Seq(Lines) /\ Len(a3) = Len(logLines) + Len(Tail(F))
        /\ \A i \in 1..(Len(logLines) - 1) : a3[i] = logLines[i]
    <3>1. /\ a2 \o Tail(F) \in Seq(Lines) /\ Len(a2 \o Tail(F)) = Len(a2) + Len(Tail(F))
          /\ \A i \in 1..Len(a2) : (a2 \o Tail(F))[i] = a2[i]
      BY <2>4, <2>5, WrittenBehind
    <3>2. \A i \in 1..(Len(logLines) - 1) : i \in 1..Len(a2)
      BY <1>4, <2>5
    <3> QED BY <2>5, <3>1, <3>2
  <2>7. logLines' = a3
    <3> HIDE DEF a3
    <3>1. logLines' = <<>> \o a3
      BY <2>2 DEF a1, a2, a3
    <3> QED BY <2>6, <3>1, ConcatEmptySeq
  <2> HIDE DEF a3
  <2>8. Settled = Len(logLines) - 1 /\ Len(logLines') > Settled
    BY <1>4, <1>6, <2>4, <2>6, <2>7 DEF Settled
  <2>9. Grows(message)
    BY <1>1, <1>2, <1>6, <2>6, <2>7, <2>8 DEF Grows
  <2> QED BY <1>6, <2>9, GrowsOn
<1>7. CASE said = <<>>
  <2> DEFINE top == <<"text", "blank">>
  <2>1. logLines = <<>> /\ ~cutShort
    BY <1>7 DEF TranscriptInv
  <2>2. logLines' = top \o (<<>> \o F)
    BY <2>1 DEF AppendMessage, Glued
  <2>3. logLines' = top \o F
    BY <1>3, <2>2, ConcatEmptySeq
  <2>4. top \in Seq(Lines) /\ Len(top) = 2 /\ top[1] = "text" /\ top[2] = "blank"
    BY DEF Lines, Tildes
  <2> HIDE DEF top
  <2>5. /\ logLines' \in Seq(Lines) /\ Len(logLines') = 2 + Len(Kept(body)) + 4
        /\ logLines'[1] = "text" /\ logLines'[2] = "blank"
        /\ BlockAt(logLines', 2, role, Kept(body))
    <3>1. /\ top \o F \in Seq(Lines)
          /\ Len(top \o F) = Len(top) + Len(Kept(body)) + 4
          /\ \A i \in 1..Len(top) : (top \o F)[i] = top[i]
          /\ BlockAt(top \o F, Len(top), role, Kept(body))
      BY <1>1, <2>4, BlockIsWritten
    <3>2. 1 \in 1..Len(top) /\ 2 \in 1..Len(top)
      BY <2>4
    <3> HIDE DEF F
    <3> QED BY <2>3, <2>4, <3>1, <3>2
  <2>6. said' = <<message>> /\ Len(said') = 1 /\ said'[1] = message /\ said' \in Seq(Message) /\ said' # <<>>
    BY <1>1, <1>2, <1>7
  <2>7. PICK marks : marks = [j \in 0..1 |-> IF j = 0 THEN 2 ELSE 2 + Len(Kept(body)) + 4]
    OBVIOUS
  <2>8. marks[0] = 2 /\ marks[1] = 2 + Len(Kept(body)) + 4 /\ marks \in [0..1 -> Nat]
    BY <1>3, <2>7
  <2>9. Marked(marks)'
    <3>1. \A j \in 1..1 : j = 1 /\ j - 1 = 0
      OBVIOUS
    <3>2. \A j \in 1..1 :
            /\ BlockAt(logLines', marks[j - 1], said'[j].role, Kept(said'[j].body))
            /\ marks[j] = marks[j - 1] + Len(Kept(said'[j].body)) + 4
            /\ cutShort' => marks[j] < Len(logLines')
      BY <1>1, <1>2, <2>5, <2>6, <2>8, <3>1
    <3>3. marks[1] = Len(logLines')
      BY <2>5, <2>8
    <3> QED BY <2>6, <2>8, <3>2, <3>3 DEF Marked
  <2>10. Len(logLines') >= 2
    BY <1>3, <2>5
  <2>11. \E w : Marked(w)'
    BY <2>9
  <2> QED BY <1>2, <2>5, <2>6, <2>10, <2>11 DEF TranscriptInv
<1> QED BY <1>5, <1>6, <1>7 DEF TranscriptInv

\* A message that the process writes a part of.
LEMMA TearKeeps ==
  ASSUME TranscriptInv, NEW role \in {"user", "assistant"}, NEW body \in Bodies,
         NEW n \in 1..(Len(body) + 4), NEW within \in BOOLEAN, TearMessage(role, body, n, within)
  PROVE  TranscriptInv'
<1> DEFINE F == Formatted(role, body)
           message == [role |-> role, body |-> body, whole |-> FALSE]
<1>1. body \in Seq(Lines) /\ message \in Message /\ ~message.whole
  BY TranscriptConstants DEF Message
<1>2. F \in Seq(Lines) /\ Len(F) \in Nat /\ \A i \in 1..Len(F) : F[i] \in Lines
  BY <1>1, FormattedIs, LenProperties, ElementOfSeq
<1>3. /\ said' = Append(said, message) /\ cutShort' = within /\ ~cutShort /\ logLines # <<>>
      /\ n \in 1..(Len(F) - 1)
  BY DEF TearMessage
<1>4. PICK l \in Lines : logLines' = logLines \o SubSeq(F, 1, n - 1) \o <<l>>
  <2>1. F[n] \in Lines
    BY <1>2, <1>3
  <2>2. {"close", "text"} \subseteq Lines /\ {"text"} \subseteq Lines
    BY DEF Lines, Tildes
  <2> QED BY <2>1, <2>2 DEF TearMessage
<1>5. logLines \in Seq(Lines) /\ Len(logLines) \in Nat /\ said # <<>>
  BY <1>3, LenProperties DEF TranscriptInv
<1> HIDE DEF F, message
<1> DEFINE a1 == SubSeq(F, 1, n - 1)
           a2 == logLines \o a1
<1>6. a1 \in Seq(Lines) /\ Len(a1) \in Nat /\ <<l>> \in Seq(Lines)
  BY <1>2, <1>3
<1> HIDE DEF a1
<1>7. /\ a2 \in Seq(Lines) /\ Len(a2) = Len(logLines) + Len(a1)
      /\ \A i \in 1..Len(logLines) : a2[i] = logLines[i]
  BY <1>5, <1>6
<1> HIDE DEF a2
<1>8. /\ a2 \o <<l>> \in Seq(Lines) /\ Len(a2 \o <<l>>) = Len(logLines) + Len(a1) + 1
      /\ \A i \in 1..Len(logLines) : (a2 \o <<l>>)[i] = logLines[i]
  <2>1. /\ a2 \o <<l>> \in Seq(Lines) /\ Len(a2 \o <<l>>) = Len(a2) + Len(<<l>>) /\ Len(<<l>>) = 1
        /\ \A i \in 1..Len(a2) : (a2 \o <<l>>)[i] = a2[i]
    BY <1>6, <1>7, WrittenBehind
  <2>2. \A i \in 1..Len(logLines) : i \in 1..Len(a2)
    BY <1>5, <1>6, <1>7
  <2> QED BY <1>7, <2>1, <2>2
<1>9. logLines' = a2 \o <<l>>
  BY <1>4 DEF a1, a2
<1>10. Grows(message)
  BY <1>1, <1>3, <1>5, <1>6, <1>8, <1>9 DEF Grows, Settled
<1> QED BY <1>5, <1>10, GrowsOn

TranscriptSpec == TranscriptInit /\ [][TranscriptNext]_transcriptVars

\* Every write and every tear keeps it.
LEMMA TranscriptStep == TranscriptInv /\ [TranscriptNext]_transcriptVars => TranscriptInv'
<1> SUFFICES ASSUME TranscriptInv, [TranscriptNext]_transcriptVars PROVE TranscriptInv'
  OBVIOUS
<1>1. CASE TranscriptNext
  BY <1>1, AppendKeeps, TearKeeps DEF TranscriptNext
<1>2. CASE UNCHANGED transcriptVars
  <2>1. logLines' = logLines /\ cutShort' = cutShort /\ said' = said
    BY <1>2 DEF transcriptVars
  <2>2. \A j : PlainUpTo(j)' <=> PlainUpTo(j)
    BY <2>1 DEF PlainUpTo
  <2>3. ASSUME NEW marks PROVE Marked(marks)' <=> Marked(marks)
    BY <2>1, <2>2 DEF Marked
  <2> QED BY <2>1, <2>3 DEF TranscriptInv
<1> QED BY <1>1, <1>2

\* How many messages are plain up to the first that is not.
LEMMA PlainStartIs ==
  ASSUME TranscriptInv
  PROVE  PlainStart \in 0..Len(said) /\ PlainUpTo(PlainStart)
<1>1. PICK N \in Nat : N = Len(said)
  BY LenProperties DEF TranscriptInv
<1> DEFINE S == {n \in 0..N : PlainUpTo(n)}
           rests == {N - n : n \in S}
<1>2. 0 \in S
  BY DEF PlainUpTo
<1>3. rests \in SUBSET Nat /\ rests # {}
  BY <1>2
<1>4. PICK r \in rests : \A q \in rests : r <= q
  <2> HIDE DEF rests
  <2> QED BY <1>3, LeastNumber
<1>5. PICK x \in S : r = N - x
  BY <1>4
<1>6. \A y \in S : x >= y
  <2> SUFFICES ASSUME NEW y \in S PROVE x >= y
    OBVIOUS
  <2>1. r <= N - y
    BY <1>4
  <2> QED BY <1>5, <2>1
<1>7. Max(S) \in S
  <2> HIDE DEF S
  <2>1. \E z \in S : \A y \in S : z >= y
    BY <1>6
  <2> QED BY <2>1 DEF Max
<1>8. PlainStart = Max(S)
  BY <1>1 DEF PlainStart, PlainUpTo
<1> QED BY <1>1, <1>7, <1>8

\* The plain messages are laid out in the file so that both readers see their ends.
LEMMA PlainIsLaid ==
  ASSUME TranscriptInv, said # <<>>
  PROVE  \E marks : /\ Laid(logLines, marks, said, PlainStart)
                    /\ \A j \in 1..PlainStart :
                         /\ said[j].body \in Seq(Lines)
                         /\ EndSeen(PAEnds(logLines), marks[j - 1], Kept(said[j].body))
                         /\ EndSeen(WebEnds(logLines), marks[j - 1], Kept(said[j].body))
                    /\ PlainStart = Len(said) => marks[PlainStart] = Len(logLines)
<1>1. PICK p \in Nat : p = PlainStart /\ p \in 0..Len(said) /\ PlainUpTo(p)
  BY PlainStartIs
<1>2. PICK marks : Marked(marks)
  BY DEF TranscriptInv
<1>3. /\ marks[0] = 2 /\ \A j \in 0..p : marks[j] \in Nat
      /\ logLines \in Seq(Lines) /\ Len(logLines) >= 2 /\ logLines[1] = "text" /\ logLines[2] = "blank"
      /\ Len(said) \in Nat
  <2>1. /\ logLines \in Seq(Lines) /\ Len(logLines) >= 2 /\ logLines[1] = "text" /\ logLines[2] = "blank"
        /\ Len(said) \in Nat
    BY LenProperties DEF TranscriptInv
  <2>2. marks \in [0..Len(said) -> Nat] /\ marks[0] = 2
    BY <1>2 DEF Marked
  <2>3. \A j \in 0..p : j \in 0..Len(said)
    BY <1>1, <2>1
  <2> QED BY <2>1, <2>2, <2>3
<1>4. ASSUME NEW j \in 1..p
      PROVE  /\ said[j].body \in Seq(Lines)
             /\ BlockAt(logLines, marks[j - 1], said[j].role, Kept(said[j].body))
             /\ marks[j] = marks[j - 1] + Len(Kept(said[j].body)) + 4
             /\ EndSeen(PAEnds(logLines), marks[j - 1], Kept(said[j].body))
             /\ EndSeen(WebEnds(logLines), marks[j - 1], Kept(said[j].body))
  <2>1. j \in 1..Len(said) /\ j - 1 \in 0..p /\ \A i \in 1..j : i \in 1..p
    BY <1>1, <1>3
  <2>2. said[j] \in Message
    BY <2>1, ElementOfSeq DEF TranscriptInv
  <2>3. said[j].body \in Seq(Lines)
    BY <2>2, TranscriptConstants DEF Message
  <2>4. PlainUpTo(j)
    BY <1>1, <2>1 DEF PlainUpTo
  <2>5. /\ BlockAt(logLines, marks[j - 1], said[j].role, Kept(said[j].body))
        /\ marks[j] = marks[j - 1] + Len(Kept(said[j].body)) + 4
    BY <1>2, <2>1, <2>4 DEF Marked
  <2> DEFINE body == said[j].body
  <2>6. \A i \in 1..Len(body) : body[i] \notin Tildes
    <3>1. Plain(said[j])
      BY <2>1, <2>4 DEF PlainUpTo
    <3> QED BY <2>3, <3>1 DEF Plain
  <2>7. /\ Kept(body) \in Seq(Lines) /\ Len(Kept(body)) # 0
        /\ \A i \in 1..Len(Kept(body)) : Kept(body)[i] \notin Tildes
    <3>1. /\ Kept(body) \in Seq(Lines) /\ Len(Kept(body)) \in Nat \ {0}
          /\ \A i \in 1..Len(Kept(body)) : Kept(body)[i] = "blank" \/ \E k \in 1..Len(body) : Kept(body)[i] = body[k]
      BY <2>3, KeptReadsBack
    <3>2. "blank" \notin Tildes
      BY DEF Tildes
    <3> QED BY <2>6, <3>1, <3>2
  <2>8. marks[j - 1] \in Nat
    BY <1>3, <2>1
  <2> HIDE DEF body
  <2>9. EndSeen(PAEnds(logLines), marks[j - 1], Kept(body)) /\ EndSeen(WebEnds(logLines), marks[j - 1], Kept(body))
    <3>1. BlockAt(logLines, marks[j - 1], said[j].role, Kept(body))
      BY <2>5 DEF body
    <3> QED BY <1>3, <2>7, <2>8, <3>1, EndsAreSeen
  <2> QED BY <2>3, <2>5, <2>9 DEF body
<1>5. PlainStart = Len(said) => marks[PlainStart] = Len(logLines)
  BY <1>1, <1>2 DEF Marked
<1>6. Laid(logLines, marks, said, PlainStart)
  BY <1>1, <1>3, <1>4 DEF Laid
<1> QED BY <1>1, <1>4, <1>5, <1>6

\* What each of them makes of the messages it reads.
LEMMA ReadersAgree ==
  ASSUME TranscriptInv
  PROVE  TranscriptReadsBack
<1>1. PICK p \in Nat : p = PlainStart /\ p \in 0..Len(said) /\ PlainUpTo(p)
  BY PlainStartIs
<1>2. logLines \in Seq(Lines) /\ said \in Seq(Message) /\ Len(said) \in Nat
  BY LenProperties DEF TranscriptInv
<1> DEFINE pa == Messages(logLines, PAEnds(logLines))
           web == Messages(logLines, WebEnds(logLines))
<1>3. /\ pa \in Seq(Read) /\ Len(pa) >= p /\ (p = Len(said) => Len(pa) = p)
      /\ web \in Seq(Read) /\ Len(web) >= p /\ (p = Len(said) => Len(web) = p)
      /\ \A i \in 1..p : pa[i] = Raw(said[i]) /\ web[i] = Raw(said[i])
  <2>1. CASE said = <<>>
    <3>1. logLines = <<>> /\ p = 0
      BY <1>1, <2>1 DEF TranscriptInv
    <3>2. ASSUME NEW ends, EndsOf(logLines, ends) PROVE Messages(logLines, ends) = <<>>
      <4>1. PICK F : ReadsFrom(F, logLines, ends) /\ Messages(logLines, ends) = F[1]
        BY <1>2, <3>2, MessagesDefined
      <4>2. F[1] = ReadStep(logLines, ends, 1, F) /\ 1 > Len(logLines)
        BY <3>1, <4>1 DEF ReadsFrom
      <4> QED BY <4>1, <4>2 DEF ReadStep
    <3>3. pa = <<>> /\ web = <<>>
      BY <1>2, <3>2, EndsAreBehind
    <3> HIDE DEF pa, web
    <3> QED BY <2>1, <3>1, <3>3
  <2>2. CASE said # <<>>
    <3>1. PICK marks : /\ Laid(logLines, marks, said, p)
                       /\ \A j \in 1..p :
                            /\ said[j].body \in Seq(Lines)
                            /\ EndSeen(PAEnds(logLines), marks[j - 1], Kept(said[j].body))
                            /\ EndSeen(WebEnds(logLines), marks[j - 1], Kept(said[j].body))
                       /\ p = Len(said) => marks[p] = Len(logLines)
      BY <1>1, <2>2, PlainIsLaid
    <3>2. /\ pa \in Seq(Read) /\ Len(pa) >= p /\ (marks[p] = Len(logLines) => Len(pa) = p)
          /\ \A i \in 1..p : pa[i] = Raw(said[i])
      BY <1>2, <3>1, EndsAreBehind, LaidIsRead
    <3>3. /\ web \in Seq(Read) /\ Len(web) >= p /\ (marks[p] = Len(logLines) => Len(web) = p)
          /\ \A i \in 1..p : web[i] = Raw(said[i])
      BY <1>2, <3>1, EndsAreBehind, LaidIsRead
    <3> HIDE DEF pa, web
    <3> QED BY <3>1, <3>2, <3>3
  <2> QED BY <2>1, <2>2
<1>4. \A i \in 1..p : /\ said[i] \in Message /\ said[i].body \in Seq(Lines)
                      /\ Unblanked(Kept(said[i].body)) = TrimmedEnd(said[i].body)
                      /\ Trimmed(Kept(said[i].body)) = Trimmed(said[i].body)
  <2> SUFFICES ASSUME NEW i \in 1..p
               PROVE  /\ said[i] \in Message /\ said[i].body \in Seq(Lines)
                      /\ Unblanked(Kept(said[i].body)) = TrimmedEnd(said[i].body)
                      /\ Trimmed(Kept(said[i].body)) = Trimmed(said[i].body)
    OBVIOUS
  <2>1. said[i] \in Message
    BY <1>1, <1>2, ElementOfSeq
  <2>2. said[i].body \in Seq(Lines)
    BY <2>1, TranscriptConstants DEF Message
  <2> QED BY <2>1, <2>2, KeptReadsBack
<1>5. /\ PAMessages(logLines) = [n \in DOMAIN pa |-> [pa[n] EXCEPT !.body = Unblanked(@)]]
      /\ WebMessages(logLines) = [n \in DOMAIN web |-> [web[n] EXCEPT !.body = Trimmed(@)]]
  BY DEF PAMessages, WebMessages, PAEnds, WebEnds
<1> HIDE DEF pa, web
<1>6. /\ DOMAIN pa = 1..Len(pa) /\ Len(pa) \in Nat /\ DOMAIN web = 1..Len(web) /\ Len(web) \in Nat
      /\ \A i \in 1..p : i \in DOMAIN pa /\ i \in DOMAIN web
  BY <1>3, LenProperties
<1>7. Len(PAMessages(logLines)) = Len(pa) /\ Len(WebMessages(logLines)) = Len(web)
  BY <1>5, <1>6
<1>8. ASSUME NEW i \in 1..p
      PROVE  /\ PAMessages(logLines)[i] = [role |-> said[i].role, body |-> TrimmedEnd(said[i].body)]
             /\ WebMessages(logLines)[i] = [role |-> said[i].role, body |-> Trimmed(said[i].body)]
  <2>1. pa[i] = [role |-> said[i].role, body |-> Kept(said[i].body)]
        /\ web[i] = [role |-> said[i].role, body |-> Kept(said[i].body)]
    BY <1>3 DEF Raw
  <2>2. /\ [pa[i] EXCEPT !.body = Unblanked(@)] = [role |-> said[i].role, body |-> Unblanked(Kept(said[i].body))]
        /\ [web[i] EXCEPT !.body = Trimmed(@)] = [role |-> said[i].role, body |-> Trimmed(Kept(said[i].body))]
    BY <2>1
  <2>3. /\ PAMessages(logLines)[i] = [pa[i] EXCEPT !.body = Unblanked(@)]
        /\ WebMessages(logLines)[i] = [web[i] EXCEPT !.body = Trimmed(@)]
    BY <1>5, <1>6
  <2> QED BY <1>4, <2>2, <2>3
<1> QED BY <1>1, <1>3, <1>7, <1>8 DEF TranscriptReadsBack, AgreesWith

\* Both readers of a transcript get back what was written to it, up to the first
\* message that was torn or has a line of tildes (session.py, routes/logs.py).
THEOREM TranscriptsReadBack == TranscriptSpec => []TranscriptReadsBack
<1>1. TranscriptInit => TranscriptInv
  <2>1. <<>> \in Seq(Lines) /\ <<>> \in Seq(Message)
    OBVIOUS
  <2> QED BY <2>1 DEF TranscriptInit, TranscriptInv
<1>2. TranscriptInv => TranscriptReadsBack
  BY ReadersAgree
<1> QED BY <1>1, <1>2, TranscriptStep, PTL DEF TranscriptSpec

-----------------------------------------------------------------------------
(* The costs that are read from the log of the calls *)

\* A part of a set before a larger one that holds it.
PartOrder(I) == {p \in (SUBSET I) \X (SUBSET I) : p[1] \subseteq p[2] /\ p[1] # p[2]}

\* The parts of a finite set are well ordered.
LEMMA PartsAreOrdered ==
  ASSUME NEW I, IsFiniteSet(I)
  PROVE  WellOrders(PartOrder(I), SUBSET I)
<1>1. \A s, r \in SUBSET I : <<s, r>> \in PartOrder(I) <=> s \subseteq r /\ s # r
  BY DEF PartOrder
<1>2. ASSUME NEW T \in SUBSET (SUBSET I), T # {}
      PROVE  \E r \in T : \A s \in T : <<s, r>> \notin PartOrder(I)
  <2> DEFINE sizes == {Cardinality(s) : s \in T}
  <2>1. \A s \in SUBSET I : IsFiniteSet(s) /\ Cardinality(s) \in Nat
    BY FS_Subset, FS_CardinalityType
  <2>2. sizes \in SUBSET Nat /\ sizes # {}
    BY <1>2, <2>1
  <2>3. PICK k \in sizes : \A l \in sizes : k <= l
    BY <2>2, LeastNumber
  <2>4. PICK r \in T : k = Cardinality(r)
    BY <2>3
  <2>5. ASSUME NEW s \in T, s \subseteq r, s # r PROVE FALSE
    <3>1. Cardinality(s) <= Cardinality(r) /\ Cardinality(s) # Cardinality(r)
      BY <2>1, <2>5, FS_Subset
    <3>2. Cardinality(r) <= Cardinality(s)
      BY <2>3, <2>4
    <3> QED BY <2>1, <3>1, <3>2
  <2> QED BY <1>1, <2>5
<1>3. \A s, r, q \in SUBSET I : <<s, r>> \in PartOrder(I) /\ <<r, q>> \in PartOrder(I)
                                 => <<s, q>> \in PartOrder(I)
  BY <1>1
<1> QED BY <1>2, <1>3 DEF WellOrders

\* What the sum over a part is, from the sum over the part without one of its members.
SomeOf(s) == CHOOSE x \in s : TRUE
SumStep(f, s, F) == IF s = {} THEN 0 ELSE f[SomeOf(s)] + F[s \ {SomeOf(s)}]

\* The sum, as the value that TLA+ chooses for its recursive definition.
LEMMA SumUnfolds ==
  ASSUME NEW f, NEW I, \E F : F = [s \in SUBSET I |-> SumStep(f, s, F)]
  PROVE  \E F : F = [s \in SUBSET I |-> SumStep(f, s, F)] /\ SumFunctionOnSet(f, I) = F[I]
<1> DEFINE the == CHOOSE F : F = [s \in SUBSET I |-> SumStep(f, s, F)]
<1>1. the = [s \in SUBSET I |-> SumStep(f, s, the)]
  OBVIOUS
<1>2. SumFunctionOnSet(f, I) = the[I]
  BY DEF SumFunctionOnSet, FoldFunctionOnSet, MapThenFoldSet, SumStep, SomeOf
<1> QED BY <1>1, <1>2

\* A sum of numbers is a number, and a sum of nothing is zero.
LEMMA SumOfNumbers ==
  ASSUME NEW I, IsFiniteSet(I), NEW f, \A i \in I : f[i] \in Nat
  PROVE  SumFunctionOnSet(f, I) \in Nat /\ (I = {} => SumFunctionOnSet(f, I) = 0)
<1> DEFINE S == SUBSET I
           R == PartOrder(I)
           G == [s \in S |-> [F \in [S -> Nat] |-> SumStep(f, s, F)]]
<1>1. ASSUME NEW s \in S, s # {}
      PROVE  /\ f[SomeOf(s)] \in Nat
             /\ s \ {SomeOf(s)} \in S /\ <<s \ {SomeOf(s)}, s>> \in R
  <2>1. SomeOf(s) \in s
    BY <1>1 DEF SomeOf
  <2> QED BY <2>1 DEF PartOrder
<1>2. ASSUME NEW s \in S, NEW F, s # {} => F[s \ {SomeOf(s)}] \in Nat
      PROVE  SumStep(f, s, F) \in Nat
  <2>1. CASE s = {}
    BY <2>1 DEF SumStep
  <2>2. CASE s # {}
    <3>1. PICK x \in Nat, y \in Nat : x = f[SomeOf(s)] /\ y = F[s \ {SomeOf(s)}]
      BY <1>1, <1>2, <2>2
    <3>2. SumStep(f, s, F) = x + y
      BY <2>2, <3>1 DEF SumStep
    <3> QED BY <3>2
  <2> QED BY <2>1, <2>2
<1>3. G \in [S -> [[S -> Nat] -> Nat]]
  <2>1. ASSUME NEW s \in S, NEW F \in [S -> Nat] PROVE SumStep(f, s, F) \in Nat
    <3>1. s # {} => F[s \ {SomeOf(s)}] \in Nat
      BY <1>1
    <3> QED BY <1>2, <3>1
  <2> QED BY <2>1
<1>4. LooksBack(G, R, S, Nat)
  <2>1. ASSUME NEW s \in S, NEW F \in [S -> Nat], NEW H \in [S -> Nat],
               \A r \in S : <<r, s>> \in R => F[r] = H[r]
        PROVE  G[s][F] = G[s][H]
    <3>1. SumStep(f, s, F) = SumStep(f, s, H)
      BY <1>1, <2>1 DEF SumStep
    <3> QED BY <3>1
  <2> QED BY <2>1 DEF LooksBack
<1>5. PICK F \in [S -> Nat] : \A s \in S : F[s] = G[s][F]
  <2>1. Recursive(G, R, S, Nat)
    BY <1>3, <1>4 DEF Recursive
  <2>2. WellOrders(R, S)
    BY PartsAreOrdered
  <2>3. Solvable(G, S, Nat)
    <3> HIDE DEF G, R, S
    <3> QED BY <2>1, <2>2, RecursionExists
  <2> QED BY <2>3 DEF Solvable
<1>6. F = [s \in S |-> SumStep(f, s, F)]
  <2>1. \A s \in S : F[s] = SumStep(f, s, F)
    BY <1>5
  <2> QED BY <2>1
<1>7. PICK H : H = [s \in S |-> SumStep(f, s, H)] /\ SumFunctionOnSet(f, I) = H[I]
  BY <1>6, SumUnfolds
<1>8. \A s \in S : H[s] = SumStep(f, s, H)
  BY <1>7
<1>9. \A s \in S : H[s] \in Nat
  <2> DEFINE T == {s \in S : H[s] \notin Nat}
  <2>1. SUFFICES ASSUME T # {} PROVE FALSE
    OBVIOUS
  <2>2. PICK s \in T : \A r \in T : <<r, s>> \notin R
    BY <2>1, PartsAreOrdered DEF WellOrders
  <2>3. s # {} => H[s \ {SomeOf(s)}] \in Nat
    BY <1>1, <2>2
  <2>4. SumStep(f, s, H) \in Nat
    <3> HIDE DEF G, R
    <3> QED BY <1>2, <2>2, <2>3
  <2> QED BY <1>8, <2>2, <2>4
<1>10. I = {} => H[I] = 0
  BY <1>8 DEF SumStep
<1> QED BY <1>7, <1>9, <1>10

\* Among positions there is one with the greatest number.
LEMMA GreatestOf ==
  ASSUME NEW n \in Nat, NEW I \in SUBSET (1..n), I # {}, NEW f, \A i \in I : f[i] \in Nat
  PROVE  \E i \in I : \A j \in I : f[j] <= f[i]
<1> DEFINE Upto(m) == I \cap 1..m
           T == {m \in Nat : Upto(m) # {} => \E i \in Upto(m) : \A j \in Upto(m) : f[j] <= f[i]}
<1>1. 0 \in T
  BY Upto(0) = {}
<1>2. ASSUME NEW m \in T PROVE m + 1 \in T
  <2>0. m \in Nat /\ Upto(m + 1) = Upto(m) \cup (I \cap {m + 1})
    <3>1. 1..(m + 1) = 1..m \cup {m + 1}
      OBVIOUS
    <3> QED BY <3>1
  <2>1. SUFFICES ASSUME Upto(m + 1) # {}
                 PROVE  \E i \in Upto(m + 1) : \A j \in Upto(m + 1) : f[j] <= f[i]
    BY <2>0
  <2>2. CASE m + 1 \notin I
    <3>1. Upto(m + 1) = Upto(m)
      BY <2>0, <2>2
    <3> HIDE DEF Upto
    <3> QED BY <2>1, <3>1
  <2>3. CASE m + 1 \in I /\ Upto(m) = {}
    <3>1. Upto(m + 1) = {m + 1} /\ f[m + 1] \in Nat
      BY <2>0, <2>3
    <3> QED BY <3>1
  <2>4. CASE m + 1 \in I /\ Upto(m) # {}
    <3>1. PICK i \in Upto(m) : \A j \in Upto(m) : f[j] <= f[i]
      BY <2>4
    <3>2. f[i] \in Nat /\ f[m + 1] \in Nat /\ \A j \in Upto(m) : f[j] \in Nat
      BY <2>4
    <3>3. i \in Upto(m + 1) /\ m + 1 \in Upto(m + 1)
          /\ \A j \in Upto(m + 1) : j \in Upto(m) \/ j = m + 1
      BY <2>0, <2>4
    <3> HIDE DEF Upto
    <3>4. CASE f[m + 1] <= f[i]
      BY <3>1, <3>3, <3>4
    <3>5. CASE f[i] <= f[m + 1]
      <4>1. ASSUME NEW j \in Upto(m) PROVE f[j] <= f[m + 1]
        <5>1. f[j] <= f[i] /\ f[j] \in Nat
          BY <3>1, <3>2
        <5> QED BY <3>2, <3>5, <5>1
      <4> QED BY <3>2, <3>3, <4>1
    <3> QED BY <3>2, <3>4, <3>5
  <2> QED BY <2>2, <2>3, <2>4
<1>3. n \in T
  <2>1. T = Nat
    <3>1. T \in SUBSET Nat
      OBVIOUS
    <3> HIDE DEF T
    <3> QED BY <1>1, <1>2, <3>1, Induction
  <2> QED BY <2>1
<1>4. Upto(n) = I
  OBVIOUS
<1> QED BY <1>3, <1>4

\* The last of some positions.
LEMMA MaxOfPositions ==
  ASSUME NEW n \in Nat, NEW I \in SUBSET (1..n), I # {}
  PROVE  Max(I) \in I /\ \A j \in I : j <= Max(I)
<1>1. \E i \in I : \A j \in I : i >= j
  <2>1. PICK i \in I : \A j \in I : j <= i
    BY EndPositions
  <2> QED BY <2>1
<1>2. Max(I) \in I /\ \A j \in I : Max(I) >= j
  BY <1>1 DEF Max
<1> QED BY <1>2

\* Prices are numbers and calls are kept with the number they cost.
Logged == [session : Sessions, agent : Agents, model : Models, cost : Nat]
Notices == [session : Sessions, agent : Agents, model : Models, cheaper : Models]
TokenTypes ==
  /\ DOMAIN prices \subseteq Models /\ \A m \in DOMAIN prices : prices[m] \in Nat
  /\ calls \in Seq(Logged)
  /\ notices \in Seq(Notices)

\* The positions of the calls.
LEMMA LogTyped ==
  ASSUME TokenTypes
  PROVE  /\ Len(calls) \in Nat /\ DOMAIN calls = 1..Len(calls)
         /\ \A i \in DOMAIN calls : calls[i] \in Logged
BY ElementOfSeq, LenProperties DEF TokenTypes

\* The cost of an agent among some calls is a number, and nothing when it has none there.
LEMMA CostsAreNumbers ==
  ASSUME TokenTypes, NEW I \in SUBSET (DOMAIN calls), NEW agent
  PROVE  /\ CostAmong(I, agent) \in Nat
         /\ (\A i \in I : calls[i].agent # agent) => CostAmong(I, agent) = 0
<1> DEFINE f == [i \in DOMAIN calls |-> calls[i].cost]
           J == {i \in I : calls[i].agent = agent}
<1>1. J \in SUBSET (1..Len(calls)) /\ Len(calls) \in Nat
  BY LogTyped
<1>2. IsFiniteSet(J)
  BY <1>1, PositionsFinite
<1>3. \A i \in J : f[i] \in Nat
  BY LogTyped DEF Logged
<1>4. SumFunctionOnSet(f, J) \in Nat /\ (J = {} => SumFunctionOnSet(f, J) = 0)
  <2> HIDE DEF f, J
  <2> QED BY ONLY <1>2, <1>3, SumOfNumbers
<1> QED BY <1>4 DEF CostAmong

\* What a query returns are calls that it matches: all of them within the limit, and the
\* newest one at least.
LEMMA QueryReturns ==
  ASSUME TokenTypes, NEW s, NEW agents
  PROVE  /\ Query(s, agents) \subseteq CallsOf(s, agents)
         /\ CallsOf(s, agents) \subseteq 1..Len(calls)
         /\ CallsOf(s, agents) # {} => Query(s, agents) # {}
         /\ Cardinality(CallsOf(s, agents)) <= QueryLimit => Query(s, agents) = CallsOf(s, agents)
<1> DEFINE M == CallsOf(s, agents)
<1>1. Len(calls) \in Nat /\ M \in SUBSET (1..Len(calls)) /\ Query(s, agents) \subseteq M
  BY LogTyped DEF CallsOf, Query
<1>2. ASSUME M # {} PROVE Query(s, agents) # {}
  <2>1. PICK i \in M : \A j \in M : j <= i
    BY <1>1, <1>2, EndPositions
  <2>2. {j \in M : j >= i} = {i}
    <3>1. M \subseteq Nat
      BY <1>1
    <3>2. i >= i /\ \A j \in M : j >= i => j = i
      BY <2>1, <3>1
    <3> QED BY <3>2
  <2>3. Cardinality({i}) = 1
    BY FS_Singleton
  <2>4. Cardinality({j \in M : j >= i}) <= QueryLimit
    BY <2>2, <2>3, TokenConstants
  <2> QED BY <2>4 DEF Query
<1>3. ASSUME Cardinality(M) <= QueryLimit PROVE Query(s, agents) = M
  <2>1. ASSUME NEW i \in M PROVE Cardinality({j \in M : j >= i}) <= QueryLimit
    <3>1. IsFiniteSet(M) /\ Cardinality(M) \in Nat
      BY <1>1, PositionsFinite
    <3>2. /\ Cardinality({j \in M : j >= i}) <= Cardinality(M)
          /\ Cardinality({j \in M : j >= i}) \in Nat
      BY <3>1, FS_Subset, FS_CardinalityType
    <3> QED BY <1>3, <3>1, <3>2, TokenConstants
  <2> QED BY <2>1 DEF Query
<1> QED BY <1>1, <1>2, <1>3

\* The dearest agent of the calls that a query returned: one that called, and no other
\* agent has cost more among them.
LEMMA NamedIsTheDearest ==
  ASSUME TokenTypes, NEW s, Query(s, Agents) # {}
  PROVE  /\ \E i \in Query(s, Agents) : calls[i].agent = HighestCostAgent(s)
         /\ \A agent : CostAmong(Query(s, Agents), agent)
                         <= CostAmong(Query(s, Agents), HighestCostAgent(s))
<1> DEFINE returned == Query(s, Agents)
           f == [i \in returned |-> CostAmong(returned, calls[i].agent)]
           dearest == {i \in returned : \A j \in returned :
                         CostAmong(returned, calls[j].agent) <= CostAmong(returned, calls[i].agent)}
<1>1. /\ Len(calls) \in Nat /\ returned \in SUBSET (1..Len(calls))
      /\ returned \in SUBSET (DOMAIN calls)
  BY LogTyped, QueryReturns
<1>2. \A agent : CostAmong(returned, agent) \in Nat
  BY <1>1, CostsAreNumbers
<1>3. PICK k \in returned : k \in dearest
  <2>1. \A i \in returned : f[i] \in Nat
    BY <1>2
  <2>2. PICK k \in returned : \A j \in returned : f[j] <= f[k]
    <3> HIDE DEF f, returned
    <3> QED BY <1>1, <2>1, GreatestOf DEF returned
  <2>3. \A i \in returned : f[i] = CostAmong(returned, calls[i].agent)
    OBVIOUS
  <2> HIDE DEF f
  <2> QED BY <2>2, <2>3
<1>4. Max(dearest) \in dearest
  <2>1. dearest \in SUBSET (1..Len(calls)) /\ dearest # {}
    BY <1>1, <1>3
  <2> HIDE DEF dearest
  <2> QED BY <1>1, <2>1, MaxOfPositions
<1>5. HighestCostAgent(s) = calls[Max(dearest)].agent
  BY DEF HighestCostAgent
<1>6. PICK i \in returned : /\ calls[i].agent = HighestCostAgent(s)
                            /\ \A j \in returned : CostAmong(returned, calls[j].agent)
                                                     <= CostAmong(returned, calls[i].agent)
  <2>1. PICK i : i = Max(dearest)
    OBVIOUS
  <2> QED BY <1>4, <1>5, <2>1
<1>7. ASSUME NEW agent PROVE CostAmong(returned, agent) <= CostAmong(returned, HighestCostAgent(s))
  <2> HIDE DEF returned
  <2>1. CASE \E j \in returned : calls[j].agent = agent
    BY <1>6, <2>1
  <2>2. CASE \A j \in returned : calls[j].agent # agent
    <3>1. CostAmong(returned, agent) = 0
      BY <1>1, <2>2, CostsAreNumbers
    <3> QED BY <1>2, <3>1
  <2> QED BY <2>1, <2>2
<1> QED BY <1>6, <1>7

\* What an agent has cost, when the query of the session returns all its calls.
LEMMA CostWithinLimit ==
  ASSUME TokenTypes, NEW s, NEW agent \in Agents,
         Cardinality(CallsOf(s, Agents)) <= QueryLimit
  PROVE  CostOf(s, agent) = CostAmong(Query(s, Agents), agent)
<1>1. Len(calls) \in Nat /\ CallsOf(s, Agents) \in SUBSET (1..Len(calls))
  BY LogTyped, QueryReturns
<1>2. CallsOf(s, {agent}) = {i \in CallsOf(s, Agents) : calls[i].agent = agent}
  BY DEF CallsOf
<1>3. Cardinality(CallsOf(s, {agent})) <= QueryLimit
  <2>1. IsFiniteSet(CallsOf(s, Agents)) /\ Cardinality(CallsOf(s, Agents)) \in Nat
    BY <1>1, PositionsFinite
  <2>2. CallsOf(s, {agent}) \in SUBSET CallsOf(s, Agents)
    BY <1>2
  <2>3. /\ Cardinality(CallsOf(s, {agent})) <= Cardinality(CallsOf(s, Agents))
        /\ Cardinality(CallsOf(s, {agent})) \in Nat
    BY <2>1, <2>2, FS_Subset, FS_CardinalityType
  <2> QED BY <2>1, <2>3, TokenConstants
<1>4. Query(s, {agent}) = CallsOf(s, {agent}) /\ Query(s, Agents) = CallsOf(s, Agents)
  BY <1>3, QueryReturns
<1>5. {i \in CallsOf(s, {agent}) : calls[i].agent = agent}
        = {i \in CallsOf(s, Agents) : calls[i].agent = agent}
  BY <1>2
<1> QED BY <1>4, <1>5 DEF CostOf, CostAmong

\* The cheaper model costs less than the model, and no other does that costs less than it.
LEMMA CheaperIsTheCheapest ==
  ASSUME TokenTypes, NEW model \in Models
  PROVE  /\ CheaperModel(model) \in Models
         /\ model \in DOMAIN prices =>
              \A m \in DOMAIN prices : \/ prices[CheaperModel(model)] <= prices[m]
                                       \/ prices[m] >= prices[model]
<1> DEFINE cheaper == {m \in DOMAIN prices : model \in DOMAIN prices /\ prices[m] < prices[model]}
<1>1. DOMAIN prices \subseteq Models /\ \A m \in DOMAIN prices : prices[m] \in Nat
  BY DEF TokenTypes
<1>2. CASE cheaper = {}
  <2>1. CheaperModel(model) = model
    BY <1>2 DEF CheaperModel
  <2>2. ASSUME model \in DOMAIN prices, NEW m \in DOMAIN prices PROVE prices[m] >= prices[model]
    <3>1. ~(prices[m] < prices[model])
      BY <1>2, <2>2
    <3> QED BY <1>1, <2>2, <3>1
  <2> QED BY <2>1, <2>2
<1>3. CASE cheaper # {}
  <2> DEFINE costs == {prices[m] : m \in cheaper}
  <2>1. costs \in SUBSET Nat /\ costs # {}
    BY <1>1, <1>3
  <2>2. PICK k \in costs : \A l \in costs : k <= l
    BY <2>1, LeastNumber
  <2>3. \E m \in cheaper : \A n \in cheaper : prices[m] <= prices[n]
    BY <2>2
  <2>4. /\ CheaperModel(model) \in cheaper
        /\ \A n \in cheaper : prices[CheaperModel(model)] <= prices[n]
    <3>1. CheaperModel(model) = CHOOSE m \in cheaper : \A n \in cheaper : prices[m] <= prices[n]
      BY <1>3 DEF CheaperModel
    <3> HIDE DEF cheaper
    <3> QED BY <2>3, <3>1
  <2>5. ASSUME model \in DOMAIN prices, NEW m \in DOMAIN prices
        PROVE  prices[CheaperModel(model)] <= prices[m] \/ prices[m] >= prices[model]
    <3>1. CASE m \in cheaper
      BY <2>4, <3>1
    <3>2. CASE m \notin cheaper
      <4>1. ~(prices[m] < prices[model])
        BY <2>5, <3>2
      <4> QED BY <1>1, <2>5, <4>1
    <3> QED BY <3>1, <3>2
  <2> QED BY <1>1, <2>4, <2>5
<1> QED BY <1>2, <1>3

-----------------------------------------------------------------------------
TokenSpec == TokenInit /\ [][TokenNext]_tokenVars

\* The log is empty at the beginning.
LEMMA TokenTypesInit == TokenInit => TokenTypes
BY DEF TokenInit, TokenTypes, NoPrices

\* A warning is about calls of the session that are there.
LEMMA WarnOfCalls ==
  ASSUME TokenTypes, NEW s \in Sessions, NEW model \in Models, Warn(s, model)
  PROVE  Query(s, Agents) # {} /\ HighestCostAgent(s) \in Agents
<1>1. Query(s, Agents) # {}
  <2>1. PICK i \in DOMAIN calls : calls[i].session = s
    BY DEF Warn
  <2>2. i \in CallsOf(s, Agents)
    BY <2>1, LogTyped DEF CallsOf, Logged
  <2> QED BY <2>2, QueryReturns
<1>2. PICK i \in Query(s, Agents) : calls[i].agent = HighestCostAgent(s)
  BY <1>1, NamedIsTheDearest
<1>3. calls[i].agent \in Agents
  BY <1>2, QueryReturns DEF CallsOf
<1> QED BY <1>1, <1>2, <1>3

\* What WarningNamesTheDearest says of a step.
WarnedRightly ==
  notices' # notices =>
    LET n == notices'[Len(notices')]
        returned == Query(n.session, Agents)
    IN /\ \E i \in returned : calls[i].agent = n.agent
       /\ \A agent \in Agents :
            /\ CostAmong(returned, agent) <= CostAmong(returned, n.agent)
            /\ Cardinality(CallsOf(n.session, Agents)) <= QueryLimit =>
                 CostOf(n.session, agent) <= CostOf(n.session, n.agent)
       /\ \A m \in DOMAIN prices : n.model \in DOMAIN prices =>
            prices[n.cheaper] <= prices[m] \/ prices[m] >= prices[n.model]

\* Every step keeps the types, and a warning names the dearest agent and a cheaper model.
LEMMA TokenStep == TokenTypes /\ [TokenNext]_tokenVars => TokenTypes' /\ WarnedRightly
<1> SUFFICES ASSUME TokenTypes, [TokenNext]_tokenVars PROVE TokenTypes' /\ WarnedRightly
  OBVIOUS
<1> USE DEF TokenTypes
<1>1. ASSUME NEW cache \in Catalogs \cup {Unusable}, NEW default \in Catalogs \cup {Unusable},
             LoadCatalog(cache, default)
      PROVE  TokenTypes' /\ WarnedRightly
  <2>1. prices' = prices \/ (prices' \in Catalogs)
    BY <1>1 DEF LoadCatalog
  <2> QED BY <1>1, <2>1, TokenConstants DEF LoadCatalog, WarnedRightly
<1>2. ASSUME NEW s \in Sessions, NEW agent \in Agents, NEW model \in Models,
             LogApiCall(s, agent, model)
      PROVE  TokenTypes' /\ WarnedRightly
  <2>1. Cost(model) \in Nat
    BY DEF Cost
  <2>2. [session |-> s, agent |-> agent, model |-> model, cost |-> Cost(model)] \in Logged
    BY <2>1 DEF Logged
  <2>3. calls' \in Seq(Logged)
    BY <1>2, <2>2, AppendProperties DEF LogApiCall
  <2> QED BY <1>2, <2>3 DEF LogApiCall, WarnedRightly
<1>3. CASE ResetSessionTotal
  BY <1>3 DEF ResetSessionTotal, WarnedRightly
<1>4. ASSUME NEW s \in Sessions, NEW model \in Models, Warn(s, model)
      PROVE  TokenTypes' /\ WarnedRightly
  <2> DEFINE given == [session |-> s, agent |-> HighestCostAgent(s), model |-> model,
                       cheaper |-> CheaperModel(model)]
  <2>1. Query(s, Agents) # {} /\ HighestCostAgent(s) \in Agents
    BY <1>4, WarnOfCalls
  <2>2. given \in Notices
    BY <2>1, CheaperIsTheCheapest DEF Notices
  <2>3. notices' = Append(notices, given)
    BY <1>4 DEF Warn
  <2>4. notices' \in Seq(Notices) /\ notices'[Len(notices')] = given
    <3> HIDE DEF given
    <3> QED BY <2>2, <2>3, AppendProperties
  <2>5. TokenTypes'
    BY <1>4, <2>4 DEF Warn
  <2>6. ASSUME NEW agent \in Agents, Cardinality(CallsOf(s, Agents)) <= QueryLimit
        PROVE  CostOf(s, agent) <= CostOf(s, HighestCostAgent(s))
    BY <2>1, <2>6, CostWithinLimit, NamedIsTheDearest
  <2>7. WarnedRightly
    <3> HIDE DEF TokenTypes
    <3> QED BY <2>1, <2>4, <2>6, NamedIsTheDearest, CheaperIsTheCheapest DEF WarnedRightly
  <2> QED BY <2>5, <2>7
<1>5. CASE UNCHANGED tokenVars
  BY <1>5 DEF tokenVars, WarnedRightly
<1> QED BY <1>1, <1>2, <1>3, <1>4, <1>5 DEF TokenNext

\* A warning names an agent of the session that no other agent has cost more than, and the
\* cheapest model when one is cheaper.
THEOREM WarningsNameTheDearest == TokenSpec => WarningNamesTheDearest
<1>1. TokenSpec => []TokenTypes
  BY TokenTypesInit, TokenStep, PTL DEF TokenSpec
<1>2. TokenTypes /\ [TokenNext]_tokenVars => [WarnedRightly]_tokenVars
  BY TokenStep
<1>3. TokenSpec => [][WarnedRightly]_tokenVars
  BY <1>1, <1>2, PTL DEF TokenSpec
<1> QED BY <1>3, PTL DEF WarningNamesTheDearest, WarnedRightly
=============================================================================
