------------------------------ MODULE Variables ------------------------------
(***************************************************************************)
(* The variables of a test (internal/interpolate/interpolate.go):          *)
(* ResolveVariables sorts them by the references that findVarDeps sees,    *)
(* resolves each in that order in a context that holds the templates of    *)
(* those not yet resolved, and steps then read the result.                 *)
(*                                                                         *)
(* A value is the set of evaluations its text embeds.  An evaluation of a  *)
(* template is known by the reading it belongs to (0 for the resolution,   *)
(* the number of the reading for a step) and the path of variables through *)
(* which it was reached: evaluations that differ may differ in what they   *)
(* drew from $uuid(), $random() or $timestamp().                           *)
(***************************************************************************)
EXTENDS Integers, Sequences, FiniteSets

CONSTANTS
  Names,     \* the names of the variables
  Blocks,    \* the `variables' blocks of the tests that are considered
  Depth,     \* maxVarDepth
  MaxReads   \* bound on the number of readings by steps

\* References go by where they stand: `bare' as {{x}}, `braced' as {{x}} among
\* the arguments of a built-in, `named' as an argument that the built-in itself
\* looks up ($default(x, y), $int(x)).  `objects' are the variables that are not
\* strings: their references stand in their fields.
Block == [bare : [Names -> SUBSET Names], braced : [Names -> SUBSET Names],
          named : [Names -> SUBSET Names], objects : SUBSET Names]

Path == UNION {[1..n -> Names] : n \in 1..(Depth + 1)}
Evaluation == (0..MaxReads) \X Path
Value == SUBSET Evaluation

\* The text of a variable still holds expressions: it has no value yet.
Raw == {}

ASSUME BlocksAssumption ==
  /\ IsFiniteSet(Names)
  /\ Blocks \subseteq Block
  /\ Depth \in Nat /\ Cardinality(Names) <= Depth
  /\ MaxReads \in Nat

VARIABLES
  block,    \* the block of this test
  phase,    \* where the preparation of the test is
  degree,   \* nodeInDegree
  queue,    \* queue
  order,    \* order
  next,     \* the position in the loop over `order'
  work,     \* workCtx.Variables, and the variables of the test afterwards
  seen,     \* seen[v]: the values of v that steps have read
  reads     \* the number of readings

sortVars == <<degree, queue, order>>
vars == <<block, phase, degree, queue, order, next, work, seen, reads>>

\* The nodes that topoSort has put in order.
Ordered == {order[i] : i \in DOMAIN order}

-----------------------------------------------------------------------------
(* The dependency graph and its sort. *)

\* Faulty variant of Deps: the edges go the other way.
Dependents(v) == {w \in Names \ block.objects : v \in block.bare[w]}

\* findVarDeps: what the built-ins refer to is not a dependency, and a variable
\* that is not a string has none.
Deps(v) == IF v \in block.objects THEN {} ELSE block.bare[v]

\* The orders in which Go may range over a map that has the keys S.
Arrangements(S) ==
  {s \in [1..Cardinality(S) -> S] : \A i, j \in DOMAIN s : s[i] = s[j] => i = j}

Init ==
  /\ block \in Blocks
  /\ phase = "sorting"
  /\ degree = [v \in Names |-> Cardinality(Deps(v))]
  /\ queue \in Arrangements({v \in Names : Deps(v) = {}})
  /\ order = << >>
  /\ next = 1
  /\ work = [v \in Names |-> Raw]
  /\ seen = [v \in Names |-> {}]
  /\ reads = 0

\* The nodes whose last open dependency is the head of the queue.
Freed == {v \in Names : Head(queue) \in Deps(v) /\ degree[v] = 1}

\* Faulty variant of Pop: a node is queued when any of its dependencies is done.
PopEager ==
  /\ phase = "sorting" /\ queue # << >>
  /\ order' = Append(order, Head(queue))
  /\ degree' = [v \in Names |->
                  IF Head(queue) \in Deps(v) THEN degree[v] - 1 ELSE degree[v]]
  /\ \E s \in Arrangements({v \in Names : Head(queue) \in Deps(v) /\ degree[v] > 0
                                         /\ degree[v] = Cardinality(Deps(v))}) :
       queue' = Tail(queue) \o s
  /\ UNCHANGED <<block, phase, next, work, seen, reads>>

\* Faulty variant of Pop: every degree is lowered, not only those of dependents.
PopAll ==
  /\ phase = "sorting" /\ queue # << >>
  /\ order' = Append(order, Head(queue))
  /\ degree' = [v \in Names |-> degree[v] - 1]
  /\ \E s \in Arrangements(Freed) : queue' = Tail(queue) \o s
  /\ UNCHANGED <<block, phase, next, work, seen, reads>>

\* The head of the queue comes next in the order, and its dependents are freed.
Pop ==
  /\ phase = "sorting" /\ queue # << >>
  /\ order' = Append(order, Head(queue))
  /\ degree' = [v \in Names |->
                  IF Head(queue) \in Deps(v) THEN degree[v] - 1 ELSE degree[v]]
  /\ \E s \in Arrangements(Freed) : queue' = Tail(queue) \o s
  /\ UNCHANGED <<block, phase, next, work, seen, reads>>

\* Faulty variant of Sorted: the order is used as far as it goes.
SortedAnyway ==
  /\ phase = "sorting" /\ queue = << >>
  /\ phase' = "resolving"
  /\ UNCHANGED <<block, sortVars, next, work, seen, reads>>

\* The queue is empty: nodes that were never freed are on a cycle or behind one.
Sorted ==
  /\ phase = "sorting" /\ queue = << >>
  /\ phase' = IF Len(order) = Cardinality(Names) THEN "resolving" ELSE "refused"
  /\ UNCHANGED <<block, sortVars, next, work, seen, reads>>

-----------------------------------------------------------------------------
(* Resolving one variable. *)

Mentions(v) == block.bare[v] \cup block.braced[v] \cup block.named[v]

\* Faulty variant of Expansions: a value is scanned again, as the template it was.
ExpansionsAgain(v) ==
  {p \in Path : p[1] = v /\ \A i \in 1..(Len(p) - 1) : p[i + 1] \in Mentions(p[i])}

\* The paths along which the template of v is expanded: a variable whose text
\* still holds expressions is expanded in its turn.
Expansions(v) ==
  {p \in Path : /\ p[1] = v
                /\ \A i \in 1..(Len(p) - 1) :
                     p[i + 1] \in Mentions(p[i]) /\ work[p[i + 1]] = Raw}

\* What a reading of the template of v embeds: the evaluations made for it, and
\* those of the values it takes from variables that are resolved.
Reading(v, number) ==
  LET taken == UNION {Mentions(p[Len(p)]) : p \in Expansions(v)}
  IN ({number} \X Expansions(v)) \cup UNION {work[x] : x \in taken}

\* The expansion comes round to a variable it is expanding.  The depth is counted
\* through {{x}}, wherever it stands, and starts from 0 again at an argument that
\* a built-in looks up.
Round(p, i, j) == i < j /\ p[i] = p[j]
Unfinished(v) == \E p \in Expansions(v) : \E i, j \in 1..Len(p) : Round(p, i, j)
Overflows(v) ==
  \E p \in Expansions(v) : \E i, j \in 1..Len(p) :
    Round(p, i, j) /\ \E k \in i..(j - 1) : p[k + 1] \in block.named[p[k]]

Current == order[next]

\* An object is kept as it is; a string is interpolated.  At the depth limit the
\* template is left in the text, which a later reading expands again.
Resolve ==
  /\ phase = "resolving" /\ next <= Len(order)
  /\ Current \in block.objects \/ ~Overflows(Current)
  /\ next' = next + 1
  /\ work' = [work EXCEPT ![Current] =
                IF Current \in block.objects \/ Unfinished(Current) THEN Raw
                ELSE Reading(Current, 0)]
  /\ UNCHANGED <<block, phase, sortVars, seen, reads>>

\* A built-in reports an error.
ResolveFails ==
  /\ phase = "resolving" /\ next <= Len(order) /\ Current \notin block.objects
  /\ phase' = "failed"
  /\ UNCHANGED <<block, sortVars, next, work, seen, reads>>

\* The recursion has no end: the stack of the goroutine is exhausted, which ends
\* the process.
ResolveOverflows ==
  /\ phase = "resolving" /\ next <= Len(order)
  /\ Current \notin block.objects /\ Overflows(Current)
  /\ phase' = "crashed"
  /\ UNCHANGED <<block, sortVars, next, work, seen, reads>>

Resolved ==
  /\ phase = "resolving" /\ next > Len(order)
  /\ phase' = "running"
  /\ UNCHANGED <<block, sortVars, next, work, seen, reads>>

-----------------------------------------------------------------------------
(* Steps of the test read the variables (a field of an object). *)

Read(v) ==
  /\ phase = "running" /\ reads < MaxReads
  /\ reads' = reads + 1
  /\ IF work[v] = Raw /\ Overflows(v)
     THEN phase' = "crashed" /\ UNCHANGED seen
     ELSE /\ seen' = [seen EXCEPT ![v] =
                        @ \cup {IF work[v] = Raw THEN Reading(v, reads + 1) ELSE work[v]}]
          /\ UNCHANGED phase
  /\ UNCHANGED <<block, sortVars, next, work>>

Ended == phase \in {"refused", "failed", "crashed"} \/ (phase = "running" /\ reads = MaxReads)

Next ==
  \/ Pop \/ Sorted
  \/ Resolve \/ ResolveFails \/ ResolveOverflows \/ Resolved
  \/ \E v \in Names : Read(v)
  \/ (Ended /\ UNCHANGED vars)

Spec == Init /\ [][Next]_vars

-----------------------------------------------------------------------------
TypeOK ==
  /\ block \in Block
  /\ phase \in {"sorting", "refused", "resolving", "failed", "crashed", "running"}
  /\ degree \in [Names -> Nat]
  /\ queue \in Seq(Names) /\ order \in Seq(Names)
  /\ next \in Nat \ {0}
  /\ work \in [Names -> Value]
  /\ seen \in [Names -> SUBSET Value]
  /\ reads \in 0..MaxReads

\* topoSort returns an order, whatever order Go gives the maps: a variable comes
\* after every variable that findVarDeps found in it.
DependenciesFirst ==
  \A i \in DOMAIN order : Deps(order[i]) \subseteq {order[j] : j \in 1..(i - 1)}

\* Each of these variables depends on one of them: no order of them exists.
Circular(S) == S # {} /\ \A v \in S : Deps(v) \cap S # {}

\* A block is refused exactly when the references that findVarDeps sees have a
\* cycle: no block without one is refused, and none with one is resolved.
RefusedExactlyCycles ==
  /\ phase = "refused" => \E S \in SUBSET Names : Circular(S)
  /\ phase \in {"resolving", "failed", "crashed", "running"} =>
       \A S \in SUBSET Names : ~Circular(S)

\* A variable that refers to another one in plain text embeds the value that the
\* other one has: a generated id is the same in both.
BareReferencesAgree ==
  \A v \in Names \ block.objects : \A w \in block.bare[v] \ block.objects :
    work[v] # Raw => work[w] \subseteq work[v]

\* Variables whose references, and those of all they lead to, stand in plain
\* text of strings.
Plain == UNION {S \in SUBSET (Names \ block.objects) :
                  \A v \in S : /\ block.braced[v] = {} /\ block.named[v] = {}
                               /\ block.bare[v] \subseteq S}

\* The variables that the text of v leads to, v included.
Reached(v) == {w \in Names : \A S \in SUBSET Names :
                 (v \in S /\ \A x \in S : Mentions(x) \subseteq S) => w \in S}

PlainValue(v) == {<<0, <<w>>>> : w \in Reached(v)}

\* The value of a plain variable is one evaluation of each template it leads to,
\* made when the test began, whatever order Go gives the maps: every step of the
\* test reads that value.
PlainVariablesFixed ==
  \A v \in Plain : work[v] \in {Raw, PlainValue(v)} /\ seen[v] \subseteq {PlainValue(v)}

\* docs/sections/yaml-test.md:171: "The runner detects circular references and
\* throws an error": it does not go on to end the process.
CircularDetected == phase # "crashed"
=============================================================================
