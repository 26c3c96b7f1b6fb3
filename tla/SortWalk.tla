------------------------------ MODULE SortWalk ------------------------------
(***************************************************************************)
(* topoSortTests (internal/executor/orchestrator.go) call by call: the     *)
(* calls of `visit' that have not returned are the frames of a stack, each *)
(* with the definition it is for and the dependency it looks at next.      *)
(* TopoSort has the same walk as one recursive operator.                   *)
(*                                                                         *)
(* `tests' is the slice that is sorted, as a function from the positions   *)
(* of the definitions; a later definition overwrites the index entry of an *)
(* earlier one of the same name.  Names are marked, not definitions, and   *)
(* before their dependencies are looked at; a cycle is not noticed.        *)
(***************************************************************************)
EXTENDS Integers, Sequences, SequencesExt

VARIABLES
  tests,    \* tests[i]: the definition at position i
  left,     \* the positions that the loop has not reached yet
  visited,  \* the names that are marked
  frames,   \* the calls of visit that have not returned, the innermost last
  sorted    \* the result, as far as it goes

walkVars == <<left, visited, frames, sorted>>

NamesOf(defs) == {defs[i].name : i \in DOMAIN defs}

WInit ==
  /\ tests = << >>
  /\ left = {}
  /\ visited = {}
  /\ frames = << >>
  /\ sorted = << >>

\* What the walk begins with.
Begin ==
  /\ left' = DOMAIN tests
  /\ visited' = {}
  /\ frames' = << >>
  /\ sorted' = << >>

Top == frames[Len(frames)]
Outer == SubSeq(frames, 1, Len(frames) - 1)

\* A call of visit from the given frames; it returns at once when td is marked.
Visit(td, callers) ==
  IF td.name \in visited
  THEN frames' = callers /\ UNCHANGED visited
  ELSE /\ frames' = Append(callers, [td |-> td, next |-> 1])
       /\ visited' = visited \cup {td.name}

\* The loop over the definitions.
VisitTest ==
  /\ frames = << >>
  /\ \E i \in left :
       /\ \A j \in left : i <= j
       /\ left' = left \ {i}
       /\ Visit(tests[i], << >>)
  /\ UNCHANGED sorted

\* index[n] is the last definition of that name.
IsIndexed(n, i) == tests[i].name = n /\ \A j \in DOMAIN tests : tests[j].name = n => j <= i

\* The loop over the dependencies of a definition; an unknown name is passed over.
VisitDependency ==
  /\ frames # << >>
  /\ Top.next \in DOMAIN Top.td.depends
  /\ LET d == Top.td.depends[Top.next]
         callers == Append(Outer, [Top EXCEPT !.next = @ + 1])
     IN IF d \in NamesOf(tests)
        THEN \E i \in DOMAIN tests : IsIndexed(d, i) /\ Visit(tests[i], callers)
        ELSE frames' = callers /\ UNCHANGED visited
  /\ UNCHANGED <<left, sorted>>

\* Faulty variant of Return: a definition is placed although it depends on another.
ReturnFirst ==
  /\ frames # << >>
  /\ Top.next = 1 \/ Top.next \notin DOMAIN Top.td.depends
  /\ sorted' = IF Top.td.name \in NamesOf(sorted) THEN sorted ELSE Append(sorted, Top.td)
  /\ frames' = IF Top.next \in DOMAIN Top.td.depends
               THEN Append(Outer, [Top EXCEPT !.next = @ + 1]) ELSE Outer
  /\ UNCHANGED <<left, visited>>

\* The definition is appended, and the call returns.
Return ==
  /\ frames # << >>
  /\ Top.next \notin DOMAIN Top.td.depends
  /\ sorted' = Append(sorted, Top.td)
  /\ frames' = Outer
  /\ UNCHANGED <<left, visited>>

Walk == (VisitTest \/ VisitDependency \/ Return) /\ UNCHANGED tests

IsWalked == left = {} /\ frames = << >>

-----------------------------------------------------------------------------
(* What the walk promises *)

\* n depends on m according to some definition of n.
DependsOn(n, m) ==
  \E i \in DOMAIN tests : tests[i].name = n /\ m \in ToSet(tests[i].depends)

\* In every set of names some name depends on no name of the set.
Acyclic ==
  \A S \in (SUBSET NamesOf(tests)) \ {{}} :
    \E n \in S : \A m \in S : ~DependsOn(n, m)

\* Each position is earlier than those of the definitions that depend on it.
Respects(s) ==
  \A i, j \in DOMAIN s : s[j].name \in ToSet(s[i].depends) => j < i
=============================================================================
