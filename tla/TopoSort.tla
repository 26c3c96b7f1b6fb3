------------------------------ MODULE TopoSort ------------------------------
(***************************************************************************)
(* topoSortTests (internal/executor/orchestrator.go): a depth-first walk   *)
(* over the given definitions that appends a definition after those it     *)
(* depends on.  A definition is a record with a name and a `depends' list  *)
(* of names; two files may give the same name.  The walk marks NAMES as    *)
(* visited, before it looks at the dependencies, and never reports a cycle.*)
(***************************************************************************)
EXTENDS Integers, Sequences, SequencesExt

NamesOf(tests) == {tests[i].name : i \in DOMAIN tests}

\* index[n]: a later definition of the same name overwrites an earlier one.
Index(tests, n) ==
  tests[CHOOSE i \in DOMAIN tests :
          /\ tests[i].name = n
          /\ \A j \in DOMAIN tests : tests[j].name = n => j <= i]

\* The closure `visit', with the variables it writes in the record acc.
RECURSIVE Visit(_, _, _)
Visit(tests, td, acc) ==
  IF td.name \in acc.visited THEN acc
  ELSE LET VisitDependency(a, d) ==
             IF d \in NamesOf(tests) THEN Visit(tests, Index(tests, d), a) ELSE a
           entered == [acc EXCEPT !.visited = @ \cup {td.name}]
           left == FoldLeft(VisitDependency, entered, td.depends)
       IN [left EXCEPT !.sorted = Append(@, td)]

TopoSortTests(tests) ==
  FoldLeft(LAMBDA acc, td : Visit(tests, td, acc),
           [visited |-> {}, sorted |-> << >>], tests).sorted
=============================================================================
