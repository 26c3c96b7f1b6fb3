------------------------------ MODULE RunOrder ------------------------------
(***************************************************************************)
(* What topoSortTests hands over to the rest of Orchestrator.Run           *)
(* (internal/executor/orchestrator.go): an order of names and the list of  *)
(* dependencies of each.  Selection ends with it, Orchestrator begins with *)
(* it.                                                                     *)
(***************************************************************************)
EXTENDS Integers, Sequences

\* A run order holds every test of the suite exactly once.
IsRunOrder(order, tests) ==
  /\ order \in Seq(tests)
  /\ \A i, j \in DOMAIN order : order[i] = order[j] => i = j
  /\ \A t \in tests : \E i \in DOMAIN order : order[i] = t

\* A dependency that is part of the suite comes earlier.
IsTopological(order, depends) ==
  \A i, j \in DOMAIN order : \A k \in DOMAIN depends[order[i]] :
    depends[order[i]][k] = order[j] => j < i
=============================================================================
