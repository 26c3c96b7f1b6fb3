--------------------------- MODULE MCOrchestrator ---------------------------
(* Small suites for Orchestrator, put in the order TopoSort gives them.     *)
EXTENDS Orchestrator

TS == INSTANCE TopoSort

\* The files of the suite, in the order they are found.
Files == <<"a", "b", "c">>

MCTest == {Files[i] : i \in DOMAIN Files}
MCName == MCTest \cup {"ghost"}

\* The run of the files with the given sets of dependencies.
SuiteOf(needs, skip, parallel, bail) ==
  LET depends == [t \in MCTest |-> TS!SetToSeq(needs[t])]
      sorted  == TS!TopoSortTests([i \in DOMAIN Files |->
                   [name |-> Files[i], depends |-> depends[Files[i]]]])
  IN [depends |-> depends, skip |-> skip, parallel |-> parallel, bail |-> bail,
      order |-> [i \in DOMAIN sorted |-> sorted[i].name]]

Graphs == [MCTest -> SUBSET MCTest]

\* Every set of tests has one that depends on none of the set.
IsDag(g) == \A S \in (SUBSET MCTest) \ {{}} : \E t \in S : g[t] \cap S = {}

Dags == {g \in Graphs : IsDag(g)}

\* Every acyclic suite, on one slot and on two; those in which a test is
\* marked skip, or depends on a name that no file has.
MCAcyclic ==
  {SuiteOf(g, {}, p, b) : g \in Dags, p \in {0, 2}, b \in BOOLEAN}
    \cup {SuiteOf(g, {"a"}, 2, FALSE) : g \in Dags}
    \cup {SuiteOf([g EXCEPT !["b"] = @ \cup {"ghost"}], {}, 2, TRUE) : g \in Dags}

\* Every suite with a cycle, self-dependencies included.
MCCyclic == {SuiteOf(g, {}, 2, FALSE) : g \in Graphs \ Dags}

MCSuites == MCAcyclic \cup MCCyclic
=============================================================================
