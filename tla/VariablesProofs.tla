--------------------------- MODULE VariablesProofs ---------------------------
(***************************************************************************)
(* The sort of the variables, for any number of them and any references.   *)
(* The loop of topoSort keeps three facts: the degree of a node counts its *)
(* dependencies that are not in order yet; the nodes of degree 0 are those *)
(* in order and those in the queue, each once; and no node in order is on  *)
(* a cycle or behind one.                                                  *)
(***************************************************************************)
EXTENDS Variables, FiniteSetTheorems, SequenceTheorems, TLAPS

Elements(s) == {s[i] : i \in 1..Len(s)}
Distinct(s) == \A i, j \in 1..Len(s) : s[i] = s[j] => i = j

\* An arrangement of a finite set lists each of its members once.
LEMMA Arranged ==
  ASSUME NEW S, S \subseteq Names, IsFiniteSet(S), NEW s \in Arrangements(S)
  PROVE  s \in Seq(Names) /\ Elements(s) = S /\ Distinct(s)
<1> DEFINE n == Cardinality(S)
<1>1. n \in Nat
  BY FS_CardinalityType
<1>2. s \in [1..n -> S] /\ \A i, j \in 1..n : s[i] = s[j] => i = j
  BY DEF Arrangements
<1>3. s \in Injection(1..n, S)
  BY <1>2 DEF Injection, IsInjective
<1>4. Cardinality(1..n) = n
  BY <1>1, FS_Interval
<1>5. s \in Surjection(1..n, S)
  BY <1>3, <1>4, FS_Injection
<1>6. s \in [1..n -> Names]
  BY <1>2
<1>7. s \in Seq(Names) /\ Len(s) = n
  BY <1>1, <1>6, SMT
<1>8. Elements(s) = S
  BY <1>2, <1>5, <1>7 DEF Surjection, Elements
<1>9. QED
  BY <1>2, <1>7, <1>8 DEF Distinct

\* The queue after a round: its head is gone, and nodes it did not hold follow.
LEMMA QueueMoves ==
  ASSUME NEW q \in Seq(Names), q # << >>, Distinct(q),
         NEW s \in Seq(Names), Distinct(s), Elements(q) \cap Elements(s) = {}
  PROVE  /\ Tail(q) \o s \in Seq(Names)
         /\ Elements(Tail(q) \o s) = (Elements(q) \ {Head(q)}) \cup Elements(s)
         /\ Distinct(Tail(q) \o s)
<1> DEFINE t == Tail(q)  m == Len(t)  r == t \o s
<1>1. /\ Len(q) \in Nat /\ Len(s) \in Nat /\ m = Len(q) - 1 /\ Len(q) > 0
      /\ t \in Seq(Names) /\ \A i \in 1..m : t[i] = q[i + 1]
      /\ Head(q) = q[1]
  BY HeadTailProperties, EmptySeq, LenProperties
<1>2. /\ r \in Seq(Names) /\ Len(r) = m + Len(s)
      /\ \A i \in 1..(m + Len(s)) : r[i] = IF i <= m THEN t[i] ELSE s[i - m]
  BY <1>1, ConcatProperties
<1> HIDE DEF t, r
<1>3. \A i \in 1..Len(r) : \/ (i <= m /\ i + 1 \in 1..Len(q) /\ r[i] = q[i + 1])
                          \/ (i > m /\ i - m \in 1..Len(s) /\ r[i] = s[i - m])
  BY <1>1, <1>2
<1>4. \A i \in 1..Len(r) : r[i] \in (Elements(q) \ {Head(q)}) \cup Elements(s)
  <2> SUFFICES ASSUME NEW i \in 1..Len(r)
               PROVE  r[i] \in (Elements(q) \ {Head(q)}) \cup Elements(s)
    OBVIOUS
  <2>1. CASE i <= m /\ i + 1 \in 1..Len(q) /\ r[i] = q[i + 1]
    <3>1. q[i + 1] # q[1]
      BY <1>1, <1>2, <2>1 DEF Distinct
    <3>2. QED
      BY <1>1, <2>1, <3>1 DEF Elements
  <2>2. CASE i > m /\ i - m \in 1..Len(s) /\ r[i] = s[i - m]
    BY <2>2 DEF Elements
  <2>3. QED
    BY <1>3, <2>1, <2>2
<1>5. ASSUME NEW x \in (Elements(q) \ {Head(q)}) \cup Elements(s)
      PROVE  \E i \in 1..Len(r) : r[i] = x
  <2>1. CASE x \in Elements(q) \ {Head(q)}
    <3>1. PICK k \in 1..Len(q) : x = q[k]
      BY <2>1 DEF Elements
    <3>2. k # 1
      BY <1>1, <2>1, <3>1
    <3>3. k - 1 \in 1..Len(r) /\ k - 1 <= m /\ k - 1 \in 1..m
      BY <1>1, <1>2, <3>2
    <3>4. r[k - 1] = q[(k - 1) + 1]
      BY <1>1, <1>2, <3>3
    <3>5. (k - 1) + 1 = k
      OBVIOUS
    <3>6. QED
      BY <3>1, <3>3, <3>4, <3>5
  <2>2. CASE x \in Elements(s)
    <3>1. PICK k \in 1..Len(s) : x = s[k]
      BY <2>2 DEF Elements
    <3>2. k + m \in 1..Len(r) /\ ~(k + m <= m) /\ (k + m) - m = k
      BY <1>1, <1>2
    <3>3. QED
      BY <1>2, <3>1, <3>2
  <2>3. QED
    BY <2>1, <2>2
<1>6. Elements(r) = (Elements(q) \ {Head(q)}) \cup Elements(s)
  <2> DEFINE E == (Elements(q) \ {Head(q)}) \cup Elements(s)
  <2>1. \A x : x \in Elements(r) <=> \E i \in 1..Len(r) : x = r[i]
    BY Zenon DEF Elements
  <2>2. (\A i \in 1..Len(r) : r[i] \in E) /\ \A x \in E : \E i \in 1..Len(r) : r[i] = x
    BY <1>4, <1>5
  <2> HIDE DEF E
  <2>3. \A x : x \in Elements(r) <=> x \in E
    BY <2>1, <2>2
  <2> HIDE DEF Elements
  <2>3a. Elements(r) = E
    BY <2>3
  <2>4. QED
    BY <2>3a DEF E
<1>7. Distinct(r)
  <2> SUFFICES ASSUME NEW i \in 1..Len(r), NEW j \in 1..Len(r), r[i] = r[j]
               PROVE  i = j
    BY DEF Distinct
  <2>1. CASE i <= m /\ j <= m
    BY <1>1, <1>2, <1>3, <2>1 DEF Distinct
  <2>2. CASE i > m /\ j > m
    <3>1. i - m \in 1..Len(s) /\ j - m \in 1..Len(s) /\ s[i - m] = s[j - m]
      BY <1>1, <1>2, <1>3, <2>2
    <3>2. i - m = j - m
      BY <3>1 DEF Distinct
    <3>3. QED
      BY <1>1, <1>2, <3>2
  <2>3. \A a, b \in 1..Len(r) : a <= m /\ b > m => r[a] # r[b]
    <3> SUFFICES ASSUME NEW a \in 1..Len(r), NEW b \in 1..Len(r), a <= m, b > m
                 PROVE  r[a] # r[b]
      OBVIOUS
    <3>1. a + 1 \in 1..Len(q) /\ r[a] = q[a + 1]
      BY <1>1, <1>2, <1>3
    <3>2. b - m \in 1..Len(s) /\ r[b] = s[b - m]
      BY <1>1, <1>2, <1>3
    <3>3. r[a] \in Elements(q) /\ r[b] \in Elements(s)
      BY <3>1, <3>2 DEF Elements
    <3>4. QED
      BY <3>3
  <2>4. QED
    BY <1>1, <1>2, <2>1, <2>2, <2>3
<1>8. QED
  BY <1>2, <1>6, <1>7 DEF t, r

-----------------------------------------------------------------------------
(* The sort *)

\* The nodes in the queue, and the dependencies of a node not in order yet.
Queued == Elements(queue)
Open(v) == Deps(v) \ Ordered

\* The inductive invariant of the loop: where its state lies, ...
SortShape ==
  /\ block \in Block
  /\ phase \in {"sorting", "refused", "resolving", "failed", "crashed", "running"}
  /\ queue \in Seq(Names) /\ order \in Seq(Names)
  /\ degree \in [Names -> Nat]

\* ... what a degree counts and what the queue holds, ...
Counted ==
  /\ \A v \in Names : degree[v] = Cardinality(Open(v))
  /\ \A v \in Names : degree[v] = 0 <=> v \in Ordered \cup Queued
  /\ Distinct(queue) /\ Ordered \cap Queued = {}
  /\ Cardinality(Ordered) = Len(order)

\* ... that nodes on a cycle are not put in order, ...
OffCycles == \A S \in SUBSET Names : Circular(S) => S \cap Ordered = {}

\* ... and what has been found when it ends.
Verdict ==
  /\ phase # "sorting" => queue = << >>
  /\ phase = "refused" => Len(order) # Cardinality(Names)
  /\ phase \notin {"sorting", "refused"} => Len(order) = Cardinality(Names)

SortInv == SortShape /\ Counted /\ DependenciesFirst /\ OffCycles /\ Verdict

\* A variable depends on variables of its block, and on finitely many.
LEMMA DepsTyped ==
  ASSUME block \in Block
  PROVE  \A v \in Names : Deps(v) \subseteq Names /\ IsFiniteSet(Deps(v))
<1> SUFFICES ASSUME NEW v \in Names PROVE Deps(v) \subseteq Names /\ IsFiniteSet(Deps(v))
  OBVIOUS
<1>1. Deps(v) \subseteq Names
  BY DEF Deps, Block
<1>2. QED
  BY <1>1, BlocksAssumption, FS_Subset

\* The invariant of the sort holds before it starts.
LEMMA SortBegins == Init => SortInv
<1> SUFFICES ASSUME Init PROVE SortInv
  OBVIOUS
<1>1. block \in Block
  BY BlocksAssumption DEF Init
<1> DEFINE First == {v \in Names : Deps(v) = {}}
<1>2. IsFiniteSet(First)
  BY BlocksAssumption, FS_Subset
<1>3. queue \in Seq(Names) /\ Queued = First /\ Distinct(queue)
  BY <1>2, Arranged DEF Init, Queued
<1>4. order = << >> /\ Len(order) = 0 /\ order \in Seq(Names) /\ DOMAIN order = {}
  BY EmptySeq, SMT DEF Init
<1>5. Ordered = {} /\ Cardinality(Ordered) = 0
  BY <1>4, FS_EmptySet DEF Ordered
<1>6. \A v \in Names : degree[v] = Cardinality(Deps(v)) /\ Open(v) = Deps(v)
                        /\ Cardinality(Deps(v)) \in Nat
  BY <1>1, <1>5, DepsTyped, FS_CardinalityType DEF Init, Open
<1>7. \A v \in Names : degree[v] = 0 <=> v \in First
  BY <1>1, <1>6, DepsTyped, FS_EmptySet
<1>8. degree \in [Names -> Nat] /\ phase = "sorting"
  BY <1>6 DEF Init
<1>9. SortShape
  BY <1>1, <1>3, <1>4, <1>8 DEF SortShape
<1>10. Counted
  BY <1>3, <1>4, <1>5, <1>6, <1>7 DEF Counted
<1>11. DependenciesFirst /\ OffCycles
  BY <1>4, <1>5 DEF DependenciesFirst, OffCycles
<1>12. Verdict
  BY <1>8 DEF Verdict
<1>13. QED
  BY <1>9, <1>10, <1>11, <1>12 DEF SortInv

\* The node at the head of the queue has no dependency left.
LEMMA HeadReady ==
  ASSUME SortInv, queue # << >>
  PROVE  /\ Head(queue) \in Names /\ Head(queue) \in Queued /\ Head(queue) \notin Ordered
         /\ Deps(Head(queue)) \subseteq Ordered
<1> DEFINE node == Head(queue)
<1>1. /\ node \in Names /\ Len(queue) \in Nat /\ Len(queue) > 0 /\ node = queue[1]
  BY HeadTailProperties, LenProperties, EmptySeq DEF SortInv, SortShape
<1>2. node \in Queued
  BY <1>1 DEF Queued, Elements
<1>3. node \notin Ordered
  BY <1>2 DEF SortInv, Counted
<1>4. Cardinality(Open(node)) = 0
  BY <1>1, <1>2 DEF SortInv, Counted
<1>5. Open(node) \subseteq Deps(node) /\ IsFiniteSet(Open(node))
  BY <1>1, DepsTyped, FS_Subset DEF SortInv, SortShape, Open
<1>6. Open(node) = {}
  BY <1>4, <1>5, FS_EmptySet
<1>7. QED
  BY <1>1, <1>2, <1>3, <1>6 DEF Open

\* A round of the loop keeps the invariant.
LEMMA PopKeeps == SortInv /\ Pop => SortInv'
<1> SUFFICES ASSUME SortInv, Pop PROVE SortInv'
  OBVIOUS
<1> DEFINE node == Head(queue)
<1>0. queue # << >> /\ UNCHANGED <<block, phase>>
  BY DEF Pop
<1>1. node \in Names /\ node \in Queued /\ node \notin Ordered /\ Deps(node) \subseteq Ordered
  BY <1>0, HeadReady
<1>2. /\ block \in Block /\ queue \in Seq(Names) /\ order \in Seq(Names)
      /\ degree \in [Names -> Nat] /\ Distinct(queue) /\ phase = "sorting"
  BY DEF SortInv, SortShape, Counted, Pop
<1>3. \A v : Deps(v)' = Deps(v)
  BY <1>0 DEF Deps
<1>4. order' = Append(order, node)
  BY DEF Pop
<1>5. /\ order' \in Seq(Names) /\ Len(order') = Len(order) + 1 /\ Len(order) \in Nat
      /\ DOMAIN order' = 1..(Len(order) + 1) /\ DOMAIN order = 1..Len(order)
      /\ \A i \in 1..Len(order) : order'[i] = order[i]
      /\ order'[Len(order) + 1] = node
  BY <1>1, <1>2, <1>4, AppendProperties, LenProperties
<1>6. Ordered' = Ordered \cup {node}
  BY <1>5 DEF Ordered
<1>7. \A v \in Names : Open(v)' = Open(v) \ {node}
  BY <1>3, <1>6 DEF Open
<1>8. \A v \in Names : /\ IsFiniteSet(Open(v)) /\ Cardinality(Open(v)) \in Nat
                        /\ degree[v] = Cardinality(Open(v))
                        /\ (node \in Deps(v) <=> node \in Open(v))
                        /\ (degree[v] = 0 <=> v \in Ordered \cup Queued)
  <2> SUFFICES ASSUME NEW v \in Names
               PROVE /\ IsFiniteSet(Open(v)) /\ Cardinality(Open(v)) \in Nat
                     /\ degree[v] = Cardinality(Open(v))
                     /\ (node \in Deps(v) <=> node \in Open(v))
                     /\ (degree[v] = 0 <=> v \in Ordered \cup Queued)
    OBVIOUS
  <2>1. IsFiniteSet(Open(v)) /\ Cardinality(Open(v)) \in Nat
    BY <1>2, DepsTyped, FS_Subset, FS_CardinalityType DEF Open
  <2>2. (degree[v] = Cardinality(Open(v))) /\ (degree[v] = 0 <=> v \in Ordered \cup Queued)
    BY DEF SortInv, Counted
  <2>3. node \in Deps(v) <=> node \in Open(v)
    BY <1>1 DEF Open
  <2>4. QED
    BY <2>1, <2>2, <2>3
<1>9. degree' = [v \in Names |-> IF node \in Deps(v) THEN degree[v] - 1 ELSE degree[v]]
  BY DEF Pop
<1>10. \A v \in Names : degree'[v] = Cardinality(Open(v)') /\ degree'[v] \in Nat
  <2> SUFFICES ASSUME NEW v \in Names
               PROVE  degree'[v] = Cardinality(Open(v)') /\ degree'[v] \in Nat
    OBVIOUS
  <2>1. Cardinality(Open(v) \ {node}) =
          IF node \in Open(v) THEN Cardinality(Open(v)) - 1 ELSE Cardinality(Open(v))
    BY <1>8, FS_RemoveElement
  <2>2. IsFiniteSet(Open(v) \ {node}) /\ Cardinality(Open(v) \ {node}) \in Nat
    BY <1>8, FS_RemoveElement, FS_CardinalityType
  <2>3. degree'[v] = IF node \in Open(v) THEN Cardinality(Open(v)) - 1
                     ELSE Cardinality(Open(v))
    BY <1>8, <1>9
  <2>4. QED
    BY <1>7, <2>1, <2>2, <2>3
<1>11. Freed \subseteq Names /\ IsFiniteSet(Freed)
  BY BlocksAssumption, FS_Subset DEF Freed
<1>12. \A v \in Names : v \in Freed <=> (node \in Open(v) /\ degree[v] = 1)
  BY <1>8 DEF Freed
<1>13. PICK s \in Arrangements(Freed) : queue' = Tail(queue) \o s
  BY DEF Pop
<1>14. s \in Seq(Names) /\ Elements(s) = Freed /\ Distinct(s)
  BY <1>11, <1>13, Arranged
<1>15. Queued \cap Freed = {}
  BY <1>8, <1>11, <1>12
<1>16. Elements(queue) \cap Elements(s) = {}
  BY <1>14, <1>15 DEF Queued
<1>17. /\ queue' \in Seq(Names) /\ Distinct(queue')
       /\ Elements(queue') = (Elements(queue) \ {node}) \cup Elements(s)
  BY <1>0, <1>2, <1>13, <1>14, <1>16, QueueMoves
<1>18. Queued' = (Queued \ {node}) \cup Freed
  BY <1>14, <1>17 DEF Queued
<1>19. \A v \in Names : degree'[v] = 0 <=> (degree[v] = 0 \/ v \in Freed)
  <2> SUFFICES ASSUME NEW v \in Names
               PROVE  degree'[v] = 0 <=> (degree[v] = 0 \/ v \in Freed)
    OBVIOUS
  <2>1. degree[v] \in Nat /\ (node \in Open(v) => degree[v] # 0)
    BY <1>2, <1>8, FS_EmptySet
  <2>2. degree'[v] = IF node \in Open(v) THEN degree[v] - 1 ELSE degree[v]
    BY <1>8, <1>9
  <2>3. QED
    BY <1>12, <2>1, <2>2
<1>20. \A v \in Names : degree'[v] = 0 <=> v \in Ordered' \cup Queued'
  BY <1>1, <1>6, <1>8, <1>18, <1>19
<1>21. Ordered' \cap Queued' = {}
  BY <1>1, <1>6, <1>8, <1>11, <1>12, <1>18 DEF SortInv, Counted
<1>22. Cardinality(Ordered') = Len(order')
  <2>1. Ordered \subseteq Names
    BY <1>2, <1>5 DEF Ordered
  <2>2. IsFiniteSet(Ordered) /\ Cardinality(Ordered) = Len(order)
    BY <2>1, BlocksAssumption, FS_Subset DEF SortInv, Counted
  <2>3. QED
    BY <1>1, <1>5, <1>6, <2>2, FS_AddElement
<1>23. Counted'
  BY <1>10, <1>17, <1>20, <1>21, <1>22 DEF Counted
<1>24. SortShape'
  <2>1. degree' \in [Names -> Nat]
    BY <1>9, <1>10
  <2>2. QED
    BY <1>0, <1>5, <1>17, <2>1 DEF SortInv, SortShape
<1>25. DependenciesFirst'
  <2> SUFFICES ASSUME NEW i \in 1..(Len(order) + 1)
               PROVE  Deps(order'[i]) \subseteq {order'[j] : j \in 1..(i - 1)}
    BY <1>3, <1>5 DEF DependenciesFirst
  <2>1. CASE i \in 1..Len(order)
    <3>1. Deps(order[i]) \subseteq {order[j] : j \in 1..(i - 1)}
      BY <1>5, <2>1 DEF SortInv, DependenciesFirst
    <3>2. \A j \in 1..(i - 1) : order'[j] = order[j]
      BY <1>5, <2>1
    <3>3. order'[i] = order[i]
      BY <1>5, <2>1
    <3>4. QED
      BY <3>1, <3>2, <3>3
  <2>2. CASE i = Len(order) + 1
    <3>1. Deps(order'[i]) \subseteq Ordered
      BY <1>1, <1>5, <2>2
    <3>2. Ordered = {order'[j] : j \in 1..(i - 1)}
      BY <1>5, <2>2 DEF Ordered
    <3>3. QED
      BY <3>1, <3>2
  <2>3. QED
    BY <1>5, <2>1, <2>2
<1>26. OffCycles'
  <2> SUFFICES ASSUME NEW S \in SUBSET Names, Circular(S)', NEW v \in S \cap Ordered'
               PROVE  FALSE
    BY DEF OffCycles
  <2>1. Circular(S)
    BY <1>3 DEF Circular
  <2>2. S \cap Ordered = {}
    BY <2>1 DEF SortInv, OffCycles
  <2>3. v = node
    BY <1>6, <2>2
  <2>4. Deps(node) \cap S # {}
    BY <2>1, <2>3 DEF Circular
  <2>5. QED
    BY <1>1, <2>2, <2>4
<1>27. Verdict'
  BY <1>0, <1>2 DEF Verdict
<1>28. QED
  BY <1>23, <1>24, <1>25, <1>26, <1>27 DEF SortInv

\* The loop has ended: nodes that are left are on a cycle or behind one, and
\* every set of nodes is off cycles when none is left.
LEMMA SortedKeeps == SortInv /\ Sorted => SortInv'
<1> SUFFICES ASSUME SortInv, Sorted PROVE SortInv'
  OBVIOUS
<1>1. UNCHANGED <<block, degree, queue, order>> /\ queue = << >>
  BY DEF Sorted, sortVars
<1>2. SortShape'
  BY <1>1 DEF SortInv, SortShape, Sorted
<1>3. Counted' /\ DependenciesFirst' /\ OffCycles'
  BY <1>1 DEF SortInv, Counted, DependenciesFirst, OffCycles, Circular, Open, Ordered, Queued, Deps
<1>4. Verdict'
  BY <1>1 DEF Verdict, Sorted
<1>5. QED
  BY <1>2, <1>3, <1>4 DEF SortInv

\* What comes after the sort leaves its result alone.
LEMMA AfterSortKeeps ==
  ASSUME SortInv, UNCHANGED <<block, sortVars>>,
         \/ phase' = phase
         \/ /\ phase \in {"resolving", "running"}
            /\ phase' \in {"failed", "crashed", "running"}
  PROVE  SortInv'
<1>1. UNCHANGED <<block, degree, queue, order>>
  BY DEF sortVars
<1>2. SortShape'
  BY <1>1 DEF SortInv, SortShape
<1>3. Counted' /\ DependenciesFirst' /\ OffCycles'
  BY <1>1 DEF SortInv, Counted, DependenciesFirst, OffCycles, Circular, Open, Ordered, Queued, Deps
<1>4. Verdict'
  BY <1>1 DEF SortInv, Verdict
<1>5. QED
  BY <1>2, <1>3, <1>4 DEF SortInv

\* Every step keeps the invariant of the sort.
LEMMA SortStep == SortInv /\ [Next]_vars => SortInv'
<1> SUFFICES ASSUME SortInv, [Next]_vars PROVE SortInv'
  OBVIOUS
<1>1. CASE Pop
  BY <1>1, PopKeeps
<1>2. CASE Sorted
  BY <1>2, SortedKeeps
<1>3. CASE Resolve
  BY <1>3, AfterSortKeeps DEF Resolve
<1>4. CASE ResolveFails \/ ResolveOverflows \/ Resolved
  BY <1>4, AfterSortKeeps DEF ResolveFails, ResolveOverflows, Resolved
<1>5. CASE \E v \in Names : Read(v)
  <2> PICK v \in Names : Read(v)
    BY <1>5
  <2>1. UNCHANGED <<block, sortVars>> /\ phase = "running" /\ phase' \in {"running", "crashed"}
    BY DEF Read
  <2>2. QED
    BY <2>1, AfterSortKeeps
<1>6. CASE UNCHANGED vars
  BY <1>6, AfterSortKeeps DEF vars, sortVars
<1>7. QED
  BY <1>1, <1>2, <1>3, <1>4, <1>5, <1>6 DEF Next

\* The invariant of the sort holds in every state.
THEOREM SortInvariant == Spec => []SortInv
<1>1. Init => SortInv
  BY SortBegins
<1>2. SortInv /\ [Next]_vars => SortInv'
  BY SortStep
<1>3. QED
  BY <1>1, <1>2, PTL DEF Spec

\* topoSort returns the variables with their dependencies first.
THEOREM OrderRespectsDependencies == Spec => []DependenciesFirst
<1>1. SortInv => DependenciesFirst
  BY DEF SortInv
<1>2. QED
  BY <1>1, SortInvariant, PTL

\* The order has each of its variables once.
LEMMA OrderedFacts ==
  ASSUME SortInv
  PROVE  /\ Ordered \subseteq Names /\ IsFiniteSet(Ordered)
         /\ Len(order) \in Nat /\ DOMAIN order = 1..Len(order)
         /\ Distinct(order)
<1>1. Len(order) \in Nat /\ DOMAIN order = 1..Len(order) /\ order \in [1..Len(order) -> Names]
  BY LenProperties DEF SortInv, SortShape
<1>2. Ordered \subseteq Names /\ IsFiniteSet(Ordered)
  BY <1>1, BlocksAssumption, FS_Subset DEF Ordered
<1>3. order \in Surjection(1..Len(order), Ordered)
  BY <1>1 DEF Surjection, Ordered
<1>4. IsFiniteSet(1..Len(order)) /\ Cardinality(1..Len(order)) = Cardinality(Ordered)
  <2>1. IsFiniteSet(1..Len(order)) /\ Cardinality(1..Len(order)) = Len(order)
    BY <1>1, FS_Interval
  <2>2. QED
    BY <2>1 DEF SortInv, Counted
<1>5. order \in Injection(1..Len(order), Ordered)
  BY <1>3, <1>4, FS_SurjSameCardinalityImpliesInj
<1>6. QED
  BY <1>1, <1>2, <1>5 DEF Injection, IsInjective, Distinct

\* A block is refused exactly when the references that findVarDeps sees have a
\* cycle.
THEOREM CyclesAreRefused == Spec => []RefusedExactlyCycles
<1>1. SortInv => RefusedExactlyCycles
  <2> SUFFICES ASSUME SortInv PROVE RefusedExactlyCycles
    OBVIOUS
  <2>1. ASSUME phase = "refused" PROVE \E S \in SUBSET Names : Circular(S)
    <3> DEFINE S == Names \ Ordered
    <3>1. S # {}
      <4>1. Cardinality(Ordered) # Cardinality(Names)
        BY <2>1 DEF SortInv, Counted, Verdict
      <4>2. Ordered # Names
        BY <4>1
      <4>3. QED
        BY <4>2, OrderedFacts
    <3>2. ASSUME NEW v \in S PROVE Deps(v) \cap S # {}
      <4>1. queue = << >> /\ Len(queue) = 0
        BY <2>1, SMT DEF SortInv, Verdict
      <4>2. Queued = {}
        BY <4>1 DEF Queued, Elements
      <4>3. degree[v] # 0 /\ degree[v] = Cardinality(Open(v))
        BY <4>2, <3>2 DEF SortInv, Counted
      <4>4. Open(v) # {}
        BY <4>3, FS_EmptySet
      <4>5. Deps(v) \subseteq Names
        BY <3>2, DepsTyped DEF SortInv, SortShape
      <4>6. QED
        BY <4>4, <4>5 DEF Open
    <3>3. Circular(S)
      BY <3>1, <3>2 DEF Circular
    <3>4. QED
      BY <3>3
  <2>2. ASSUME phase \in {"resolving", "failed", "crashed", "running"},
               NEW S \in SUBSET Names, Circular(S)
        PROVE  FALSE
    <3>1. Cardinality(Ordered) = Cardinality(Names)
      BY <2>2 DEF SortInv, Counted, Verdict
    <3>2. Ordered = Names
      BY <3>1, OrderedFacts, BlocksAssumption, FS_Subset
    <3>3. S \cap Ordered = {}
      BY <2>2 DEF SortInv, OffCycles
    <3>4. QED
      BY <2>2, <3>2, <3>3 DEF Circular
  <2>3. QED
    BY <2>1, <2>2 DEF RefusedExactlyCycles
<1>2. QED
  BY <1>1, SortInvariant, PTL

-----------------------------------------------------------------------------
(* The resolution *)

\* A reading is a value, it embeds an evaluation of its own template, and it
\* embeds the values of the variables that the template refers to.
LEMMA ReadingFacts ==
  ASSUME block \in Block, work \in [Names -> Value],
         NEW v \in Names, NEW n \in 0..MaxReads
  PROVE  /\ Reading(v, n) \in Value
         /\ <<v>> \in Expansions(v)
         /\ \A w \in Mentions(v) : work[w] \subseteq Reading(v, n)
<1>1. Expansions(v) \subseteq Path
  BY DEF Expansions
<1>2. \A p \in Path : p[Len(p)] \in Names
  <2> SUFFICES ASSUME NEW k \in 1..(Depth + 1), NEW p \in [1..k -> Names]
               PROVE  p[Len(p)] \in Names
    BY DEF Path
  <2>1. Len(p) = k
    BY BlocksAssumption, SMT
  <2>2. QED
    BY <2>1, BlocksAssumption
<1>3. \A w \in Names : Mentions(w) \subseteq Names
  BY DEF Mentions, Block
<1>4. Reading(v, n) \in Value
  <2> DEFINE taken == UNION {Mentions(p[Len(p)]) : p \in Expansions(v)}
  <2>1. taken \subseteq Names
    BY <1>1, <1>2, <1>3
  <2>2. UNION {work[x] : x \in taken} \subseteq Evaluation
    BY <2>1 DEF Value
  <2>3. {n} \X Expansions(v) \subseteq Evaluation
    BY <1>1 DEF Evaluation
  <2>4. QED
    BY <2>2, <2>3 DEF Reading, Value
<1>5. <<v>> \in Expansions(v) /\ Len(<<v>>) = 1 /\ <<v>>[1] = v
  <2>1. <<v>> \in [1..1 -> Names] /\ Len(<<v>>) = 1 /\ <<v>>[1] = v
    BY SMT
  <2>2. 1 \in 1..(Depth + 1)
    BY BlocksAssumption
  <2>3. <<v>> \in Path
    BY <2>1, <2>2 DEF Path
  <2>4. \A i \in 1..(Len(<<v>>) - 1) : FALSE
    BY <2>1
  <2>5. QED
    BY <2>1, <2>3, <2>4 DEF Expansions
<1>6. \A w \in Mentions(v) : work[w] \subseteq Reading(v, n)
  BY <1>5 DEF Reading
<1>7. QED
  BY <1>4, <1>5, <1>6

\* What a plain variable refers to is plain, and is a dependency.
LEMMA PlainFacts ==
  ASSUME block \in Block, NEW v \in Plain
  PROVE  /\ v \in Names /\ v \notin block.objects
         /\ Mentions(v) = block.bare[v] /\ Deps(v) = block.bare[v]
         /\ block.bare[v] \subseteq Plain
         /\ PlainValue(v) = {<<0, <<v>>>>} \cup UNION {PlainValue(w) : w \in block.bare[v]}
<1>1. PICK S \in SUBSET (Names \ block.objects) :
        /\ v \in S
        /\ \A x \in S : block.braced[x] = {} /\ block.named[x] = {} /\ block.bare[x] \subseteq S
  BY DEF Plain
<1>2. v \in Names /\ v \notin block.objects /\ Mentions(v) = block.bare[v] /\ Deps(v) = block.bare[v]
  BY <1>1 DEF Mentions, Deps
<1>3. S \subseteq Plain
  BY <1>1 DEF Plain
<1>4. block.bare[v] \subseteq Plain
  BY <1>1, <1>3
<1>5. \A w \in Names : w \in Reached(w) /\ Reached(w) \subseteq Names
  BY DEF Reached
<1>6. \A w \in Names : Mentions(w) \subseteq Names
  BY DEF Mentions, Block
<1> DEFINE T == {v} \cup UNION {Reached(w) : w \in Mentions(v)}
<1>7. T \subseteq Reached(v)
  <2>1. \A w \in Mentions(v) : \A x \in Reached(w) : x \in Reached(v)
    BY <1>2, <1>6 DEF Reached
  <2>2. QED
    BY <1>2, <1>5, <2>1
<1>8. Reached(v) \subseteq T
  <2>1. T \in SUBSET Names /\ v \in T
    BY <1>2, <1>5, <1>6
  <2>2. ASSUME NEW y \in T PROVE Mentions(y) \subseteq T
    <3>1. CASE y = v
      BY <1>2, <1>5, <1>6, <3>1
    <3>2. ASSUME NEW w \in Mentions(v), y \in Reached(w) PROVE Mentions(y) \subseteq Reached(w)
      BY <1>5, <1>6, <1>2, <3>2 DEF Reached
    <3>3. QED
      BY <3>1, <3>2
  <2>3. QED
    BY <2>1, <2>2 DEF Reached
<1>9. Reached(v) = {v} \cup UNION {Reached(w) : w \in block.bare[v]}
  BY <1>2, <1>7, <1>8
<1>10. PlainValue(v) = {<<0, <<v>>>>} \cup UNION {PlainValue(w) : w \in block.bare[v]}
  <2>1. \A e : e \in PlainValue(v) <=> \E x \in Reached(v) : e = <<0, <<x>>>>
    BY Zenon DEF PlainValue
  <2>2. \A w, e : e \in PlainValue(w) <=> \E x \in Reached(w) : e = <<0, <<x>>>>
    BY Zenon DEF PlainValue
  <2> DEFINE R == {<<0, <<v>>>>} \cup UNION {PlainValue(w) : w \in block.bare[v]}
  <2>3. \A e : e \in R <=> \/ e = <<0, <<v>>>>
                          \/ \E w \in block.bare[v] : e \in PlainValue(w)
    OBVIOUS
  <2> HIDE DEF R
  <2>4. \A e : e \in PlainValue(v) <=> e \in R
    BY <1>9, <2>1, <2>2, <2>3
  <2>5. PlainValue(v) = R
    BY <2>4
  <2>6. QED
    BY <2>5 DEF R
<1>11. QED
  BY <1>2, <1>4, <1>10

\* The variables that the loop over the order has been through.
Passed(v) == \E i \in 1..Len(order) : i < next /\ order[i] = v

\* The inductive invariant of the resolution: where its state lies, ...
ResolveShape ==
  /\ next \in Nat \ {0} /\ reads \in 0..MaxReads
  /\ work \in [Names -> Value]
  /\ seen \in [Names -> SUBSET Value]
  /\ phase \in {"sorting", "refused"} => next = 1
  /\ phase = "running" => next > Len(order)

\* ... that only strings the loop has been through have a value, and that the
\* plain ones among them have the value that their templates say.
Settled ==
  /\ \A v \in Names : work[v] # Raw => Passed(v) /\ v \notin block.objects
  /\ \A v \in Plain : Passed(v) => work[v] = PlainValue(v)
  /\ \A v \in Plain : seen[v] \subseteq {PlainValue(v)}

ResolveInv == ResolveShape /\ Settled /\ BareReferencesAgree

\* No variable has a value before the resolution.
LEMMA ResolutionBegins == Init => ResolveInv
<1> SUFFICES ASSUME Init PROVE ResolveInv
  OBVIOUS
<1>1. ResolveShape
  BY BlocksAssumption DEF Init, ResolveShape, Raw, Value
<1>2. \A v : ~Passed(v)
  BY DEF Init, Passed
<1>3. Plain \subseteq Names
  BY DEF Plain
<1>4. Settled
  BY <1>2, <1>3 DEF Init, Settled
<1>5. BareReferencesAgree
  BY DEF Init, BareReferencesAgree
<1>6. QED
  BY <1>1, <1>4, <1>5 DEF ResolveInv

\* Steps that give no variable a value.
LEMMA OthersKeepValues ==
  ASSUME SortInv, ResolveInv,
         UNCHANGED <<block, next, work, seen>>, reads' \in 0..MaxReads,
         UNCHANGED order \/ next = 1,
         phase' \in {"sorting", "refused"} => next = 1,
         phase' = "running" => next > Len(order')
  PROVE  ResolveInv'
<1>1. ResolveShape'
  BY DEF ResolveInv, ResolveShape
<1>2. \A v : Passed(v)' <=> Passed(v)
  <2>1. CASE UNCHANGED order
    BY <2>1 DEF Passed
  <2>2. CASE next = 1
    BY <2>2 DEF Passed
  <2>3. QED
    BY <2>1, <2>2
<1>3. Plain' = Plain /\ \A v : PlainValue(v)' = PlainValue(v)
  BY DEF Plain, PlainValue, Reached, Mentions
<1>4. Settled'
  BY <1>2, <1>3 DEF ResolveInv, Settled
<1>5. BareReferencesAgree'
  BY DEF ResolveInv, BareReferencesAgree
<1>6. QED
  BY <1>1, <1>4, <1>5 DEF ResolveInv

\* Resolving the next variable keeps the invariant.
LEMMA ResolveKeeps == SortInv /\ ResolveInv /\ Resolve => ResolveInv'
<1> SUFFICES ASSUME SortInv, ResolveInv, Resolve PROVE ResolveInv'
  OBVIOUS
<1> DEFINE v == order[next]
<1>1. /\ UNCHANGED <<block, phase, order, seen, reads>>
      /\ phase = "resolving" /\ next <= Len(order) /\ next' = next + 1
      /\ work' = [work EXCEPT ![v] =
                    IF v \in block.objects \/ Unfinished(v) THEN Raw ELSE Reading(v, 0)]
  BY DEF Resolve, Current, sortVars
<1>2. /\ block \in Block /\ next \in Nat \ {0} /\ work \in [Names -> Value]
      /\ seen \in [Names -> SUBSET Value] /\ reads \in 0..MaxReads
  BY DEF SortInv, SortShape, ResolveInv, ResolveShape
<1>3. /\ Len(order) \in Nat /\ DOMAIN order = 1..Len(order) /\ Distinct(order)
      /\ order \in [1..Len(order) -> Names] /\ next \in 1..Len(order) /\ v \in Names
  BY <1>1, <1>2, OrderedFacts, LenProperties DEF SortInv, SortShape
<1>4. 0 \in 0..MaxReads
  BY BlocksAssumption
<1>5. /\ Reading(v, 0) \in Value /\ <<v>> \in Expansions(v)
      /\ \A w \in Mentions(v) : work[w] \subseteq Reading(v, 0)
  BY <1>2, <1>3, <1>4, ReadingFacts
<1>6. work' \in [Names -> Value]
  BY <1>1, <1>2, <1>5 DEF Raw, Value
<1>7. ResolveShape'
  BY <1>1, <1>2, <1>6 DEF ResolveShape
<1>8. \A x : Passed(x)' <=> (Passed(x) \/ x = v)
  BY <1>1, <1>2, <1>3 DEF Passed
<1>9. ~Passed(v)
  BY <1>2, <1>3 DEF Passed, Distinct
<1>10. Plain' = Plain /\ \A x : PlainValue(x)' = PlainValue(x)
  BY <1>1 DEF Plain, PlainValue, Reached, Mentions
<1>11. \A x \in Names : work'[x] =
         IF x = v THEN IF v \in block.objects \/ Unfinished(v) THEN Raw ELSE Reading(v, 0)
         ELSE work[x]
  BY <1>1, <1>2
<1>12. \A w \in Deps(v) : Passed(w)
  BY <1>2, <1>3 DEF SortInv, DependenciesFirst, Passed
\* A plain variable refers to variables that have their values: its template is
\* expanded along no path but its own, and the reading is complete.
<1>13. ASSUME v \in Plain PROVE work'[v] = PlainValue(v)
  <2>1. /\ v \notin block.objects /\ Mentions(v) = block.bare[v] /\ Deps(v) = block.bare[v]
        /\ block.bare[v] \subseteq Plain
        /\ PlainValue(v) = {<<0, <<v>>>>} \cup UNION {PlainValue(w) : w \in block.bare[v]}
    BY <1>2, <1>13, PlainFacts
  <2>2. \A w \in block.bare[v] : work[w] = PlainValue(w)
    BY <1>12, <2>1 DEF ResolveInv, Settled
  <2>3. \A w \in block.bare[v] : work[w] # Raw
    <3> SUFFICES ASSUME NEW w \in block.bare[v] PROVE work[w] # Raw
      OBVIOUS
    <3>1. w \in Plain
      BY <2>1
    <3>2. <<0, <<w>>>> \in PlainValue(w)
      BY <1>2, <3>1, PlainFacts
    <3>3. QED
      BY <2>2, <3>2 DEF Raw
  <2>4. Expansions(v) = {<<v>>}
    <3>1. ASSUME NEW p \in Expansions(v) PROVE p = <<v>>
      <4>1. PICK k \in 1..(Depth + 1) : p \in [1..k -> Names]
        BY <3>1 DEF Expansions, Path
      <4>2. Len(p) = k /\ k \in Nat
        BY <4>1, BlocksAssumption, SMT
      <4>3. p[1] = v
        BY DEF Expansions
      <4>4. k = 1
        <5> SUFFICES ASSUME k # 1 PROVE FALSE
          OBVIOUS
        <5>1. 1 \in 1..(Len(p) - 1)
          BY <4>1, <4>2, BlocksAssumption
        <5>2. p[1 + 1] \in Mentions(p[1]) /\ work[p[1 + 1]] = Raw
          BY <3>1, <5>1 DEF Expansions
        <5>3. QED
          BY <2>1, <2>3, <4>3, <5>2
      <4>5. QED
        BY <4>1, <4>3, <4>4
    <3>2. QED
      BY <1>5, <3>1
  <2>5. Len(<<v>>) = 1 /\ <<v>>[1] = v
    BY SMT
  <2>6. ~Unfinished(v)
    BY <2>4, <2>5 DEF Unfinished, Round
  <2>7. Reading(v, 0) = {<<0, <<v>>>>} \cup UNION {work[w] : w \in block.bare[v]}
    <3>1. UNION {Mentions(p[Len(p)]) : p \in Expansions(v)} = block.bare[v]
      BY <2>1, <2>4, <2>5
    <3>2. {0} \X Expansions(v) = {<<0, <<v>>>>}
      BY <2>4
    <3>3. QED
      BY <3>1, <3>2 DEF Reading
  <2>8. UNION {work[w] : w \in block.bare[v]} = UNION {PlainValue(w) : w \in block.bare[v]}
    BY <2>2
  <2>9. QED
    BY <1>3, <1>11, <2>1, <2>6, <2>7, <2>8
<1>14. Settled'
  <2>1. \A x \in Names : work'[x] # Raw => Passed(x)' /\ x \notin block.objects
    BY <1>8, <1>11 DEF ResolveInv, Settled
  <2>2. \A x \in Plain : Passed(x)' => work'[x] = PlainValue(x)
    <3>1. Plain \subseteq Names
      BY DEF Plain
    <3>2. QED
      BY <1>8, <1>11, <1>13, <3>1 DEF ResolveInv, Settled
  <2>3. \A x \in Plain : seen'[x] \subseteq {PlainValue(x)}
    BY <1>1 DEF ResolveInv, Settled
  <2>4. QED
    BY <1>1, <1>10, <2>1, <2>2, <2>3 DEF Settled, Raw
<1>15. BareReferencesAgree'
  <2> SUFFICES ASSUME NEW x \in Names \ block.objects, NEW w \in block.bare[x] \ block.objects,
                      work'[x] # Raw
               PROVE  work'[w] \subseteq work'[x]
    BY <1>1 DEF BareReferencesAgree, Raw
  <2>1. w \in Names /\ w \in Deps(x) /\ w \in Mentions(x)
    BY <1>2 DEF Deps, Mentions, Block
  <2>2. CASE x # v /\ w # v
    BY <1>11, <2>1, <2>2 DEF ResolveInv, BareReferencesAgree
  <2>3. CASE x = v /\ w # v
    BY <1>5, <1>11, <2>1, <2>3
  <2>4. CASE x # v /\ w = v
    <3>1. work[x] # Raw
      BY <1>11, <2>4
    <3>2. PICK i \in 1..Len(order) : i < next /\ order[i] = x
      BY <3>1 DEF ResolveInv, Settled, Passed
    <3>3. PICK j \in 1..(i - 1) : order[j] = v
      BY <1>3, <2>1, <2>4, <3>2 DEF SortInv, DependenciesFirst
    <3>4. j \in 1..Len(order) /\ j < next
      BY <1>2, <1>3, <3>2, <3>3
    <3>5. QED
      BY <1>9, <3>3, <3>4 DEF Passed
  <2>5. QED
    BY <2>2, <2>3, <2>4
<1>16. QED
  BY <1>7, <1>14, <1>15 DEF ResolveInv

\* A read of a variable by a step keeps the invariant.
LEMMA ReadKeeps ==
  ASSUME SortInv, ResolveInv, NEW v \in Names, Read(v)
  PROVE  ResolveInv'
<1>1. /\ UNCHANGED <<block, order, next, work>>
      /\ phase = "running" /\ phase' \in {"running", "crashed"} /\ reads < MaxReads
      /\ reads' = reads + 1
      /\ \/ UNCHANGED seen
         \/ seen' = [seen EXCEPT ![v] =
                       @ \cup {IF work[v] = Raw THEN Reading(v, reads + 1) ELSE work[v]}]
  BY DEF Read, sortVars
<1>2. /\ block \in Block /\ work \in [Names -> Value] /\ seen \in [Names -> SUBSET Value]
      /\ reads + 1 \in 0..MaxReads /\ next > Len(order)
  BY <1>1, BlocksAssumption DEF SortInv, SortShape, ResolveInv, ResolveShape
<1>3. Reading(v, reads + 1) \in Value
  BY <1>2, ReadingFacts
<1>4. seen' \in [Names -> SUBSET Value]
  BY <1>1, <1>2, <1>3
<1>5. ResolveShape'
  BY <1>1, <1>2, <1>4 DEF ResolveInv, ResolveShape
<1>6. \A x : Passed(x)' <=> Passed(x)
  BY <1>1 DEF Passed
<1>7. Plain' = Plain /\ \A x : PlainValue(x)' = PlainValue(x)
  BY <1>1 DEF Plain, PlainValue, Reached, Mentions
\* When steps run, the loop has been through every variable.
<1>8. ASSUME v \in Plain PROVE work[v] = PlainValue(v) /\ work[v] # Raw
  <2>1. Cardinality(Ordered) = Cardinality(Names)
    BY <1>1 DEF SortInv, Counted, Verdict
  <2>2. Ordered = Names
    BY <2>1, OrderedFacts, BlocksAssumption, FS_Subset
  <2>3. Len(order) \in Nat /\ DOMAIN order = 1..Len(order) /\ next \in Nat
    BY OrderedFacts DEF ResolveInv, ResolveShape
  <2>4. Passed(v)
    BY <1>2, <2>2, <2>3 DEF Ordered, Passed
  <2>5. work[v] = PlainValue(v)
    BY <1>8, <2>4 DEF ResolveInv, Settled
  <2>6. <<0, <<v>>>> \in PlainValue(v)
    BY <1>2, <1>8, PlainFacts
  <2>7. QED
    BY <2>5, <2>6 DEF Raw
<1>9. \A x \in Plain : seen'[x] \subseteq {PlainValue(x)}
  <2> SUFFICES ASSUME NEW x \in Plain PROVE seen'[x] \subseteq {PlainValue(x)}
    OBVIOUS
  <2>1. seen[x] \subseteq {PlainValue(x)} /\ x \in Names
    BY DEF ResolveInv, Settled, Plain
  <2>2. CASE UNCHANGED seen
    BY <2>1, <2>2
  <2>3. CASE seen' = [seen EXCEPT ![v] =
                       @ \cup {IF work[v] = Raw THEN Reading(v, reads + 1) ELSE work[v]}]
    BY <1>2, <1>8, <2>1, <2>3
  <2>4. QED
    BY <1>1, <2>2, <2>3
<1>10. Settled'
  BY <1>1, <1>6, <1>7, <1>9 DEF ResolveInv, Settled, Raw
<1>11. BareReferencesAgree'
  BY <1>1 DEF ResolveInv, BareReferencesAgree, Raw
<1>12. QED
  BY <1>5, <1>10, <1>11 DEF ResolveInv

\* Every step keeps the invariant of the resolution.
LEMMA ResolutionStep == SortInv /\ ResolveInv /\ [Next]_vars => ResolveInv'
<1> SUFFICES ASSUME SortInv, ResolveInv, [Next]_vars PROVE ResolveInv'
  OBVIOUS
<1>1. /\ reads \in 0..MaxReads /\ (phase \in {"sorting", "refused"} => next = 1)
      /\ (phase = "running" => next > Len(order))
  BY DEF ResolveInv, ResolveShape
<1>2. CASE Pop
  BY <1>1, <1>2, OthersKeepValues DEF Pop
<1>3. CASE Sorted
  BY <1>1, <1>3, OthersKeepValues DEF Sorted, sortVars
<1>4. CASE Resolve
  BY <1>4, ResolveKeeps
<1>5. CASE ResolveFails \/ ResolveOverflows \/ Resolved
  BY <1>1, <1>5, OthersKeepValues DEF ResolveFails, ResolveOverflows, Resolved, sortVars
<1>6. CASE \E v \in Names : Read(v)
  BY <1>6, ReadKeeps
<1>7. CASE UNCHANGED vars
  BY <1>1, <1>7, OthersKeepValues DEF vars
<1>8. QED
  BY <1>2, <1>3, <1>4, <1>5, <1>6, <1>7 DEF Next

\* The invariant of the resolution holds in every state.
THEOREM ResolutionInvariant == Spec => []ResolveInv
<1>1. Init => ResolveInv
  BY ResolutionBegins
<1>2. SortInv /\ ResolveInv /\ [Next]_vars => ResolveInv'
  BY ResolutionStep
<1>3. QED
  BY <1>1, <1>2, SortInvariant, PTL DEF Spec

\* A variable that refers to another in plain text embeds its value.
THEOREM ReferencesAgree == Spec => []BareReferencesAgree
<1>1. ResolveInv => BareReferencesAgree
  BY DEF ResolveInv
<1>2. QED
  BY <1>1, ResolutionInvariant, PTL

\* What the templates of plain variables generate is generated once, and read by
\* every step, for any number of variables and whatever order Go gives the maps.
THEOREM PlainVariablesAreFixed == Spec => []PlainVariablesFixed
<1>1. ResolveInv => PlainVariablesFixed
  <2> SUFFICES ASSUME ResolveInv, NEW v \in Plain
               PROVE  work[v] \in {Raw, PlainValue(v)} /\ seen[v] \subseteq {PlainValue(v)}
    BY DEF PlainVariablesFixed
  <2>1. v \in Names
    BY DEF Plain
  <2>2. QED
    BY <2>1 DEF ResolveInv, Settled
<1>2. QED
  BY <1>1, ResolutionInvariant, PTL

\* The state of the preparation keeps its type.
THEOREM VariablesTypeCorrect == Spec => []TypeOK
<1>1. SortInv /\ ResolveInv => TypeOK
  BY DEF SortInv, SortShape, ResolveInv, ResolveShape, TypeOK
<1>2. QED
  BY <1>1, SortInvariant, ResolutionInvariant, PTL
=============================================================================
