------------------------- MODULE OrchestratorProofs -------------------------
(***************************************************************************)
(* Theorems about Orchestrator, for every finite set of tests, every       *)
(* dependency graph (cyclic ones and unknown names included), every        *)
(* parallelism and with or without bail.                                   *)
(***************************************************************************)
EXTENDS Orchestrator, FiniteSetTheorems, FunctionTheorems, WellFoundedInduction, TLAPS

-----------------------------------------------------------------------------
(* The inductive invariant, one named part per reason. *)

\* The channel, the map and the program counter of a test agree.
EndsAgree ==
  \A t \in Test : /\ t \in doneCh <=> pc[t] = "returned"
                  /\ t \in doneCh <=> completedStatus[t] # "none"

\* The loop has handed over exactly the tests before `next'.
HandedOver ==
  \A i \in 1..Len(suite.order) : pc[suite.order[i]] = "idle" <=> next <= i

\* The dependencies the goroutine of t has left behind are recorded and not
\* failed, and the one it checks is recorded.
BehindOf(t) ==
  /\ dep[t] <= Len(Depends(t)) + 1
  /\ \A i \in 1..Len(Depends(t)) : i < dep[t] =>
       /\ Depends(t)[i] \in doneCh
       /\ completedStatus[Depends(t)[i]] # "failed"
  /\ pc[t] = "checking" => /\ dep[t] <= Len(Depends(t))
                           /\ Depends(t)[dep[t]] \in doneCh
  /\ InBody(t) => dep[t] > Len(Depends(t))

LeftBehind == \A t \in Test : BehindOf(t)

\* A goroutine past RunTest has a result.
ResultSet ==
  \A t \in Test : pc[t] \in {"afterEach", "recording"} => outcome[t] \in Verdicts

\* The loop is left only when every goroutine has returned.
Joined ==
  main \in {"afterAll", "returned"} => \A t \in Test : pc[t] = "returned"

IInv ==
  /\ suite \in Suites
  /\ TypeOK
  /\ EndsAgree
  /\ HandedOver
  /\ LeftBehind
  /\ ResultSet
  /\ Joined
-----------------------------------------------------------------------------
\* What SuiteAssumption says of the run that Init picked.
LEMMA SuiteFacts ==
  ASSUME suite \in Suites
  PROVE  /\ \A t \in Test : /\ Len(Depends(t)) \in Nat
                            /\ DOMAIN Depends(t) = 1..Len(Depends(t))
         /\ Len(suite.order) \in Nat
         /\ DOMAIN suite.order = 1..Len(suite.order)
         /\ \A i \in 1..Len(suite.order) : suite.order[i] \in Test
         /\ \A i, j \in 1..Len(suite.order) :
              suite.order[i] = suite.order[j] => i = j
         /\ \A t \in Test : \E i \in 1..Len(suite.order) : suite.order[i] = t
         /\ Slots \in Nat \ {0}
  <1>1. suite \in RunRequest /\ IsRunOrder(suite.order, Test)
    BY SuiteAssumption
  <1>2. /\ Len(suite.order) \in Nat
        /\ DOMAIN suite.order = 1..Len(suite.order)
        /\ \A i \in 1..Len(suite.order) : suite.order[i] \in Test
    BY <1>1 DEF IsRunOrder
  <1>3. \A t \in Test : /\ Len(Depends(t)) \in Nat
                        /\ DOMAIN Depends(t) = 1..Len(Depends(t))
    <2>1. \A t \in Test : Depends(t) \in Seq(Name)
      BY <1>1 DEF RunRequest, Depends
    <2>2. QED
      BY <2>1
  <1>4. Slots \in Nat \ {0}
    BY <1>1 DEF RunRequest, Slots
  <1>5. QED
    <2>1. /\ \A i, j \in 1..Len(suite.order) :
               suite.order[i] = suite.order[j] => i = j
          /\ \A t \in Test : \E i \in 1..Len(suite.order) : suite.order[i] = t
      BY <1>1, <1>2 DEF IsRunOrder
    <2>2. QED
      BY <1>2, <1>3, <1>4, <2>1

\* The invariant holds when Run is called.
LEMMA InitIInv == Init => IInv
  <1> SUFFICES ASSUME Init PROVE IInv
    OBVIOUS
  <1>1. suite \in Suites
    BY DEF Init
  <1>2. TypeOK
    <2>1. suite \in RunRequest /\ Len(suite.order) \in Nat
      BY <1>1, SuiteAssumption, SuiteFacts
    <2>2. /\ results \in Seq([test : Test, status : Verdicts])
          /\ totals \in [passed : Nat, failed : Nat, skipped : Nat, total : Nat]
      BY DEF Init
    <2>3. /\ pc \in [Test -> {"idle", "started", "waiting", "checking", "skipping",
                            "body", "afterEach", "recording", "returned"}]
          /\ dep \in [Test -> Nat \ {0}]
          /\ outcome \in [Test -> Verdicts \cup {"none"}]
          /\ completedStatus \in [Test -> Verdicts \cup {"none"}]
      BY DEF Init
    <2>4. /\ main \in {"beforeAll", "loop", "afterAll", "returned"}
          /\ next \in 1..Len(suite.order) + 1
          /\ doneCh \subseteq Test
      BY <2>1 DEF Init
    <2>5. bailed \in BOOLEAN /\ cancelled \in BOOLEAN
      BY DEF Init
    <2>6. QED
      BY <2>1, <2>2, <2>3, <2>4, <2>5 DEF TypeOK
  <1>3. EndsAgree /\ HandedOver /\ LeftBehind /\ ResultSet /\ Joined
    BY <1>1, SuiteFacts DEF Init, EndsAgree, HandedOver, LeftBehind, BehindOf,
                            ResultSet, Joined, InBody
  <1>4. QED
    BY <1>1, <1>2, <1>3 DEF IInv

\* A step of the goroutine of t before it records its result: it moves on, may
\* advance dep[t] and set outcome[t], and leaves the shared state alone.
LEMMA LocalStep ==
  ASSUME IInv, NEW t \in Test,
         NEW v \in {"waiting", "checking", "skipping", "body", "afterEach", "recording"},
         pc[t] \notin {"idle", "returned"},
         pc' = [pc EXCEPT ![t] = v],
         dep' \in [Test -> Nat \ {0}], \A u \in Test \ {t} : dep'[u] = dep[u],
         outcome' \in [Test -> Verdicts \cup {"none"}],
         \A u \in Test \ {t} : outcome'[u] = outcome[u],
         v \in {"afterEach", "recording"} => outcome'[t] \in Verdicts,
         BehindOf(t)',
         UNCHANGED <<suiteVars, sharedVars, cancelled>>
  PROVE  IInv'
  <1> USE DEF suiteVars, sharedVars
  <1>1. suite' \in Suites /\ TypeOK'
    BY DEF IInv, TypeOK
  <1>2. \A u \in Test : pc'[u] = IF u = t THEN v ELSE pc[u]
    BY DEF IInv, TypeOK
  <1>3. EndsAgree'
    BY <1>2 DEF IInv, EndsAgree
  <1>4. HandedOver'
    BY <1>2, SuiteFacts DEF IInv, HandedOver
  <1>5. LeftBehind'
    <2> SUFFICES ASSUME NEW u \in Test, u # t PROVE BehindOf(u)'
      BY DEF LeftBehind
    <2>1. pc'[u] = pc[u] /\ dep'[u] = dep[u] /\ BehindOf(u)
      BY <1>2 DEF IInv, LeftBehind
    <2>2. QED
      BY <2>1 DEF BehindOf, InBody, Depends
  <1>6. ResultSet'
    BY <1>2 DEF IInv, ResultSet
  <1>7. Joined'
    BY <1>2 DEF IInv, Joined
  <1>8. QED
    BY <1>1, <1>3, <1>4, <1>5, <1>6, <1>7 DEF IInv

\* The critical section that ends the goroutine of t keeps the invariant.
LEMMA PublishStep ==
  ASSUME IInv, NEW t \in Test, NEW v \in Verdicts,
         pc[t] \in {"skipping", "recording"}, Publish(t, v), bailed' \in BOOLEAN,
         UNCHANGED <<suiteVars, dep, outcome, cancelled>>
  PROVE  IInv'
  <1> USE DEF Publish, suiteVars
  <1>1. suite' \in Suites /\ TypeOK'
    BY DEF IInv, TypeOK
  <1>2. \A u \in Test : /\ pc'[u] = IF u = t THEN "returned" ELSE pc[u]
                        /\ completedStatus'[u] = IF u = t THEN v ELSE completedStatus[u]
    BY DEF IInv, TypeOK
  <1>3. t \notin doneCh /\ doneCh \subseteq Test
    BY DEF IInv, EndsAgree, TypeOK
  <1>4. EndsAgree'
    BY <1>2, <1>3 DEF IInv, EndsAgree, Verdicts
  <1>5. HandedOver'
    BY <1>2, SuiteFacts DEF IInv, HandedOver
  <1>6. LeftBehind'
    <2> SUFFICES ASSUME NEW u \in Test PROVE BehindOf(u)'
      BY DEF LeftBehind
    <2>1. BehindOf(u) /\ dep'[u] = dep[u]
      BY DEF IInv, LeftBehind
    <2>2. QED
      BY <1>2, <1>3, <2>1 DEF BehindOf, InBody, Depends
  <1>7. ResultSet' /\ Joined'
    BY <1>2 DEF IInv, ResultSet, Joined
  <1>8. QED
    BY <1>1, <1>4, <1>5, <1>6, <1>7 DEF IInv

\* A step of Run or of the caller that leaves every goroutine where it is.
LEMMA MainStep ==
  ASSUME IInv, TypeOK', Joined',
         UNCHANGED <<suite, next, pc, dep, outcome, sharedVars>>
  PROVE  IInv'
  BY DEF IInv, EndsAgree, HandedOver, LeftBehind, BehindOf, ResultSet, InBody,
         Depends, sharedVars

\* Every step keeps it.
LEMMA NextIInv == IInv /\ [Next]_vars => IInv'
  <1> SUFFICES ASSUME IInv, [Next]_vars PROVE IInv'
    OBVIOUS
  <1>1. /\ pc \in [Test -> {"idle", "started", "waiting", "checking", "skipping",
                            "body", "afterEach", "recording", "returned"}]
        /\ dep \in [Test -> Nat \ {0}]
        /\ outcome \in [Test -> Verdicts \cup {"none"}]
    BY DEF IInv, TypeOK
  <1>2. CASE BeforeAll
    <2>1. TypeOK' /\ Joined'
      BY <1>2 DEF BeforeAll, sharedVars, IInv, TypeOK, Joined
    <2>2. QED
      BY <1>2, <2>1, MainStep DEF BeforeAll
  <1>3. CASE Launch
    <2> DEFINE u == suite.order[next]
    <2> USE <1>3 DEF Launch, sharedVars
    <2>1. /\ next \in 1..Len(suite.order) /\ Len(suite.order) \in Nat
          /\ u \in Test /\ pc[u] = "idle"
      BY SuiteFacts DEF IInv, TypeOK, HandedOver
    <2>2. \A t \in Test : pc'[t] = IF t = u THEN "started" ELSE pc[t]
      BY <1>1, <2>1
    <2>3. suite' \in Suites /\ TypeOK'
      BY <2>1 DEF IInv, TypeOK
    <2>4. EndsAgree' /\ ResultSet' /\ Joined'
      BY <2>1, <2>2 DEF IInv, EndsAgree, ResultSet, Joined
    <2>5. HandedOver'
      BY <2>1, <2>2, SuiteFacts DEF IInv, HandedOver
    <2>6. LeftBehind'
      BY <2>2 DEF IInv, LeftBehind, BehindOf, InBody, Depends
    <2>7. QED
      BY <2>3, <2>4, <2>5, <2>6 DEF IInv
  <1>4. ASSUME NEW t \in Test, CheckBail(t) PROVE IInv'
    <2> USE <1>4 DEF CheckBail, suiteVars, sharedVars
    <2>1. BehindOf(t)'
      BY <1>1 DEF IInv, LeftBehind, BehindOf, InBody, Depends
    <2>2. QED
      BY <1>1, <2>1, LocalStep
  <1>5. ASSUME NEW t \in Test, SkipUnknown(t) \/ SkipCancelled(t) PROVE IInv'
    <2> USE <1>5 DEF SkipUnknown, SkipCancelled, suiteVars, sharedVars
    <2>1. BehindOf(t)'
      BY <1>1 DEF IInv, LeftBehind, BehindOf, InBody, Depends
    <2>2. QED
      BY <1>1, <2>1, LocalStep
  <1>6. ASSUME NEW t \in Test, DependencyDone(t) PROVE IInv'
    <2> USE <1>6 DEF DependencyDone, suiteVars, sharedVars
    <2>1. BehindOf(t)'
      BY <1>1 DEF IInv, LeftBehind, BehindOf, InBody, Depends
    <2>2. QED
      BY <1>1, <2>1, LocalStep
  <1>7. ASSUME NEW t \in Test, CheckDependency(t) PROVE IInv'
    <2> USE <1>7 DEF CheckDependency, suiteVars, sharedVars
    <2>1. BehindOf(t) /\ Len(Depends(t)) \in Nat
      BY SuiteFacts DEF IInv, LeftBehind
    <2>2. BehindOf(t)'
      BY <1>1, <2>1 DEF BehindOf, InBody, Depends
    <2>3. QED
      <3>1. CASE completedStatus[Depends(t)[dep[t]]] = "failed"
        BY <1>1, <2>2, <3>1, LocalStep
      <3>2. CASE completedStatus[Depends(t)[dep[t]]] # "failed"
        BY <1>1, <2>2, <3>2, LocalStep
      <3>3. QED
        BY <3>1, <3>2
  <1>8. ASSUME NEW t \in Test, BeforeEach(t) PROVE IInv'
    <2> USE <1>8 DEF BeforeEach, suiteVars, sharedVars
    <2>1. BehindOf(t)'
      BY <1>1 DEF IInv, LeftBehind, BehindOf, InBody, Depends
    <2>2. QED
      BY <1>1, <2>1, LocalStep
  <1>9. ASSUME NEW t \in Test, RunTest(t) PROVE IInv'
    <2> USE <1>9 DEF RunTest, suiteVars, sharedVars
    <2>1. BehindOf(t)'
      BY <1>1 DEF IInv, LeftBehind, BehindOf, InBody, Depends
    <2>2. PICK v \in Verdicts : outcome' = [outcome EXCEPT ![t] = v]
      BY DEF Verdicts
    <2>3. QED
      BY <1>1, <2>1, <2>2, LocalStep
  <1>10. ASSUME NEW t \in Test, AfterEach(t) PROVE IInv'
    <2> USE <1>10 DEF AfterEach, suiteVars, sharedVars
    <2>1. BehindOf(t)' /\ outcome[t] \in Verdicts
      BY <1>1 DEF IInv, LeftBehind, BehindOf, InBody, Depends, ResultSet
    <2>2. QED
      BY <1>1, <2>1, LocalStep
  <1>11. ASSUME NEW t \in Test, RecordSkip(t) PROVE IInv'
    <2>1. bailed' \in BOOLEAN
      BY <1>11 DEF RecordSkip, IInv, TypeOK
    <2>2. QED
      BY <1>11, <2>1, PublishStep DEF RecordSkip, Verdicts
  <1>12. ASSUME NEW t \in Test, Record(t) PROVE IInv'
    <2>1. outcome[t] \in Verdicts /\ bailed' \in BOOLEAN
      BY <1>12 DEF Record, IInv, ResultSet
    <2>2. QED
      BY <1>12, <2>1, PublishStep DEF Record
  <1>13. CASE Join
    <2> USE <1>13 DEF Join, sharedVars
    <2>1. \A t \in Test : pc[t] = "returned"
      <3> SUFFICES ASSUME NEW t \in Test PROVE pc[t] = "returned"
        OBVIOUS
      <3>1. PICK i \in 1..Len(suite.order) : suite.order[i] = t
        BY SuiteFacts DEF IInv
      <3>2. next \in Nat /\ Len(suite.order) \in Nat
        BY SuiteFacts DEF IInv, TypeOK
      <3>3. pc[t] # "idle"
        BY <3>1, <3>2 DEF IInv, HandedOver
      <3>4. QED
        BY <3>3 DEF Occupied
    <2>2. TypeOK' /\ Joined'
      BY <2>1 DEF IInv, TypeOK, Joined
    <2>3. QED
      BY <2>2, MainStep
  <1>14. CASE Complete
    <2> USE <1>14 DEF Complete, sharedVars
    <2>1. Len(results) \in Nat /\ DOMAIN results = 1..Len(results)
      BY DEF IInv, TypeOK
    <2>2. IsFiniteSet(DOMAIN results)
      BY <2>1, FS_Interval
    <2>3. \A v \in Verdicts : CountOf(v) \in Nat
      BY <2>2, FS_Subset, FS_CardinalityType DEF CountOf
    <2>4. TypeOK' /\ Joined'
      BY <2>1, <2>3 DEF IInv, TypeOK, Joined, Verdicts
    <2>5. QED
      BY <2>4, MainStep
  <1>15. CASE Cancel
    <2> USE <1>15 DEF Cancel, sharedVars
    <2>1. TypeOK' /\ Joined'
      BY DEF IInv, TypeOK, Joined
    <2>2. QED
      BY <2>1, MainStep
  <1>16. CASE UNCHANGED vars
    <2> USE <1>16 DEF vars, sharedVars
    <2>1. TypeOK' /\ Joined'
      BY DEF IInv, TypeOK, Joined
    <2>2. QED
      BY <2>1, MainStep
  <1>17. QED
    BY <1>2, <1>3, <1>4, <1>5, <1>6, <1>7, <1>8, <1>9, <1>10, <1>11, <1>12, <1>13,
       <1>14, <1>15, <1>16 DEF Next, Run, Goroutine, Returned
-----------------------------------------------------------------------------
\* The inductive invariant holds of every reachable state.
THEOREM Inductive == Spec => []IInv
  BY InitIInv, NextIInv, PTL DEF Spec

\* The state keeps its types whatever suites, parallelism and bail are given.
THEOREM TypeCorrect == Spec => []TypeOK
  <1>1. IInv => TypeOK
    BY DEF IInv
  <1>2. QED
    BY <1>1, Inductive, PTL

\* No test body is under way unless all its dependencies are recorded, part of
\* the suite and not failed, although they are read one by one.
THEOREM SettledBeforeBody == Spec => []DependenciesSettled
  <1>1. IInv => DependenciesSettled
    <2> SUFFICES ASSUME IInv, NEW t \in Test, InBody(t), NEW i \in DOMAIN Depends(t)
                 PROVE  /\ Depends(t)[i] \in doneCh
                        /\ completedStatus[Depends(t)[i]] \notin {"none", "failed"}
      BY DEF DependenciesSettled
    <2>1. i \in 1..Len(Depends(t)) /\ Len(Depends(t)) \in Nat /\ dep[t] \in Nat
      BY SuiteFacts DEF IInv, TypeOK
    <2>2. i < dep[t]
      BY <2>1 DEF IInv, LeftBehind, BehindOf
    <2>3. Depends(t)[i] \in doneCh /\ completedStatus[Depends(t)[i]] # "failed"
      BY <2>1, <2>2 DEF IInv, LeftBehind, BehindOf
    <2>4. QED
      BY <2>3 DEF IInv, TypeOK, EndsAgree
  <1>2. QED
    BY <1>1, Inductive, PTL

\* A nonempty set of natural numbers has a least element.
LEMMA LeastElement ==
  ASSUME NEW S \in SUBSET Nat, S # {}
  PROVE  \E m \in S : \A k \in S : m <= k
  <1>1. PICK m \in S : \A k \in S : ~(<<k, m>> \in OpToRel(<, Nat))
    BY NatLessThanWellFounded, WFMin
  <1>2. \A k \in S : ~(k < m)
    BY <1>1 DEF OpToRel
  <1>3. QED
    BY <1>2

\* Goroutines that wait for dependencies while they hold a slot never use up
\* the slots of a sorted suite: the first of them in run order can move.
THEOREM SlotsNeverExhausted == Spec => []NoSlotDeadlock
  <1>1. IInv => NoSlotDeadlock
    <2> SUFFICES ASSUME IInv, TopologicallySorted, Occupied # {}
                 PROVE  \E t \in Occupied : ~Blocked(t)
      BY DEF NoSlotDeadlock
    <2> DEFINE Held == {i \in 1..Len(suite.order) : suite.order[i] \in Occupied}
    <2>1. Held \in SUBSET Nat /\ Held # {}
      BY SuiteFacts DEF IInv, Occupied
    <2>2. PICK m \in Held : \A k \in Held : m <= k
      BY <2>1, LeastElement
    <2> DEFINE t == suite.order[m]
    <2>3. t \in Occupied /\ t \in Test /\ pc[t] # "idle" /\ m \in 1..Len(suite.order)
      BY <2>2 DEF Occupied
    <2>4. ~Blocked(t)
      <3> SUFFICES ASSUME Blocked(t) PROVE FALSE
        OBVIOUS
      <3> DEFINE d == Depends(t)[dep[t]]
      <3>1. d \in Test \ doneCh /\ dep[t] \in 1..Len(Depends(t))
        BY <2>3, SuiteFacts DEF Blocked, IInv, TypeOK
      <3>2. dep[t] \in DOMAIN suite.depends[t] /\ suite.depends[t][dep[t]] = d
        BY <2>3, <3>1, SuiteFacts DEF Depends, IInv
      <3>3. PICK j \in 1..Len(suite.order) : suite.order[j] = d
        BY <3>1, SuiteFacts DEF IInv
      <3>4. j < m
        BY <2>3, <3>2, <3>3, SuiteFacts DEF TopologicallySorted, IsTopological, IInv
      <3>5. pc[d] # "idle"
        <4>1. next \in Int /\ m \in Int /\ j \in Int
          BY <2>3, SuiteFacts DEF IInv, TypeOK
        <4>2. ~(next <= m) /\ (pc[d] = "idle" <=> next <= j)
          BY <2>3, <3>3 DEF IInv, HandedOver
        <4> QED BY <3>4, <4>1, <4>2
      <3>6. pc[d] # "returned"
        BY <3>1 DEF IInv, EndsAgree
      <3>7. j \in Held
        BY <3>1, <3>3, <3>5, <3>6 DEF Occupied
      <3>8. QED
        BY <2>2, <3>4, <3>7, SuiteFacts DEF IInv
    <2>5. QED
      BY <2>3, <2>4
  <1>2. QED
    BY <1>1, Inductive, PTL

-----------------------------------------------------------------------------
(* The slots. *)

SlotsHeld == Cardinality(Occupied) <= Slots

\* The occupied slots can be counted.
LEMMA OccupiedFinite == IsFiniteSet(Occupied) /\ Cardinality(Occupied) \in Nat
  BY SuiteAssumption, FS_Subset, FS_CardinalityType DEF Occupied

\* Only Launch starts a goroutine, and it waits for a free slot.
LEMMA SlotsStep == IInv /\ SlotsHeld /\ [Next]_vars => SlotsHeld'
  <1> SUFFICES ASSUME IInv, SlotsHeld, [Next]_vars PROVE SlotsHeld'
    OBVIOUS
  <1>1. suite' = suite /\ Slots' = Slots /\ Slots \in Nat
    BY SuiteFacts DEF IInv, Next, Run, Goroutine, BeforeAll, Launch, Join, Complete,
       CheckBail, SkipUnknown, DependencyDone, SkipCancelled, CheckDependency,
       BeforeEach, RunTest, AfterEach, RecordSkip, Record, Publish, Cancel, Returned,
       suiteVars, vars, Slots
  <1>2. pc \in [Test -> {"idle", "started", "waiting", "checking", "skipping",
                         "body", "afterEach", "recording", "returned"}]
    BY DEF IInv, TypeOK
  <1>3. CASE Launch
    <2> DEFINE u == suite.order[next]
    <2>1. u \in Test
      BY <1>3, SuiteFacts DEF Launch, IInv, TypeOK
    <2>2. Occupied' = Occupied \cup {u}
      BY <1>2, <1>3, <2>1 DEF Launch, Occupied
    <2>3. Cardinality(Occupied') <= Cardinality(Occupied) + 1
      BY <2>2, OccupiedFinite, FS_AddElement
    <2>4. Cardinality(Occupied') \in Nat
      BY <2>2, OccupiedFinite, FS_AddElement
    <2>5. QED
      BY <1>1, <1>3, <2>3, <2>4, OccupiedFinite DEF Launch, SlotsHeld
  <1>4. ASSUME Occupied' \subseteq Occupied PROVE SlotsHeld'
    <2>1. Cardinality(Occupied') <= Cardinality(Occupied) /\ Cardinality(Occupied') \in Nat
      BY <1>4, OccupiedFinite, FS_Subset, FS_CardinalityType
    <2>2. QED
      BY <1>1, <2>1, OccupiedFinite DEF SlotsHeld
  <1>5. CASE BeforeAll \/ Join \/ Complete \/ Cancel \/ UNCHANGED vars
    <2>1. pc' = pc
      BY <1>5 DEF BeforeAll, Join, Complete, Cancel, vars
    <2>2. QED
      BY <1>4, <2>1 DEF Occupied
  <1>6. ASSUME NEW t \in Test, Goroutine(t) PROVE SlotsHeld'
    <2>1. /\ pc[t] \notin {"idle", "returned"}
          /\ \E v : pc' = [pc EXCEPT ![t] = v]
      BY <1>2, <1>6 DEF Goroutine, CheckBail, SkipUnknown, DependencyDone,
         SkipCancelled, CheckDependency, BeforeEach, RunTest, AfterEach, RecordSkip,
         Record, Publish
    <2>2. \A u \in Test : u # t => pc'[u] = pc[u]
      BY <1>2, <2>1
    <2>3. QED
      BY <1>4, <2>1, <2>2 DEF Occupied
  <1>7. QED
    BY <1>3, <1>5, <1>6 DEF Next, Run, Returned

\* At the beginning every slot is free.
LEMMA SlotsInit == Init => SlotsHeld
  <1> SUFFICES ASSUME Init PROVE SlotsHeld
    OBVIOUS
  <1>1. Occupied = {}
    BY DEF Init, Occupied
  <1>2. Slots \in Nat
    BY SuiteFacts DEF Init
  <1>3. QED
    BY <1>1, <1>2, FS_EmptySet DEF SlotsHeld
-----------------------------------------------------------------------------
(* The results. *)

\* Every recorded test is in `results' once, with the status the map has.
LoggedOnce ==
  /\ \A i, j \in 1..Len(results) : results[i].test = results[j].test => i = j
  /\ \A i \in 1..Len(results) :
       /\ results[i].test \in doneCh
       /\ results[i].status = completedStatus[results[i].test]
  /\ \A t \in doneCh : \E i \in 1..Len(results) : results[i].test = t

\* The totals of a run that has returned are counted over its results.
Counted ==
  main = "returned" =>
    /\ totals.passed = CountOf("passed")
    /\ totals.failed = CountOf("failed")
    /\ totals.skipped = CountOf("skipped")
    /\ totals.total = Len(results)

\* Every step keeps the list of results and the counters in line with the records.
LEMMA LogStep == IInv /\ LoggedOnce /\ Counted /\ [Next]_vars => (LoggedOnce /\ Counted)'
  <1> SUFFICES ASSUME IInv, LoggedOnce, Counted, [Next]_vars
               PROVE  (LoggedOnce /\ Counted)'
    OBVIOUS
  <1>1. /\ results \in Seq([test : Test, status : Verdicts]) /\ Len(results) \in Nat
        /\ completedStatus \in [Test -> Verdicts \cup {"none"}]
        /\ doneCh \subseteq Test
    BY DEF IInv, TypeOK
  <1>2. ASSUME NEW t \in Test, NEW v \in Verdicts, Publish(t, v), t \notin doneCh
        PROVE  LoggedOnce'
    <2> DEFINE n == Len(results)
               r == [test |-> t, status |-> v]
    <2>1. /\ Len(results') = n + 1 /\ n \in Nat
          /\ results'[n + 1] = r
          /\ \A i \in 1..n : results'[i] = results[i]
      BY <1>1, <1>2 DEF Publish
    <2>2. \A i \in 1..n : results[i].test \in doneCh /\ results[i].test # t
      BY <1>2 DEF LoggedOnce
    <2>3. \A u \in doneCh : completedStatus'[u] = completedStatus[u]
      BY <1>1, <1>2 DEF Publish
    <2>4. completedStatus'[t] = v
      BY <1>1, <1>2 DEF Publish
    <2>5. \A i, j \in 1..n + 1 : results'[i].test = results'[j].test => i = j
      BY <2>1, <2>2 DEF LoggedOnce
    <2>6. \A i \in 1..n + 1 : /\ results'[i].test \in doneCh'
                              /\ results'[i].status = completedStatus'[results'[i].test]
      <3>1. doneCh' = doneCh \cup {t}
        BY <1>2 DEF Publish
      <3>2. SUFFICES ASSUME NEW i \in 1..n + 1
                     PROVE  /\ results'[i].test \in doneCh'
                            /\ results'[i].status = completedStatus'[results'[i].test]
        OBVIOUS
      <3>3. CASE i = n + 1
        BY <2>1, <2>4, <3>1, <3>3
      <3>4. CASE i \in 1..n
        BY <2>1, <2>2, <2>3, <3>1, <3>4 DEF LoggedOnce
      <3>5. QED
        BY <2>1, <3>3, <3>4
    <2>7. \A u \in doneCh' : \E i \in 1..n + 1 : results'[i].test = u
      <3>1. ASSUME NEW u \in doneCh PROVE \E i \in 1..n + 1 : results'[i].test = u
        <4>1. PICK i \in 1..n : results[i].test = u
          BY DEF LoggedOnce
        <4>2. QED
          BY <2>1, <4>1
      <3>2. n + 1 \in 1..n + 1 /\ results'[n + 1].test = t
        BY <2>1
      <3>3. QED
        BY <1>2, <3>1, <3>2 DEF Publish
    <2>8. QED
      BY <2>1, <2>5, <2>6, <2>7 DEF LoggedOnce
  <1>3. ASSUME NEW t \in Test, Record(t) \/ RecordSkip(t) PROVE (LoggedOnce /\ Counted)'
    <2>1. t \notin doneCh /\ main # "returned" /\ main' = main
      BY <1>3 DEF Record, RecordSkip, suiteVars, IInv, EndsAgree, Joined
    <2>2. \E v \in Verdicts : Publish(t, v)
      BY <1>3 DEF Record, RecordSkip, IInv, ResultSet, Verdicts
    <2>3. QED
      BY <1>2, <2>1, <2>2 DEF Counted
  <1>4. CASE Complete
    <2>1. LoggedOnce'
      BY <1>4 DEF Complete, sharedVars, LoggedOnce
    <2>2. Counted'
      BY <1>4 DEF Complete, sharedVars, Counted, CountOf
    <2>3. QED
      BY <2>1, <2>2
  <1>5. ASSUME UNCHANGED <<sharedVars, totals>>, main' = "returned" => main = "returned"
        PROVE  (LoggedOnce /\ Counted)'
    BY <1>5 DEF LoggedOnce, Counted, CountOf, sharedVars
  <1>6. CASE BeforeAll \/ Launch \/ Join \/ Cancel \/ UNCHANGED vars
    BY <1>5, <1>6 DEF BeforeAll, Launch, Join, Cancel, vars, sharedVars
  <1>7. ASSUME NEW t \in Test,
               \/ CheckBail(t) \/ SkipUnknown(t) \/ DependencyDone(t)
               \/ SkipCancelled(t) \/ CheckDependency(t) \/ BeforeEach(t)
               \/ RunTest(t) \/ AfterEach(t)
        PROVE  (LoggedOnce /\ Counted)'
    BY <1>5, <1>7 DEF CheckBail, SkipUnknown, DependencyDone, SkipCancelled,
       CheckDependency, BeforeEach, RunTest, AfterEach, suiteVars
  <1>8. QED
    BY <1>3, <1>4, <1>6, <1>7 DEF Next, Run, Goroutine, Returned

\* Nothing is listed and nothing is counted at the beginning.
LEMMA LogInit == Init => LoggedOnce /\ Counted
  BY DEF Init, LoggedOnce, Counted

\* IInv with what this module adds to it.
Full == IInv /\ SlotsHeld /\ LoggedOnce /\ Counted

\* The invariants together hold in every state of a run.
THEOREM FullInductive == Spec => []Full
  <1>1. Init => Full
    BY InitIInv, SlotsInit, LogInit DEF Full
  <1>2. Full /\ [Next]_vars => Full'
    BY NextIInv, SlotsStep, LogStep DEF Full
  <1>3. QED
    BY <1>1, <1>2, PTL DEF Spec
-----------------------------------------------------------------------------
(* The records of a finished test. *)

\* A test ends once, and the slice of results, the map of statuses and the
\* closed channels tell the same story of it.
THEOREM RecordsNeverDisagree == Spec => []RecordsAgree
  <1>1. Full => RecordsAgree
    <2> SUFFICES ASSUME Full PROVE RecordsAgree
      OBVIOUS
    <2>1. /\ results \in Seq([test : Test, status : Verdicts])
          /\ DOMAIN results = 1..Len(results)
          /\ completedStatus \in [Test -> Verdicts \cup {"none"}]
      BY DEF Full, IInv, TypeOK
    <2>2. \A i \in 1..Len(results) :
            results[i] = [test |-> results[i].test, status |-> results[i].status]
      <3>1. \A i \in 1..Len(results) : results[i] \in [test : Test, status : Verdicts]
        <4> DEFINE R == [test : Test, status : Verdicts]
        <4>1. results \in Seq(R)
          BY <2>1
        <4> HIDE DEF R
        <4>2. \A i \in 1..Len(results) : results[i] \in R
          BY <4>1
        <4>3. QED
          BY <4>2 DEF R
      <3>2. \A r \in [test : Test, status : Verdicts] :
              r = [test |-> r.test, status |-> r.status]
        OBVIOUS
      <3>3. QED
        BY <3>1, <3>2
    <2>3. ASSUME NEW t \in Test, t \in doneCh
          PROVE  \E i \in 1..Len(results) :
                   results[i] = [test |-> t, status |-> completedStatus[t]]
      <3>1. PICK i \in 1..Len(results) : results[i].test = t
        BY <2>3 DEF Full, LoggedOnce
      <3>2. results[i].status = completedStatus[t]
        BY <3>1 DEF Full, LoggedOnce
      <3>3. QED
        BY <2>2, <3>1, <3>2
    <2>4. ASSUME NEW t \in Test, NEW i \in 1..Len(results),
                 results[i] = [test |-> t, status |-> completedStatus[t]]
          PROVE  t \in doneCh
      <3>1. results[i].test = t
        BY <2>4
      <3>2. QED
        BY <3>1 DEF Full, LoggedOnce
    <2>5. \A i, j \in 1..Len(results) : results[i].test = results[j].test => i = j
      BY DEF Full, LoggedOnce
    <2>6. \A t \in Test :
            /\ t \in doneCh <=> completedStatus[t] # "none"
            /\ t \in doneCh <=> pc[t] = "returned"
      BY DEF Full, IInv, EndsAgree
    <2>7. \A t \in Test :
            t \in doneCh <=> \E i \in DOMAIN results :
                              results[i] = [test |-> t, status |-> completedStatus[t]]
      BY <2>1, <2>3, <2>4, Zenon
    <2>8. \A i, j \in DOMAIN results : results[i].test = results[j].test => i = j
      BY <2>1, <2>5, Zenon
    <2>9. QED
      BY <2>6, <2>7, <2>8 DEF RecordsAgree
  <1>2. QED
    BY <1>1, FullInductive, PTL

\* Once every test is recorded, naming the test of a result is a bijection from
\* the results with status v to the tests with status v in the map.
LEMMA CountedTests ==
  ASSUME Full, doneCh = Test
  PROVE  /\ Len(results) = Cardinality(Test)
         /\ \A v \in Verdicts :
              CountOf(v) = Cardinality({t \in Test : completedStatus[t] = v})
  <1>1. /\ Len(results) \in Nat /\ DOMAIN results = 1..Len(results)
        /\ \A i \in 1..Len(results) : results[i].test \in Test
    <2>1. results \in Seq([test : Test, status : Verdicts]) /\ doneCh \subseteq Test
      BY DEF Full, IInv, TypeOK
    <2>2. \A i \in 1..Len(results) : results[i].test \in doneCh
      BY DEF Full, LoggedOnce
    <2>3. Len(results) \in Nat /\ DOMAIN results = 1..Len(results)
      BY <2>1
    <2>4. QED
      BY <2>1, <2>2, <2>3
  <1>2. IsFiniteSet(1..Len(results)) /\ Cardinality(1..Len(results)) = Len(results)
    BY <1>1, FS_Interval
  <1>3. ASSUME NEW I \in SUBSET (1..Len(results)), NEW T \in SUBSET Test,
               \A i \in I : results[i].test \in T,
               \A t \in T : \E i \in I : results[i].test = t
        PROVE  Cardinality(I) = Cardinality(T)
    <2> DEFINE F == [i \in I |-> results[i].test]
    <2>1. F \in [I -> T]
      BY <1>3
    <2>2. \A a, b \in I : F[a] = F[b] => a = b
      BY DEF Full, LoggedOnce
    <2>3. \A t \in T : \E i \in I : F[i] = t
      BY <1>3
    <2> HIDE DEF F
    <2>4. F \in Bijection(I, T)
      BY <2>1, <2>2, <2>3, Fun_IsBij
    <2>5. ExistsBijection(I, T) /\ IsFiniteSet(I)
      BY <1>2, <2>4, FS_Subset DEF ExistsBijection
    <2>6. QED
      BY <2>5, FS_Bijection
  <1>4. Cardinality(1..Len(results)) = Cardinality(Test)
    <2>1. \A t \in Test : \E i \in 1..Len(results) : results[i].test = t
      BY DEF Full, LoggedOnce
    <2>2. QED
      BY <1>1, <1>3, <2>1
  <1>5. ASSUME NEW v \in Verdicts
        PROVE  CountOf(v) = Cardinality({t \in Test : completedStatus[t] = v})
    <2> DEFINE I == {i \in 1..Len(results) : results[i].status = v}
               T == {t \in Test : completedStatus[t] = v}
    <2>1. \A i \in I : results[i].test \in T
      BY <1>1 DEF Full, LoggedOnce
    <2>2. \A t \in T : \E i \in I : results[i].test = t
      <3> SUFFICES ASSUME NEW t \in T PROVE \E i \in I : results[i].test = t
        OBVIOUS
      <3>1. PICK i \in 1..Len(results) : results[i].test = t
        BY DEF Full, LoggedOnce
      <3>2. results[i].status = v
        BY <3>1 DEF Full, LoggedOnce
      <3>3. QED
        BY <3>1, <3>2
    <2>3. Cardinality(I) = Cardinality(T)
      BY <1>3, <2>1, <2>2
    <2>4. QED
      BY <1>1, <2>3 DEF CountOf
  <1>6. QED
    BY <1>2, <1>4, <1>5

\* The suite result counts every test of the suite exactly once.
THEOREM TotalsCountEveryTest == Spec => []TotalsAgree
  <1>1. Full => TotalsAgree
    <2> SUFFICES ASSUME Full, main = "returned" PROVE TotalsAgree
      BY DEF TotalsAgree
    <2>1. doneCh = Test
      BY DEF Full, IInv, Joined, EndsAgree, TypeOK
    <2>2. /\ totals.total = Cardinality(Test)
          /\ \A v \in Verdicts :
               CountOf(v) = Cardinality({t \in Test : completedStatus[t] = v})
      BY <2>1, CountedTests DEF Full, Counted
    <2>3. \A v \in Verdicts : totals[v] = CountOf(v)
      <3>1. /\ totals["passed"] = CountOf("passed")
            /\ totals["failed"] = CountOf("failed")
            /\ totals["skipped"] = CountOf("skipped")
        BY DEF Full, Counted
      <3>2. QED
        BY <3>1 DEF Verdicts
    <2>4. QED
      BY <2>2, <2>3 DEF TotalsAgree
  <1>2. QED
    BY <1>1, FullInductive, PTL
-----------------------------------------------------------------------------
(* Why a test is skipped. *)

\* A dependency of t is unknown, or has failed.
Barred(t) ==
  \E i \in 1..Len(Depends(t)) :
    Depends(t)[i] \notin Test \/ completedStatus[Depends(t)[i]] = "failed"

SomeFailed == \E u \in Test : completedStatus[u] = "failed"

HasExcuse(t) == Barred(t) \/ (suite.bail /\ SomeFailed) \/ cancelled

\* Nothing has barred t: what it depends on is recorded and has not failed.
Admitted(t) ==
  \A i \in 1..Len(Depends(t)) :
    /\ Depends(t)[i] \in Test
    /\ completedStatus[Depends(t)[i]] \notin {"none", "failed"}

\* What RunTest may return.
Outcomes(t) == IF t \in suite.skip THEN {"skipped"} ELSE {"passed", "failed"}

\* A goroutine that is to skip its test has an excuse, one that has run it has
\* an outcome of the right kind, and a recorded status keeps its reason.
ReasonOf(t) ==
  /\ pc[t] = "skipping" => HasExcuse(t)
  /\ pc[t] \in {"afterEach", "recording"} => outcome[t] \in Outcomes(t)
  /\ completedStatus[t] = "skipped" => t \in suite.skip \/ HasExcuse(t)
  /\ completedStatus[t] \in {"passed", "failed"} => t \notin suite.skip /\ Admitted(t)

ReasonInv ==
  /\ bailed => suite.bail /\ SomeFailed
  /\ \A t \in Test : ReasonOf(t)

\* No verdict has been given at the beginning.
LEMMA ReasonInit == Init => ReasonInv
  BY DEF Init, ReasonInv, ReasonOf, HasExcuse

\* The suite is the same to the end, and a recorded status and a cancellation
\* are for good; so are an excuse and an admission.
LEMMA ReasonsLast ==
  ASSUME IInv, [Next]_vars
  PROVE  /\ suite' = suite
         /\ cancelled => cancelled'
         /\ \A u \in Test : completedStatus[u] # "none" =>
              completedStatus'[u] = completedStatus[u]
         /\ \A u \in Test : /\ HasExcuse(u) => HasExcuse(u)'
                            /\ Admitted(u) => Admitted(u)'
         /\ SomeFailed => SomeFailed'
  <1>1. suite' = suite /\ (cancelled => cancelled')
    BY DEF Next, Run, Goroutine, BeforeAll, Launch, Join, Complete, CheckBail, SkipUnknown,
       DependencyDone, SkipCancelled, CheckDependency, BeforeEach, RunTest, AfterEach,
       RecordSkip, Record, Cancel, Returned, suiteVars, vars
  <1>2. ASSUME NEW u \in Test, completedStatus[u] # "none"
        PROVE  completedStatus'[u] = completedStatus[u]
    <2>1. pc[u] = "returned" /\ completedStatus \in [Test -> Verdicts \cup {"none"}]
      BY <1>2 DEF IInv, EndsAgree, TypeOK
    <2>2. ASSUME NEW t \in Test, NEW v, Publish(t, v), pc[t] # "returned"
          PROVE  completedStatus'[u] = completedStatus[u]
      BY <2>1, <2>2 DEF Publish
    <2>3. ASSUME NEW t \in Test, Record(t) \/ RecordSkip(t)
          PROVE  completedStatus'[u] = completedStatus[u]
      BY <2>2, <2>3 DEF Record, RecordSkip
    <2>4. QED
      BY <2>3 DEF Next, Run, Goroutine, BeforeAll, Launch, Join, Complete, CheckBail,
         SkipUnknown, DependencyDone, SkipCancelled, CheckDependency, BeforeEach, RunTest,
         AfterEach, Cancel, Returned, suiteVars, sharedVars, vars
  <1>3. SomeFailed => SomeFailed'
    BY <1>2 DEF SomeFailed
  <1>4. ASSUME NEW u \in Test
        PROVE  (Barred(u) => Barred(u)') /\ (Admitted(u) => Admitted(u)')
    BY <1>1, <1>2 DEF Barred, Admitted, Depends
  <1>5. ASSUME NEW u \in Test PROVE HasExcuse(u) => HasExcuse(u)'
    BY <1>1, <1>3, <1>4 DEF HasExcuse
  <1>6. QED
    BY <1>1, <1>2, <1>3, <1>4, <1>5

\* A verdict is given for a reason, and the reason stays.
LEMMA ReasonStep == IInv /\ ReasonInv /\ [Next]_vars => ReasonInv'
  <1> SUFFICES ASSUME IInv, ReasonInv, [Next]_vars PROVE ReasonInv'
    OBVIOUS
  <1>1. /\ pc \in [Test -> {"idle", "started", "waiting", "checking", "skipping",
                            "body", "afterEach", "recording", "returned"}]
        /\ outcome \in [Test -> Verdicts \cup {"none"}]
        /\ completedStatus \in [Test -> Verdicts \cup {"none"}]
    BY DEF IInv, TypeOK
  <1>2. /\ suite' = suite
        /\ \A u \in Test : Outcomes(u)' = Outcomes(u)
    BY ReasonsLast DEF Outcomes
  \* A test whose goroutine stays where it is keeps its reason.
  <1>3. ASSUME NEW u \in Test, pc'[u] = pc[u], outcome'[u] = outcome[u],
               completedStatus'[u] = completedStatus[u]
        PROVE  ReasonOf(u)'
    BY <1>2, <1>3, ReasonsLast DEF ReasonInv, ReasonOf
  <1>4. CASE UNCHANGED <<bailed, completedStatus, outcome>> /\ \A u \in Test : pc'[u] = pc[u]
    BY <1>2, <1>3, <1>4, ReasonsLast DEF ReasonInv
  <1>5. CASE Launch
    <2>1. suite.order[next] \in Test
      BY <1>5, SuiteFacts DEF Launch, IInv, TypeOK
    <2>2. \A u \in Test : ReasonOf(u)'
      BY <1>1, <1>2, <1>5, <2>1, ReasonsLast DEF Launch, sharedVars, ReasonInv, ReasonOf
    <2>3. QED
      BY <1>2, <1>5, <2>2, ReasonsLast DEF Launch, sharedVars, ReasonInv
  <1>6. ASSUME NEW t \in Test, NEW v, pc' = [pc EXCEPT ![t] = v],
               UNCHANGED <<bailed, completedStatus>>,
               \A u \in Test \ {t} : outcome'[u] = outcome[u],
               v = "skipping" => HasExcuse(t),
               v \in {"afterEach", "recording"} => outcome'[t] \in Outcomes(t)
        PROVE  ReasonInv'
    <2>1. ReasonOf(t)'
      BY <1>1, <1>2, <1>6, ReasonsLast DEF ReasonInv, ReasonOf
    <2>2. \A u \in Test \ {t} : ReasonOf(u)'
      BY <1>1, <1>3, <1>6
    <2>3. QED
      BY <1>2, <1>6, <2>1, <2>2, ReasonsLast DEF ReasonInv
  <1>7. ASSUME NEW t \in Test, CheckBail(t) PROVE ReasonInv'
    <2>1. bailed => HasExcuse(t)
      BY DEF ReasonInv, HasExcuse
    <2>2. QED
      BY <1>6, <1>7, <2>1 DEF CheckBail, sharedVars
  <1>8. ASSUME NEW t \in Test, SkipUnknown(t) \/ SkipCancelled(t) PROVE ReasonInv'
    <2>1. dep[t] \in Nat \ {0} /\ Len(Depends(t)) \in Nat
      BY SuiteFacts DEF IInv, TypeOK
    <2>2. HasExcuse(t)
      BY <1>8, <2>1 DEF SkipUnknown, SkipCancelled, HasExcuse, Barred
    <2>3. QED
      BY <1>6, <1>8, <2>2 DEF SkipUnknown, SkipCancelled, sharedVars
  <1>9. ASSUME NEW t \in Test, DependencyDone(t) \/ BeforeEach(t) PROVE ReasonInv'
    BY <1>6, <1>9 DEF DependencyDone, BeforeEach, sharedVars
  <1>10. ASSUME NEW t \in Test, CheckDependency(t) PROVE ReasonInv'
    <2>1. dep[t] \in 1..Len(Depends(t))
      BY <1>10, SuiteFacts DEF CheckDependency, IInv, TypeOK, LeftBehind, BehindOf
    <2>2. CASE completedStatus[Depends(t)[dep[t]]] = "failed"
      BY <1>6, <1>10, <2>1, <2>2 DEF CheckDependency, HasExcuse, Barred, sharedVars
    <2>3. CASE completedStatus[Depends(t)[dep[t]]] # "failed"
      BY <1>6, <1>10, <2>3 DEF CheckDependency, sharedVars
    <2>4. QED
      BY <2>2, <2>3
  <1>11. ASSUME NEW t \in Test, RunTest(t) PROVE ReasonInv'
    <2>1. PICK v \in Outcomes(t) : outcome' = [outcome EXCEPT ![t] = v]
      BY <1>11 DEF RunTest, Outcomes
    <2>2. QED
      BY <1>1, <1>6, <1>11, <2>1 DEF RunTest, sharedVars
  <1>12. ASSUME NEW t \in Test, AfterEach(t) PROVE ReasonInv'
    <2>1. outcome[t] \in Outcomes(t)
      <3>1. pc[t] = "afterEach" \/ pc[t] = "recording" \/ pc[t] = "body"
        BY <1>12 DEF AfterEach
      <3>2. QED
        BY <1>12 DEF AfterEach, ReasonInv, ReasonOf
    <2>2. QED
      BY <1>6, <1>12, <2>1 DEF AfterEach, sharedVars
  <1>13. ASSUME NEW t \in Test, NEW v, Publish(t, v), outcome' = outcome,
                v = "skipped" => t \in suite.skip \/ HasExcuse(t),
                v \in {"passed", "failed"} => t \notin suite.skip /\ Admitted(t),
                v \in Verdicts, bailed' => bailed \/ (suite.bail /\ v = "failed")
         PROVE  ReasonInv'
    <2>1. /\ completedStatus' = [completedStatus EXCEPT ![t] = v]
          /\ pc' = [pc EXCEPT ![t] = "returned"]
      BY <1>13 DEF Publish
    <2>2. ReasonOf(t)'
      BY <1>1, <1>2, <1>13, <2>1, ReasonsLast DEF ReasonOf
    <2>3. \A u \in Test \ {t} : ReasonOf(u)'
      BY <1>1, <1>3, <1>13, <2>1
    <2>4. bailed' => suite'.bail /\ SomeFailed'
      <3>1. v = "failed" => SomeFailed'
        BY <1>1, <2>1 DEF SomeFailed
      <3>2. QED
        BY <1>2, <1>13, <3>1, ReasonsLast, Zenon DEF ReasonInv
    <2>5. QED
      BY <2>2, <2>3, <2>4 DEF ReasonInv
  <1>14. ASSUME NEW t \in Test, RecordSkip(t) PROVE ReasonInv'
    <2>1. HasExcuse(t)
      BY <1>14 DEF RecordSkip, ReasonInv, ReasonOf
    <2>2. QED
      BY <1>13, <1>14, <2>1 DEF RecordSkip, Verdicts
  <1>15. ASSUME NEW t \in Test, Record(t) PROVE ReasonInv'
    <2>1. outcome[t] \in Outcomes(t)
      BY <1>15 DEF Record, ReasonInv, ReasonOf
    <2>2. Admitted(t)
      <3> SUFFICES ASSUME NEW i \in 1..Len(Depends(t))
                   PROVE  /\ Depends(t)[i] \in Test
                          /\ completedStatus[Depends(t)[i]] \notin {"none", "failed"}
        BY DEF Admitted
      <3>1. i < dep[t]
        BY <1>15, SuiteFacts DEF Record, IInv, TypeOK, LeftBehind, BehindOf, InBody
      <3>2. Depends(t)[i] \in doneCh /\ completedStatus[Depends(t)[i]] # "failed"
        BY <3>1 DEF IInv, LeftBehind, BehindOf
      <3>3. QED
        BY <3>2 DEF IInv, TypeOK, EndsAgree
    <2>3. outcome[t] = "skipped" => t \in suite.skip
      BY <2>1 DEF Outcomes
    <2>4. outcome[t] \in {"passed", "failed"} => t \notin suite.skip
      BY <2>1 DEF Outcomes
    <2>5. /\ outcome[t] \in Verdicts /\ Publish(t, outcome[t]) /\ outcome' = outcome
          /\ bailed' = (bailed \/ (outcome[t] = "failed" /\ suite.bail))
      BY <1>15, <2>1 DEF Record, Outcomes, Verdicts
    <2>6. bailed' => bailed \/ (suite.bail /\ outcome[t] = "failed")
      BY <2>5, Zenon
    <2>7. QED
      BY <1>13, <2>2, <2>3, <2>4, <2>5, <2>6
  <1>16. CASE BeforeAll \/ Join \/ Complete \/ Cancel \/ UNCHANGED vars
    BY <1>4, <1>16 DEF BeforeAll, Join, Complete, Cancel, sharedVars, vars
  <1>17. QED
    BY <1>5, <1>7, <1>8, <1>9, <1>10, <1>11, <1>12, <1>14, <1>15, <1>16
       DEF Next, Run, Goroutine, Returned

\* In the words of the contract.
LEMMA ExcuseOfContract ==
  ASSUME suite \in Suites, NEW t \in Test
  PROVE  /\ Contract!IsBarred(Asked, completedStatus, t) <=> Barred(t)
         /\ completedStatus \in [Test -> Verdicts \cup {"none"}] =>
              (Contract!Excused(Asked, cancelled, completedStatus, t) <=> HasExcuse(t))
  <1>1. /\ Asked.tests = Test /\ Asked.bail = suite.bail
        /\ Asked.depends[t] = {Depends(t)[i] : i \in 1..Len(Depends(t))}
    BY SuiteFacts DEF Asked
  <1>2. Contract!IsBarred(Asked, completedStatus, t) <=> Barred(t)
    BY <1>1 DEF Contract!IsBarred, Barred
  <1>3. ASSUME completedStatus \in [Test -> Verdicts \cup {"none"}]
        PROVE  Contract!Failures(completedStatus) # {} <=> SomeFailed
    BY <1>3 DEF Contract!Failures, SomeFailed
  <1>4. QED
    BY <1>1, <1>2, <1>3 DEF Contract!Excused, HasExcuse

\* When every test has its status, the statuses are among those the caller of
\* the suite may find.
LEMMA StatusesPossible ==
  ASSUME IInv, ReasonInv, \A t \in Test : completedStatus[t] # "none"
  PROVE  completedStatus \in Contract!PossibleVerdicts(Asked, cancelled)
  <1>1. completedStatus \in [Test -> {"passed", "failed", "skipped"}]
    BY DEF IInv, TypeOK, Verdicts
  <1>2. Asked.tests = Test /\ Asked.skip = suite.skip
    BY DEF Asked
  <1>3. ASSUME NEW t \in Test
        PROVE  Contract!Justified(Asked, cancelled, completedStatus, t)
    <2>1. /\ Contract!IsBarred(Asked, completedStatus, t) <=> Barred(t)
          /\ Contract!Excused(Asked, cancelled, completedStatus, t) <=> HasExcuse(t)
      BY <1>1, ExcuseOfContract DEF IInv, TypeOK
    <2>2. completedStatus[t] # "skipped" => t \notin suite.skip /\ ~Barred(t)
      BY <1>1 DEF ReasonInv, ReasonOf, Admitted, Barred
    <2>3. completedStatus[t] = "skipped" => t \in suite.skip \/ HasExcuse(t)
      BY DEF ReasonInv, ReasonOf
    <2>4. QED
      BY <1>2, <2>1, <2>2, <2>3 DEF Contract!Justified
  <1>4. QED
    BY <1>1, <1>2, <1>3 DEF Contract!PossibleVerdicts

\* Every verdict has its reason in every state.
LEMMA ReasonInductive == Spec => []ReasonInv
  BY ReasonInit, ReasonStep, Inductive, PTL DEF Spec

\* A test is recorded as skipped only if it is marked `skip' or there is an
\* excuse for it, and a test whose body was run had every dependency recorded
\* and not failed, and still has: no later step takes a reason back.
THEOREM VerdictsHaveReasons ==
  Spec => [](\A t \in Test :
               /\ completedStatus[t] = "skipped" => t \in suite.skip \/ HasExcuse(t)
               /\ completedStatus[t] \in {"passed", "failed"} =>
                    t \notin suite.skip /\ Admitted(t))
  <1>1. ReasonInv => \A t \in Test :
                       /\ completedStatus[t] = "skipped" => t \in suite.skip \/ HasExcuse(t)
                       /\ completedStatus[t] \in {"passed", "failed"} =>
                            t \notin suite.skip /\ Admitted(t)
    BY DEF ReasonInv, ReasonOf
  <1>2. QED
    BY <1>1, ReasonInductive, PTL

\* What the caller of Run is given is one of the possible verdicts.
THEOREM VerdictsPossible ==
  Spec => [](main = "returned" =>
               completedStatus \in Contract!PossibleVerdicts(Asked, cancelled))
  <1>1. IInv /\ ReasonInv =>
          (main = "returned" => completedStatus \in Contract!PossibleVerdicts(Asked, cancelled))
    BY StatusesPossible DEF IInv, Joined, EndsAgree
  <1>2. QED
    BY <1>1, Inductive, ReasonInductive, PTL
-----------------------------------------------------------------------------
(* The refinement. *)

Running == {t \in Test : InBody(t)}

\* A step that changes no verdict, begins or ends no body and does not return
\* from Run is not seen by the contract.
LEMMA Unseen ==
  ASSUME suite' = suite, completedStatus' = completedStatus, Running' = Running,
         main' = "returned" <=> main = "returned", cancelled' = cancelled
  PROVE  UNCHANGED Contract!contractVars
  <1>1. Slots' = Slots /\ Asked' = Asked
    BY DEF Slots, Asked, Depends
  <1>2. (main = "returned")' = (main = "returned")
    OBVIOUS
  <1>3. QED
    BY <1>1, <1>2 DEF Contract!contractVars, Running

\* The contract counts with the Cardinality of its own instance of FiniteSets.
LEMMA SameCardinality == Contract!Cardinality(Running) = Cardinality(Running)
  BY Zenon DEF Contract!Cardinality, Cardinality

\* The initial states are initial states of the contract.
LEMMA InitRefines == Init => Contract!CInit
  <1> SUFFICES ASSUME Init PROVE Contract!CInit
    OBVIOUS
  <1>1. Asked \in [tests : {Test}, depends : [Test -> SUBSET Name], skip : SUBSET Test, bail : BOOLEAN]
    <2>1. suite \in RunRequest
      BY SuiteAssumption DEF Init
    <2>2. \A t \in Test : \A i \in DOMAIN Depends(t) : Depends(t)[i] \in Name
      BY <2>1 DEF RunRequest, Depends
    <2>3. QED
      BY <2>1, <2>2 DEF Asked, RunRequest
  <1>2. Slots \in Nat \ {0}
    BY SuiteFacts DEF Init
  <1>3. /\ completedStatus = [t \in Test |-> "none"]
        /\ Running = {}
        /\ (main = "returned") = FALSE
        /\ cancelled = FALSE
    BY DEF Init, Running, InBody
  <1>4. QED
    BY <1>1, <1>2, <1>3 DEF Contract!CInit, Running

\* Every step is a step of the contract, or one that it does not see.
LEMMA StepRefines ==
  Full /\ ReasonInv /\ [Next]_vars => [Contract!CNext]_Contract!contractVars
  <1> SUFFICES ASSUME Full, ReasonInv, [Next]_vars
               PROVE  [Contract!CNext]_Contract!contractVars
    OBVIOUS
  <1>1. /\ pc \in [Test -> {"idle", "started", "waiting", "checking", "skipping",
                            "body", "afterEach", "recording", "returned"}]
        /\ completedStatus \in [Test -> Verdicts \cup {"none"}]
    BY DEF Full, IInv, TypeOK
  \* The suite asked for, and the limit, are the same in every step.
  <1>a. suite' = suite => Slots' = Slots /\ Asked' = Asked
    BY DEF Slots, Asked, Depends
  <1>2. CASE BeforeAll \/ Launch \/ Join \/ UNCHANGED vars
    <2>1. /\ suite' = suite /\ completedStatus' = completedStatus /\ cancelled' = cancelled
          /\ main' = "returned" <=> main = "returned"
      BY <1>2 DEF BeforeAll, Launch, Join, vars, sharedVars
    <2>2. CASE Launch
      <3> DEFINE u == suite.order[next]
      <3>1. u \in Test /\ pc[u] = "idle"
        BY <2>2, SuiteFacts DEF Launch, Full, IInv, TypeOK, HandedOver
      <3>2. Running' = Running
        BY <1>1, <2>2, <3>1 DEF Launch, Running, InBody
      <3>3. QED
        BY <2>1, <3>2, Unseen
    <2>3. CASE pc' = pc
      <3>1. Running' = Running
        BY <2>3 DEF Running, InBody
      <3>2. QED
        BY <2>1, <3>1, Unseen
    <2>4. QED
      BY <1>2, <2>2, <2>3 DEF BeforeAll, Join, vars
  <1>3. ASSUME NEW t \in Test,
               \/ CheckBail(t) \/ SkipUnknown(t) \/ DependencyDone(t)
               \/ SkipCancelled(t) \/ CheckDependency(t) \/ RunTest(t) \/ AfterEach(t)
        PROVE  UNCHANGED Contract!contractVars
    <2>1. /\ suite' = suite /\ completedStatus' = completedStatus /\ main' = main
          /\ cancelled' = cancelled /\ Running' = Running
      <3>1. /\ suite' = suite /\ completedStatus' = completedStatus /\ main' = main
            /\ cancelled' = cancelled
        BY <1>3 DEF CheckBail, SkipUnknown, DependencyDone, SkipCancelled,
           CheckDependency, RunTest, AfterEach, suiteVars, sharedVars
      <3>2. \E v : /\ pc' = [pc EXCEPT ![t] = v]
                   /\ \/ /\ pc[t] \in {"started", "waiting", "checking"}
                         /\ v \in {"waiting", "checking", "skipping"}
                      \/ /\ pc[t] \in {"body", "afterEach"}
                         /\ v \in {"afterEach", "recording"}
        BY <1>3 DEF CheckBail, SkipUnknown, DependencyDone, SkipCancelled,
           CheckDependency, RunTest, AfterEach
      <3>3. QED
        BY <1>1, <3>1, <3>2 DEF Running, InBody
    <2>2. QED
      BY <2>1, Unseen
  <1>4. ASSUME NEW t \in Test, BeforeEach(t) PROVE Contract!Begin(t)
    <2>1. Running' = Running \cup {t} /\ t \notin Running
      BY <1>1, <1>4 DEF BeforeEach, Running, InBody
    <2>2. completedStatus[t] = "none"
      BY <1>4 DEF BeforeEach, Full, IInv, EndsAgree
    <2>3. \A d \in Asked.depends[t] : d \in Test /\ completedStatus[d] \notin {"none", "failed"}
      <3>1. Asked.depends[t] = {Depends(t)[i] : i \in 1..Len(Depends(t))}
        BY SuiteFacts DEF Asked, Full, IInv
      <3>2. SUFFICES ASSUME NEW i \in 1..Len(Depends(t))
                     PROVE  /\ Depends(t)[i] \in Test
                            /\ completedStatus[Depends(t)[i]] \notin {"none", "failed"}
        BY <3>1
      <3>3. i < dep[t]
        BY <1>4, SuiteFacts DEF BeforeEach, Full, IInv, TypeOK
      <3>4. Depends(t)[i] \in doneCh /\ completedStatus[Depends(t)[i]] # "failed"
        BY <3>3 DEF Full, IInv, LeftBehind, BehindOf
      <3>5. QED
        BY <3>4 DEF Full, IInv, EndsAgree, TypeOK
    <2>4. Cardinality(Running) < Slots
      <3>1. t \in Occupied /\ Running \subseteq Occupied \ {t}
        BY <1>4, <2>1 DEF BeforeEach, Occupied, Running, InBody
      <3>2. /\ IsFiniteSet(Occupied \ {t})
            /\ Cardinality(Occupied \ {t}) = Cardinality(Occupied) - 1
        BY <3>1, OccupiedFinite, FS_RemoveElement
      <3>3. Cardinality(Running) <= Cardinality(Occupied \ {t}) /\ Cardinality(Running) \in Nat
        BY <3>1, <3>2, FS_Subset, FS_CardinalityType
      <3>4. Slots \in Nat
        BY SuiteFacts DEF Full, IInv
      <3>5. QED
        BY <3>2, <3>3, <3>4, OccupiedFinite DEF Full, SlotsHeld
    <2>5. UNCHANGED <<suite, completedStatus, main, cancelled>>
      BY <1>4 DEF BeforeEach, suiteVars, sharedVars
    <2>6. QED
      BY <1>a, <2>1, <2>2, <2>3, <2>4, <2>5, SameCardinality DEF Contract!Begin, Running
  <1>5. ASSUME NEW t \in Test, Record(t) PROVE Contract!Finish(t)
    <2>1. t \in Running /\ Running' = Running \ {t}
      BY <1>1, <1>5 DEF Record, Publish, Running, InBody
    <2>2. \E v \in Outcomes(t) : completedStatus' = [completedStatus EXCEPT ![t] = v]
      BY <1>5 DEF Record, Publish, ReasonInv, ReasonOf
    <2>3. UNCHANGED <<suite, main, cancelled>> /\ Asked.skip = suite.skip
      BY <1>5 DEF Record, suiteVars, Asked
    <2>4. QED
      BY <1>a, <2>1, <2>2, <2>3 DEF Contract!Finish, Running, Outcomes
  <1>6. ASSUME NEW t \in Test, RecordSkip(t) PROVE Contract!PassOver(t)
    <2>1. t \notin Running /\ Running' = Running
      BY <1>1, <1>6 DEF RecordSkip, Publish, Running, InBody
    <2>2. /\ completedStatus' = [completedStatus EXCEPT ![t] = "skipped"]
          /\ completedStatus[t] = "none"
      BY <1>6 DEF RecordSkip, Publish, Full, IInv, EndsAgree
    <2>3. UNCHANGED <<suite, main, cancelled>>
      BY <1>6 DEF RecordSkip, suiteVars
    <2>4. HasExcuse(t)
      BY <1>6 DEF RecordSkip, ReasonInv, ReasonOf
    <2>5. Contract!Excused(Asked, cancelled, completedStatus, t)
      BY <1>1, <2>4, ExcuseOfContract DEF Full, IInv
    <2>6. QED
      BY <1>a, <2>1, <2>2, <2>3, <2>5 DEF Contract!PassOver, Running
  <1>7. CASE Cancel
    <2>1. UNCHANGED <<suite, main, completedStatus, pc>> /\ cancelled' = TRUE
      BY <1>7 DEF Cancel, sharedVars
    <2>2. ~cancelled /\ main # "returned" /\ Running' = Running
      BY <1>7, <2>1 DEF Cancel, Running, InBody
    <2>3. Contract!Interrupt
      BY <1>a, <2>1, <2>2 DEF Contract!Interrupt, Running
    <2>4. QED
      BY <2>3 DEF Contract!CNext
  <1>8. CASE Complete
    <2>1. Running = {} /\ \A t \in Test : completedStatus[t] # "none"
      BY <1>8 DEF Complete, Full, IInv, Joined, EndsAgree, Running, InBody
    <2>2. UNCHANGED <<suite, completedStatus, pc, cancelled>>
      BY <1>8 DEF Complete, sharedVars
    <2>3. Running' = Running
      BY <2>2 DEF Running, InBody
    <2>4. main # "returned" /\ main' = "returned"
      BY <1>8 DEF Complete
    <2>5. completedStatus \in Contract!PossibleVerdicts(Asked, cancelled)
      BY <2>1, StatusesPossible DEF Full
    <2>6. Contract!Conclude
      BY <1>a, <2>1, <2>2, <2>3, <2>4, <2>5 DEF Contract!Conclude, Running
    <2>7. QED
      BY <2>6 DEF Contract!CNext
  <1>9. QED
    BY <1>2, <1>3, <1>4, <1>5, <1>6, <1>7, <1>8
       DEF Next, Run, Goroutine, Returned, Contract!CNext

\* Every run of the orchestrator keeps the contract of a suite run.
THEOREM OrchestratorImplementsContract == Spec => ImplementsContract
  <1>1. Spec => Contract!CSpec
    BY InitRefines, StepRefines, FullInductive, ReasonInductive, PTL DEF Spec, Contract!CSpec
  <1>2. QED
    BY <1>1 DEF ImplementsContract
-----------------------------------------------------------------------------
(* Bail. *)

\* The tests past the bail check that may still record a body.
PastCheck ==
  {t \in Test : pc[t] \in {"waiting", "checking", "body", "afterEach", "recording"}}

\* The bodies recorded after result i.
RecordedAfter(i) ==
  {j \in 1..Len(results) : j > i /\ results[j].status \in {"passed", "failed"}}

\* Once a failure is recorded with bail, the bodies recorded after it and those
\* still to come held a slot together, next to the failing test.
BailInv ==
  suite.bail => \A i \in 1..Len(results) : results[i].status = "failed" =>
    /\ bailed
    /\ Cardinality(RecordedAfter(i)) + Cardinality(PastCheck) < Slots

\* The tests past the bail check can be counted.
LEMMA PastCheckFinite == IsFiniteSet(PastCheck) /\ Cardinality(PastCheck) \in Nat
  BY SuiteAssumption, FS_Subset, FS_CardinalityType DEF PastCheck

\* The results listed after one of them can be counted.
LEMMA RecordedFinite ==
  ASSUME Len(results) \in Nat, NEW i
  PROVE  IsFiniteSet(RecordedAfter(i)) /\ Cardinality(RecordedAfter(i)) \in Nat
  <1>1. IsFiniteSet(1..Len(results))
    BY FS_Interval
  <1>2. RecordedAfter(i) \in SUBSET (1..Len(results))
    BY DEF RecordedAfter
  <1>3. QED
    BY <1>1, <1>2, FS_Subset, FS_CardinalityType

\* Every step keeps the bound on what is recorded after a failure.
LEMMA BailStep == Full /\ BailInv /\ [Next]_vars => BailInv'
  <1> SUFFICES ASSUME Full, BailInv, [Next]_vars PROVE BailInv'
    OBVIOUS
  <1>1. /\ pc \in [Test -> {"idle", "started", "waiting", "checking", "skipping",
                            "body", "afterEach", "recording", "returned"}]
        /\ results \in Seq([test : Test, status : Verdicts]) /\ Len(results) \in Nat
        /\ Slots \in Nat
    BY SuiteFacts DEF Full, IInv, TypeOK
  <1>2. ASSUME suite' = suite, results' = results, bailed' = bailed,
               bailed => PastCheck' \subseteq PastCheck
        PROVE  BailInv'
    <2> SUFFICES ASSUME suite.bail, NEW i \in 1..Len(results),
                        results[i].status = "failed"
                 PROVE  /\ bailed
                        /\ Cardinality(RecordedAfter(i)) + Cardinality(PastCheck') < Slots
      BY <1>2 DEF BailInv, RecordedAfter, Slots
    <2>1. bailed /\ Cardinality(RecordedAfter(i)) + Cardinality(PastCheck) < Slots
      BY DEF BailInv
    <2>2. Cardinality(PastCheck') <= Cardinality(PastCheck) /\ Cardinality(PastCheck') \in Nat
      BY <1>2, <2>1, PastCheckFinite, FS_Subset, FS_CardinalityType
    <2>3. QED
      BY <1>1, <2>1, <2>2, RecordedFinite, PastCheckFinite
  <1>3. CASE BeforeAll \/ Launch \/ Join \/ Complete \/ Cancel \/ UNCHANGED vars
    <2>1. suite' = suite /\ results' = results /\ bailed' = bailed
      BY <1>3 DEF BeforeAll, Launch, Join, Complete, Cancel, vars, sharedVars
    <2>2. CASE Launch
      <3>1. suite.order[next] \in Test
        BY <2>2, SuiteFacts DEF Launch, Full, IInv, TypeOK
      <3>2. PastCheck' \subseteq PastCheck
        BY <1>1, <2>2, <3>1 DEF Launch, PastCheck
      <3>3. QED
        BY <1>2, <2>1, <3>2
    <2>3. CASE pc' = pc
      BY <1>2, <2>1, <2>3 DEF PastCheck
    <2>4. QED
      BY <1>3, <2>2, <2>3 DEF BeforeAll, Join, Complete, Cancel, vars
  <1>4. ASSUME NEW t \in Test,
               \/ CheckBail(t) \/ SkipUnknown(t) \/ DependencyDone(t)
               \/ SkipCancelled(t) \/ CheckDependency(t) \/ BeforeEach(t)
               \/ RunTest(t) \/ AfterEach(t)
        PROVE  BailInv'
    <2>1. suite' = suite /\ results' = results /\ bailed' = bailed
      BY <1>4 DEF CheckBail, SkipUnknown, DependencyDone, SkipCancelled,
         CheckDependency, BeforeEach, RunTest, AfterEach, suiteVars, sharedVars
    <2>2. \E v : /\ pc' = [pc EXCEPT ![t] = v]
                 /\ \/ t \in PastCheck
                    \/ bailed => v = "skipping"
      BY <1>4 DEF CheckBail, SkipUnknown, DependencyDone, SkipCancelled,
         CheckDependency, BeforeEach, RunTest, AfterEach, PastCheck
    <2>3. bailed => PastCheck' \subseteq PastCheck
      BY <1>1, <2>2 DEF PastCheck
    <2>4. QED
      BY <1>2, <2>1, <2>3
  <1>5. ASSUME NEW t \in Test, Record(t) \/ RecordSkip(t) PROVE BailInv'
    <2> DEFINE n == Len(results)
    <2>1. PICK v \in Verdicts : /\ Publish(t, v)
                                /\ RecordSkip(t) => v = "skipped"
                                /\ Record(t) => v = outcome[t]
      BY <1>5 DEF Record, RecordSkip, Full, IInv, ResultSet, Verdicts
    <2>2. /\ n \in Nat /\ Len(results') = n + 1
          /\ results'[n + 1].status = v
          /\ \A i \in 1..n : results'[i] = results[i]
      BY <1>1, <2>1 DEF Publish
    <2>3. PastCheck' = PastCheck \ {t}
      BY <1>1, <2>1 DEF Publish, PastCheck
    <2>4. /\ suite' = suite /\ Slots' = Slots
          /\ bailed => bailed'
          /\ v = "failed" /\ suite.bail => bailed'
      <3>1. suite' = suite /\ Slots' = Slots
        BY <1>5 DEF Record, RecordSkip, suiteVars, Slots
      <3>2. \/ RecordSkip(t) /\ v = "skipped" /\ bailed' = bailed
            \/ /\ Record(t) /\ v = outcome[t]
               /\ bailed' = (bailed \/ (outcome[t] = "failed" /\ suite.bail))
        BY <1>5, <2>1, Zenon DEF Record, RecordSkip
      <3>3. bailed => bailed'
        BY <3>2, Zenon
      <3>4. ASSUME v = "failed", suite.bail PROVE bailed'
        <4>1. v # "skipped"
          BY <3>4
        <4>2. v = outcome[t] /\ bailed' = (bailed \/ (outcome[t] = "failed" /\ suite.bail))
          BY <3>2, <4>1, Zenon
        <4>3. QED
          BY <3>4, <4>2, Zenon
      <3>5. QED
        BY <3>1, <3>3, <3>4, Zenon
    <2>5. v # "skipped" => t \in PastCheck
      BY <1>5, <2>1 DEF Record, RecordSkip, PastCheck
    <2>6. /\ IsFiniteSet(PastCheck')
          /\ Cardinality(PastCheck') = IF t \in PastCheck THEN Cardinality(PastCheck) - 1
                                       ELSE Cardinality(PastCheck)
      BY <2>3, PastCheckFinite, FS_RemoveElement
    <2>7. SUFFICES ASSUME suite.bail, NEW i \in 1..n + 1, results'[i].status = "failed"
                   PROVE  /\ bailed'
                          /\ Cardinality(RecordedAfter(i)') + Cardinality(PastCheck') < Slots
      BY <2>2, <2>4 DEF BailInv
    <2>8. CASE i = n + 1
      <3>1. v = "failed" /\ t \in PastCheck /\ t \in Occupied
        BY <2>2, <2>5, <2>7, <2>8 DEF PastCheck, Occupied
      <3>2. RecordedAfter(i)' = {}
        BY <2>2, <2>8 DEF RecordedAfter
      <3>3. PastCheck \subseteq Occupied
        BY DEF PastCheck, Occupied
      <3>4. Cardinality(PastCheck) <= Cardinality(Occupied)
        BY <3>3, OccupiedFinite, FS_Subset
      <3>5. QED
        BY <1>1, <2>4, <2>6, <2>7, <3>1, <3>2, <3>4, FS_EmptySet, PastCheckFinite,
           OccupiedFinite DEF Full, SlotsHeld
    <2>9. CASE i \in 1..n
      <3>1. bailed /\ Cardinality(RecordedAfter(i)) + Cardinality(PastCheck) < Slots
        BY <2>2, <2>7, <2>9 DEF BailInv
      <3>2. CASE v = "skipped"
        <4>1. RecordedAfter(i)' = RecordedAfter(i)
          BY <2>2, <2>9, <3>2 DEF RecordedAfter
        <4>2. QED
          BY <1>1, <2>4, <2>6, <3>1, <4>1, PastCheckFinite, RecordedFinite
      <3>3. CASE v # "skipped"
        <4>1. RecordedAfter(i)' \subseteq RecordedAfter(i) \cup {n + 1}
          BY <2>2, <2>9 DEF RecordedAfter
        <4>2. /\ IsFiniteSet(RecordedAfter(i) \cup {n + 1})
              /\ Cardinality(RecordedAfter(i) \cup {n + 1}) <= Cardinality(RecordedAfter(i)) + 1
              /\ Cardinality(RecordedAfter(i) \cup {n + 1}) \in Nat
          <5>1. IsFiniteSet(RecordedAfter(i)) /\ Cardinality(RecordedAfter(i)) \in Nat
            BY <1>1, RecordedFinite
          <5>2. QED
            BY <5>1, FS_AddElement, FS_CardinalityType
        <4>3. /\ Cardinality(RecordedAfter(i)') <= Cardinality(RecordedAfter(i) \cup {n + 1})
              /\ Cardinality(RecordedAfter(i)') \in Nat
          BY <4>1, <4>2, FS_Subset, FS_CardinalityType
        <4>4. QED
          BY <1>1, <2>4, <2>5, <2>6, <3>1, <3>3, <4>2, <4>3, PastCheckFinite, RecordedFinite
      <3>4. QED
        BY <3>2, <3>3
    <2>10. QED
      BY <2>2, <2>8, <2>9
  <1>6. QED
    BY <1>3, <1>4, <1>5 DEF Next, Run, Goroutine, Returned

\* With bail, fewer test bodies than there are slots are recorded after any
\* recorded failure, whatever the interleaving of the goroutines.
THEOREM BailIsBounded == Spec => []BailBound
  <1>1. Init => BailInv
    BY DEF Init, BailInv
  <1>2. Full /\ BailInv => BailBound
    <2> SUFFICES ASSUME Full, BailInv, suite.bail, NEW i \in 1..Len(results),
                        results[i].status = "failed"
                 PROVE  Cardinality(RecordedAfter(i)) < Slots
      <3>1. DOMAIN results = 1..Len(results)
        BY DEF Full, IInv, TypeOK
      <3>2. QED
        BY <3>1 DEF BailBound, RecordedAfter
    <2>1. Len(results) \in Nat /\ Slots \in Nat
      BY SuiteFacts DEF Full, IInv, TypeOK
    <2>2. Cardinality(RecordedAfter(i)) + Cardinality(PastCheck) < Slots
      BY DEF BailInv
    <2>3. QED
      BY <2>1, <2>2, RecordedFinite, PastCheckFinite
  <1>3. QED
    BY <1>1, <1>2, BailStep, FullInductive, PTL DEF Spec

-----------------------------------------------------------------------------
(* Progress: what the liveness properties rest on besides fairness *)

\* Where a goroutine is on its way through runSingleTest.
PlaceOf(t) ==
  LET n == 2 * Len(Depends(t))
  IN CASE pc[t] = "idle" -> 0
       [] pc[t] = "started" -> 1
       [] pc[t] = "waiting" -> 2 * dep[t]
       [] pc[t] = "checking" -> 2 * dep[t] + 1
       [] pc[t] \in {"skipping", "body"} -> n + 4
       [] pc[t] = "afterEach" -> n + 5
       [] pc[t] = "recording" -> n + 6
       [] pc[t] = "returned" -> n + 7

\* And where Run is.
PlaceOfRun ==
  CASE main = "beforeAll" -> 0
    [] main = "loop" -> next
    [] main = "afterAll" -> Len(suite.order) + 2
    [] main = "returned" -> Len(suite.order) + 3

\* The places are numbers with a bound that the suite determines.
PlacesBounded ==
  /\ PlaceOfRun \in 0..Len(suite.order) + 3
  /\ \A t \in Test : PlaceOf(t) \in 0..2 * Len(Depends(t)) + 7

\* A step is the cancellation, which happens once, or it moves somebody forward.
MovesForward ==
  /\ UNCHANGED suite
  /\ PlaceOfRun' >= PlaceOfRun
  /\ \A t \in Test : PlaceOf(t)' >= PlaceOf(t)
  /\ \/ ~cancelled /\ cancelled'
     \/ PlaceOfRun' > PlaceOfRun
     \/ \E t \in Test : PlaceOf(t)' > PlaceOf(t)

\* The guards of Run's actions.
RunCanMove ==
  \/ main \in {"beforeAll", "afterAll"}
  \/ main = "loop" /\ next <= Len(suite.order) /\ Cardinality(Occupied) < Slots
  \/ main = "loop" /\ next > Len(suite.order) /\ Occupied = {}

\* The guards of a goroutine's actions: one that waits for a channel that is open
\* has only the end of the context.
GoroutineCanMove(t) == t \in Occupied /\ (~Blocked(t) \/ cancelled)

NeverStuck ==
  main # "returned" /\ (TopologicallySorted \/ cancelled) =>
    RunCanMove \/ \E t \in Test : GoroutineCanMove(t)

\* The index of a dependency is one of those there are, or the next.
LEMMA PlacesInvariant == IInv => PlacesBounded
<1> SUFFICES ASSUME IInv PROVE PlacesBounded
  OBVIOUS
<1>1. PlaceOfRun \in 0..Len(suite.order) + 3
  BY SuiteFacts DEF IInv, TypeOK, PlaceOfRun
<1>2. ASSUME NEW t \in Test PROVE PlaceOf(t) \in 0..2 * Len(Depends(t)) + 7
  <2>1. /\ Len(Depends(t)) \in Nat /\ dep[t] \in Nat \ {0}
        /\ dep[t] <= Len(Depends(t)) + 1
        /\ pc[t] \in {"idle", "started", "waiting", "checking", "skipping",
                      "body", "afterEach", "recording", "returned"}
    BY SuiteFacts DEF IInv, TypeOK, LeftBehind, BehindOf
  <2>2. QED
    BY <2>1 DEF PlaceOf
<1>3. QED
  BY <1>1, <1>2 DEF PlacesBounded

\* A step of one goroutine.
LEMMA OneMovesForward ==
  ASSUME IInv, IInv', NEW t \in Test, UNCHANGED <<suite, main, next>>,
         \A u \in Test \ {t} : pc'[u] = pc[u] /\ dep'[u] = dep[u],
         PlaceOf(t)' > PlaceOf(t)
  PROVE  MovesForward
<1>1. PlaceOfRun' = PlaceOfRun
  BY DEF PlaceOfRun
<1>2. \A u \in Test \ {t} : PlaceOf(u)' = PlaceOf(u)
  BY DEF PlaceOf, Depends
<1>3. PlacesBounded /\ (IInv' => PlacesBounded')
  BY PlacesInvariant, PTL
<1>4. \A u \in Test : Len(Depends(u)) \in Nat /\ Len(Depends(u))' = Len(Depends(u))
  BY SuiteFacts DEF IInv, Depends
<1>5. PlaceOfRun \in Int /\ \A u \in Test : PlaceOf(u) \in Int /\ PlaceOf(u)' \in Int
  BY <1>3, <1>4, SuiteFacts DEF PlacesBounded, IInv
<1>6. QED
  BY <1>1, <1>2, <1>5 DEF MovesForward

\* A step of the system, action by action (orchestrator.go, Run and runSingleTest).
LEMMA StepMovesForward == IInv /\ IInv' /\ [Next]_vars => MovesForward \/ UNCHANGED vars
<1> SUFFICES ASSUME IInv, IInv', Next, ~UNCHANGED vars
             PROVE  MovesForward
  OBVIOUS
<1> USE DEF suiteVars, sharedVars
<1>1. /\ pc \in [Test -> {"idle", "started", "waiting", "checking", "skipping",
                          "body", "afterEach", "recording", "returned"}]
      /\ dep \in [Test -> Nat \ {0}]
      /\ next \in Nat /\ Len(suite.order) \in Nat
  BY SuiteFacts DEF IInv, TypeOK
<1>2. \A u \in Test : Len(Depends(u)) \in Nat /\ PlaceOf(u) \in Int
  BY PlacesInvariant, SuiteFacts DEF PlacesBounded, IInv
<1>3. CASE BeforeAll \/ Join \/ Complete
  <2>1. UNCHANGED <<suite, next, pc, dep, cancelled>>
    BY <1>3 DEF BeforeAll, Join, Complete
  <2>2. \A u \in Test : PlaceOf(u)' = PlaceOf(u)
    BY <2>1 DEF PlaceOf, Depends
  <2>3. PlaceOfRun' > PlaceOfRun /\ PlaceOfRun' >= PlaceOfRun
    BY <1>1, <1>3, <2>1 DEF BeforeAll, Join, Complete, PlaceOfRun, IInv, TypeOK
  <2>4. QED
    BY <1>2, <2>1, <2>2, <2>3 DEF MovesForward
<1>4. CASE Launch
  <2>1. PICK t \in Test : t = suite.order[next] /\ pc[t] = "idle"
    BY <1>1, <1>4, SuiteFacts DEF Launch, IInv, HandedOver, TypeOK
  <2>2. /\ \A u \in Test \ {t} : pc'[u] = pc[u]
        /\ pc'[t] = "started" /\ main = "loop" /\ main' = "loop" /\ next' = next + 1
        /\ UNCHANGED <<suite, dep>>
    BY <1>1, <1>4, <2>1 DEF Launch
  <2>3. \A u \in Test \ {t} : PlaceOf(u)' = PlaceOf(u)
    BY <2>2 DEF PlaceOf, Depends
  <2>4. PlaceOf(t)' = 1 /\ PlaceOf(t) = 0
    BY <2>1, <2>2 DEF PlaceOf
  <2>5. PlaceOfRun' = next + 1 /\ PlaceOfRun = next
    BY <2>2 DEF PlaceOfRun
  <2>6. QED
    BY <1>1, <1>2, <2>2, <2>3, <2>4, <2>5 DEF MovesForward
<1>5. CASE Cancel
  <2>1. UNCHANGED <<suite, main, next, pc, dep>> /\ ~cancelled /\ cancelled'
    BY <1>5 DEF Cancel
  <2>2. PlaceOfRun' = PlaceOfRun /\ \A u \in Test : PlaceOf(u)' = PlaceOf(u)
    BY <2>1 DEF PlaceOf, PlaceOfRun, Depends
  <2>3. QED
    BY <1>2, <2>1, <2>2, PlacesInvariant, SuiteFacts DEF MovesForward, PlacesBounded, IInv
<1>6. ASSUME NEW t \in Test, Goroutine(t) PROVE MovesForward
  <2>1. UNCHANGED <<suite, main, next>>
    BY <1>6 DEF Goroutine, CheckBail, SkipUnknown, DependencyDone, SkipCancelled, CheckDependency,
                BeforeEach, RunTest, AfterEach, RecordSkip, Record
  <2>2. \A u \in Test \ {t} : pc'[u] = pc[u] /\ dep'[u] = dep[u]
    <3>1. (\E v : pc' = [pc EXCEPT ![t] = v]) /\ (\E n : dep' = [dep EXCEPT ![t] = n])
      <4>1. dep = [dep EXCEPT ![t] = dep[t]]
        BY <1>1
      <4>2. QED
        BY <1>6, <4>1 DEF Goroutine, CheckBail, SkipUnknown, DependencyDone, SkipCancelled,
                          CheckDependency, BeforeEach, RunTest, AfterEach, RecordSkip, Record, Publish
    <3>2. QED
      BY <1>1, <3>1
  <2>3. PlaceOf(t)' > PlaceOf(t)
    <3>1. /\ Depends(t)' = Depends(t) /\ Len(Depends(t)) \in Nat
          /\ dep[t] \in Nat \ {0} /\ dep[t] <= Len(Depends(t)) + 1
          /\ pc[t] = "checking" => dep[t] <= Len(Depends(t))
      BY <1>1, <2>1, SuiteFacts DEF Depends, IInv, LeftBehind, BehindOf
    <3>2. CASE CheckBail(t)
      <4>1. pc[t] = "started" /\ pc'[t] \in {"waiting", "skipping"} /\ dep'[t] = dep[t]
        BY <1>1, <3>2 DEF CheckBail
      <4>2. QED
        BY <3>1, <4>1 DEF PlaceOf
    <3>3. CASE SkipUnknown(t) \/ SkipCancelled(t) \/ DependencyDone(t) \/ BeforeEach(t)
      <4>1. pc[t] = "waiting" /\ pc'[t] \in {"checking", "skipping", "body"} /\ dep'[t] = dep[t]
        BY <1>1, <3>3 DEF SkipUnknown, SkipCancelled, DependencyDone, BeforeEach
      <4>2. PlaceOf(t) = 2 * dep[t]
        BY <4>1 DEF PlaceOf
      <4>3. PlaceOf(t)' \in {2 * dep[t] + 1, 2 * Len(Depends(t)) + 4}
        BY <3>1, <4>1 DEF PlaceOf
      <4>4. QED
        BY <3>1, <4>2, <4>3
    <3>4. CASE CheckDependency(t)
      <4>1. /\ pc[t] = "checking"
            /\ \/ pc'[t] = "skipping" /\ dep'[t] = dep[t]
               \/ pc'[t] = "waiting" /\ dep'[t] = dep[t] + 1
        <5>1. CASE completedStatus[Depends(t)[dep[t]]] = "failed"
          BY <1>1, <3>4, <5>1 DEF CheckDependency
        <5>2. CASE completedStatus[Depends(t)[dep[t]]] # "failed"
          BY <1>1, <3>4, <5>2 DEF CheckDependency
        <5>3. QED
          BY <5>1, <5>2
      <4>2. QED
        BY <3>1, <4>1 DEF PlaceOf
    <3>5. CASE RunTest(t) \/ AfterEach(t) \/ RecordSkip(t) \/ Record(t)
      <4>1. \/ pc[t] = "body" /\ pc'[t] = "afterEach"
            \/ pc[t] = "afterEach" /\ pc'[t] = "recording"
            \/ pc[t] \in {"skipping", "recording"} /\ pc'[t] = "returned"
        BY <1>1, <3>5 DEF RunTest, AfterEach, RecordSkip, Record, Publish
      <4>2. QED
        BY <3>1, <4>1 DEF PlaceOf
    <3>6. QED
      BY <1>6, <3>2, <3>3, <3>4, <3>5 DEF Goroutine
  <2>4. QED
    BY <2>1, <2>2, <2>3, OneMovesForward
<1>7. QED
  BY <1>3, <1>4, <1>5, <1>6 DEF Next, Run, Returned

\* A run takes finitely many steps, whatever the interleaving: each but the one
\* cancellation moves a goroutine, or Run, forward, none moves back, and each has a
\* last place (orchestrator.go, Run).
THEOREM RunMovesForward == Spec => []PlacesBounded /\ [][MovesForward]_vars
<1>1. Spec => []IInv
  BY Inductive
<1>2. IInv /\ IInv' /\ [Next]_vars => [MovesForward]_vars
  BY StepMovesForward
<1>3. QED
  BY <1>1, <1>2, PlacesInvariant, PTL DEF Spec

\* Until Run has returned somebody can move, when the suite is sorted and, cycles or
\* not, once the context has ended: no test waits for one that waits for its slot
\* (orchestrator.go, the semaphore and the channels of the dependencies).
THEOREM RunIsNeverStuck == Spec => []NeverStuck
<1>1. IInv /\ NoSlotDeadlock => NeverStuck
  <2> SUFFICES ASSUME IInv, NoSlotDeadlock, main # "returned", TopologicallySorted \/ cancelled,
                      ~RunCanMove
               PROVE  \E t \in Test : GoroutineCanMove(t)
    BY DEF NeverStuck
  <2>1. main = "loop" /\ next \in Nat /\ Len(suite.order) \in Nat
    BY SuiteFacts DEF RunCanMove, IInv, TypeOK
  <2>2. Occupied # {}
    <3> SUFFICES ASSUME Occupied = {} PROVE FALSE
      OBVIOUS
    <3>1. Cardinality(Occupied) = 0
      BY FS_EmptySet
    <3>2. Slots \in Nat /\ Slots > 0
      BY DEF Slots, IInv, TypeOK, RunRequest
    <3>3. QED
      BY <2>1, <3>1, <3>2 DEF RunCanMove
  <2>3. QED
    BY <2>2 DEF NoSlotDeadlock, GoroutineCanMove, Occupied
<1>2. QED
  BY <1>1, Inductive, SlotsNeverExhausted, PTL
=============================================================================
