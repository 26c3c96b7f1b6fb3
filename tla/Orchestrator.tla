---------------------------- MODULE Orchestrator ----------------------------
(***************************************************************************)
(* Orchestrator.Run (internal/executor/orchestrator.go): the suite is      *)
(* sorted, one goroutine per test is handed to an errgroup with a slot     *)
(* limit, and a goroutine waits for the `done' channel of each dependency  *)
(* while it HOLDS its slot.  The mutex-protected state is the bail flag,   *)
(* the slice of results and the map of statuses.                           *)
(*                                                                         *)
(* Each critical section of the mutex, each channel receive and each call  *)
(* to RunTest or a hook is one step, so every interleaving of the          *)
(* goroutines, of the loop that starts them and of the caller's            *)
(* cancellation is a behaviour.                                            *)
(***************************************************************************)
EXTENDS RunOrder, FiniteSets

CONSTANTS
  Name,      \* names a `depends' list may mention
  Test,      \* the names of the tests of the suite
  Suites     \* the runs asked for: elements of RunRequest

\* A run is asked for with the depends lists and skip flags of the tests, the
\* order topoSortTests puts them in, the configured parallelism (any integer)
\* and the bail option.
RunRequest == [depends : [Test -> Seq(Name)], skip : SUBSET Test,
               order : Seq(Test), parallel : Int, bail : BOOLEAN]

\* Nothing is assumed of the order but that it lists every name once: the
\* dependency graph may be cyclic.
ASSUME SuiteAssumption ==
  /\ IsFiniteSet(Test)
  /\ Test \subseteq Name
  /\ Suites \subseteq RunRequest
  /\ \A s \in Suites : IsRunOrder(s.order, Test)

Verdicts == {"passed", "failed", "skipped"}

VARIABLES
  suite,            \* the suite being run, an element of Suites
  main,             \* where Run itself is
  next,             \* the index in suite.order of the next test to hand over
  pc,               \* pc[t]: where the goroutine of t is
  dep,              \* dep[t]: the index of the dependency t is looking at
  outcome,          \* outcome[t]: the status of the result t will record
  bailed,           \* the `bailed' flag
  results,          \* the `results' slice: names and statuses
  completedStatus,  \* the `completedStatus' map; "none" is an absent key
  doneCh,           \* the tests whose channel is closed
  cancelled,        \* has the caller's context been cancelled?
  totals            \* the counters of the SuiteResult

suiteVars == <<suite, main, next, totals>>
sharedVars == <<bailed, results, completedStatus, doneCh>>
vars == <<suite, main, next, pc, dep, outcome, bailed, results,
          completedStatus, doneCh, cancelled, totals>>

\* A goroutine occupies a slot from the moment g.Go starts it until it returns.
Occupied == {t \in Test : pc[t] \notin {"idle", "returned"}}

\* The test body, with the hooks around it, is under way or awaits recording.
InBody(t) == pc[t] \in {"body", "afterEach", "recording"}

Depends(t) == suite.depends[t]

\* A limit that is zero or negative means one test at a time.
Slots == IF suite.parallel <= 0 THEN 1 ELSE suite.parallel
-----------------------------------------------------------------------------
Init ==
  /\ suite \in Suites
  /\ main = "beforeAll"
  /\ next = 1
  /\ pc = [t \in Test |-> "idle"]
  /\ dep = [t \in Test |-> 1]
  /\ outcome = [t \in Test |-> "none"]
  /\ bailed = FALSE
  /\ results = << >>
  /\ completedStatus = [t \in Test |-> "none"]
  /\ doneCh = {}
  /\ cancelled = FALSE
  /\ totals = [passed |-> 0, failed |-> 0, skipped |-> 0, total |-> 0]

\* OnSuiteStart and the beforeAll hook, whose failure is ignored.
BeforeAll ==
  /\ main = "beforeAll"
  /\ main' = "loop"
  /\ UNCHANGED <<suite, next, pc, dep, outcome, sharedVars, cancelled, totals>>

\* Faulty variant of Launch: the tests are handed over last to first.
LaunchLastFirst ==
  /\ main = "loop"
  /\ next <= Len(suite.order)
  /\ Cardinality(Occupied) < Slots
  /\ pc' = [pc EXCEPT ![suite.order[Len(suite.order) + 1 - next]] = "started"]
  /\ next' = next + 1
  /\ UNCHANGED <<suite, main, dep, outcome, sharedVars, cancelled, totals>>

\* One iteration of the loop: g.Go blocks until a slot is free.
Launch ==
  /\ main = "loop"
  /\ next <= Len(suite.order)
  /\ Cardinality(Occupied) < Slots
  /\ pc' = [pc EXCEPT ![suite.order[next]] = "started"]
  /\ next' = next + 1
  /\ UNCHANGED <<suite, main, dep, outcome, sharedVars, cancelled, totals>>

\* Faulty variant of CheckBail: the flag is not read.
CheckNoBail(t) ==
  /\ pc[t] = "started"
  /\ pc' = [pc EXCEPT ![t] = "waiting"]
  /\ UNCHANGED <<suiteVars, dep, outcome, sharedVars, cancelled>>

\* The goroutine reads the bail flag before any other work.
CheckBail(t) ==
  /\ pc[t] = "started"
  /\ pc' = [pc EXCEPT ![t] = IF bailed THEN "skipping" ELSE "waiting"]
  /\ UNCHANGED <<suiteVars, dep, outcome, sharedVars, cancelled>>

\* Faulty variant of SkipUnknown: an unknown dependency is passed over.
PassUnknown(t) ==
  /\ pc[t] = "waiting"
  /\ dep[t] <= Len(Depends(t))
  /\ Depends(t)[dep[t]] \notin Test
  /\ dep' = [dep EXCEPT ![t] = dep[t] + 1]
  /\ UNCHANGED <<suiteVars, pc, outcome, sharedVars, cancelled>>

\* The dependency at hand is not part of the suite: no channel, so skip.
SkipUnknown(t) ==
  /\ pc[t] = "waiting"
  /\ dep[t] <= Len(Depends(t))
  /\ Depends(t)[dep[t]] \notin Test
  /\ pc' = [pc EXCEPT ![t] = "skipping"]
  /\ UNCHANGED <<suiteVars, dep, outcome, sharedVars, cancelled>>

\* Faulty variant of DependencyDone: the status is read without waiting.
DependencyPolled(t) ==
  /\ pc[t] = "waiting"
  /\ dep[t] <= Len(Depends(t))
  /\ Depends(t)[dep[t]] \in Test
  /\ pc' = [pc EXCEPT ![t] = "checking"]
  /\ UNCHANGED <<suiteVars, dep, outcome, sharedVars, cancelled>>

\* select, first case: the channel of the dependency is closed.
DependencyDone(t) ==
  /\ pc[t] = "waiting"
  /\ dep[t] <= Len(Depends(t))
  /\ Depends(t)[dep[t]] \in doneCh
  /\ pc' = [pc EXCEPT ![t] = "checking"]
  /\ UNCHANGED <<suiteVars, dep, outcome, sharedVars, cancelled>>

\* Faulty variant of SkipCancelled: a receive without the second case.
NeverCancelled(t) == FALSE

\* select, second case: the context is cancelled.  Both cases may be ready.
SkipCancelled(t) ==
  /\ pc[t] = "waiting"
  /\ dep[t] <= Len(Depends(t))
  /\ Depends(t)[dep[t]] \in Test
  /\ cancelled
  /\ pc' = [pc EXCEPT ![t] = "skipping"]
  /\ UNCHANGED <<suiteVars, dep, outcome, sharedVars, cancelled>>

\* The status of the dependency is read under the mutex: only a failed one
\* stops this test, any other moves on to the next dependency.
CheckDependency(t) ==
  /\ pc[t] = "checking"
  /\ IF completedStatus[Depends(t)[dep[t]]] = "failed"
     THEN /\ pc' = [pc EXCEPT ![t] = "skipping"]
          /\ UNCHANGED dep
     ELSE /\ pc' = [pc EXCEPT ![t] = "waiting"]
          /\ dep' = [dep EXCEPT ![t] = dep[t] + 1]
  /\ UNCHANGED <<suiteVars, outcome, sharedVars, cancelled>>

\* Every dependency has been looked at: the beforeEach hook runs.
BeforeEach(t) ==
  /\ pc[t] = "waiting"
  /\ dep[t] > Len(Depends(t))
  /\ pc' = [pc EXCEPT ![t] = "body"]
  /\ UNCHANGED <<suiteVars, dep, outcome, sharedVars, cancelled>>

\* Faulty variant of RunTest: the result of a skipped test is not set.
RunTestNoResult(t) ==
  /\ pc[t] = "body"
  /\ outcome' = IF t \in suite.skip THEN outcome
                ELSE [outcome EXCEPT ![t] = "passed"]
  /\ pc' = [pc EXCEPT ![t] = "afterEach"]
  /\ UNCHANGED <<suiteVars, dep, sharedVars, cancelled>>

\* RunTest: a test marked `skip' is skipped, any other passes or fails,
\* whether or not the context is cancelled (module TestRun looks inside).
RunTest(t) ==
  /\ pc[t] = "body"
  /\ \E v \in IF t \in suite.skip THEN {"skipped"} ELSE {"passed", "failed"} :
       outcome' = [outcome EXCEPT ![t] = v]
  /\ pc' = [pc EXCEPT ![t] = "afterEach"]
  /\ UNCHANGED <<suiteVars, dep, sharedVars, cancelled>>

AfterEach(t) ==
  /\ pc[t] = "afterEach"
  /\ pc' = [pc EXCEPT ![t] = "recording"]
  /\ UNCHANGED <<suiteVars, dep, outcome, sharedVars, cancelled>>

\* Faulty variant of Publish: the map keeps no trace of a skipped test.
PublishRunOnly(t, v) ==
  /\ results' = Append(results, [test |-> t, status |-> v])
  /\ completedStatus' = IF v = "skipped" THEN completedStatus
                        ELSE [completedStatus EXCEPT ![t] = v]
  /\ doneCh' = doneCh \cup {t}
  /\ pc' = [pc EXCEPT ![t] = "returned"]

\* The critical section that ends every goroutine: append the result, note
\* the status, close the channel.
Publish(t, v) ==
  /\ results' = Append(results, [test |-> t, status |-> v])
  /\ completedStatus' = [completedStatus EXCEPT ![t] = v]
  /\ doneCh' = doneCh \cup {t}
  /\ pc' = [pc EXCEPT ![t] = "returned"]

\* Faulty variant of RecordSkip: the channel of the skipped test stays open.
RecordSkipOpen(t) ==
  /\ pc[t] = "skipping"
  /\ results' = Append(results, [test |-> t, status |-> "skipped"])
  /\ completedStatus' = [completedStatus EXCEPT ![t] = "skipped"]
  /\ pc' = [pc EXCEPT ![t] = "returned"]
  /\ UNCHANGED <<suiteVars, dep, outcome, bailed, doneCh, cancelled>>

\* The test was not run (skipResult): the bail flag is left alone.
RecordSkip(t) ==
  /\ pc[t] = "skipping"
  /\ Publish(t, "skipped")
  /\ UNCHANGED <<suiteVars, dep, outcome, bailed, cancelled>>

\* The test was run: its failure sets the bail flag in the same section.
Record(t) ==
  /\ pc[t] = "recording"
  /\ Publish(t, outcome[t])
  /\ bailed' = (bailed \/ (outcome[t] = "failed" /\ suite.bail))
  /\ UNCHANGED <<suiteVars, dep, outcome, cancelled>>

\* Faulty variant of Join: Run does not wait for the goroutines.
JoinEarly ==
  /\ main = "loop"
  /\ next > Len(suite.order)
  /\ main' = "afterAll"
  /\ UNCHANGED <<suite, next, pc, dep, outcome, sharedVars, cancelled, totals>>

\* g.Wait returns once the loop is over and every goroutine has returned.
Join ==
  /\ main = "loop"
  /\ next > Len(suite.order)
  /\ Occupied = {}
  /\ main' = "afterAll"
  /\ UNCHANGED <<suite, next, pc, dep, outcome, sharedVars, cancelled, totals>>

\* The number of recorded results with status v.
CountOf(v) == Cardinality({i \in DOMAIN results : results[i].status = v})

\* The afterAll hook, the suite totals, OnSuiteComplete and Flush.
Complete ==
  /\ main = "afterAll"
  /\ totals' = [passed |-> CountOf("passed"), failed |-> CountOf("failed"),
                skipped |-> CountOf("skipped"), total |-> Len(results)]
  /\ main' = "returned"
  /\ UNCHANGED <<suite, next, pc, dep, outcome, sharedVars, cancelled>>

\* The caller's context is cancelled (Ctrl+C), at any time and once.
Cancel ==
  /\ ~cancelled
  /\ main # "returned"
  /\ cancelled' = TRUE
  /\ UNCHANGED <<suite, main, next, pc, dep, outcome, sharedVars, totals>>

Goroutine(t) ==
  \/ CheckBail(t) \/ SkipUnknown(t) \/ DependencyDone(t) \/ SkipCancelled(t)
  \/ CheckDependency(t) \/ BeforeEach(t) \/ RunTest(t) \/ AfterEach(t)
  \/ RecordSkip(t) \/ Record(t)

Run == BeforeAll \/ Launch \/ Join \/ Complete

\* Run has returned: the system stops here, and nowhere else unless the
\* dependencies are cyclic.
Returned == main = "returned" /\ UNCHANGED vars

Next == Run \/ (\E t \in Test : Goroutine(t)) \/ Cancel \/ Returned

Spec == Init /\ [][Next]_vars

\* Each goroutine and the caller of Run are scheduled by the Go runtime; a
\* call to RunTest or a hook is assumed to return.  Nobody has to press Ctrl+C.
Fairness == WF_vars(Run) /\ \A t \in Test : WF_vars(Goroutine(t))

FairSpec == Spec /\ Fairness
-----------------------------------------------------------------------------
(* Properties *)

\* Types of the state, and the ranges of the two indices.
TypeOK ==
  /\ suite \in RunRequest
  /\ main \in {"beforeAll", "loop", "afterAll", "returned"}
  /\ next \in 1..Len(suite.order) + 1
  /\ pc \in [Test -> {"idle", "started", "waiting", "checking", "skipping",
                      "body", "afterEach", "recording", "returned"}]
  /\ dep \in [Test -> Nat \ {0}]
  /\ outcome \in [Test -> Verdicts \cup {"none"}]
  /\ bailed \in BOOLEAN
  /\ results \in Seq([test : Test, status : Verdicts])
  /\ completedStatus \in [Test -> Verdicts \cup {"none"}]
  /\ doneCh \subseteq Test
  /\ cancelled \in BOOLEAN
  /\ totals \in [passed : Nat, failed : Nat, skipped : Nat, total : Nat]

\* A test whose body is under way has only dependencies that are recorded and
\* did not fail, and none that is unknown to the suite.  What it relies on was
\* read one dependency at a time, each in its own critical section.
DependenciesSettled ==
  \A t \in Test : InBody(t) =>
    \A i \in DOMAIN Depends(t) :
      /\ Depends(t)[i] \in doneCh
      /\ completedStatus[Depends(t)[i]] \notin {"none", "failed"}

\* A test is in `results' at most once, and the three records of its end (the
\* slice, the map and the closed channel) agree.
RecordsAgree ==
  /\ \A i, j \in DOMAIN results : results[i].test = results[j].test => i = j
  /\ \A t \in Test :
       /\ t \in doneCh <=> completedStatus[t] # "none"
       /\ t \in doneCh <=> pc[t] = "returned"
       /\ t \in doneCh <=> \E i \in DOMAIN results :
                             results[i] = [test |-> t, status |-> completedStatus[t]]

\* With bail, at most Slots - 1 test bodies are recorded after the first
\* failure: those that held a slot, past the bail check, when it was recorded.
BailBound ==
  suite.bail => \A i \in DOMAIN results : results[i].status = "failed" =>
    Cardinality({j \in DOMAIN results :
                   j > i /\ results[j].status \in {"passed", "failed"}}) < Slots

\* A suite is sorted when each dependency that is part of it comes earlier.
TopologicallySorted == IsTopological(suite.order, suite.depends)

\* t holds a slot and can only wait for the channel of a dependency.
Blocked(t) ==
  /\ pc[t] = "waiting"
  /\ dep[t] <= Len(Depends(t))
  /\ Depends(t)[dep[t]] \in Test \ doneCh

\* Waiting for a dependency while holding a slot cannot exhaust the slots:
\* when the sort succeeded, some goroutine that holds a slot can always move.
NoSlotDeadlock ==
  TopologicallySorted /\ Occupied # {} => \E t \in Occupied : ~Blocked(t)

\* The counters the suite result carries are those of the map of statuses,
\* and every test of the suite is counted in exactly one of them.
TotalsAgree ==
  main = "returned" =>
    /\ totals.total = Cardinality(Test)
    /\ \A v \in Verdicts :
         totals[v] = Cardinality({t \in Test : completedStatus[t] = v})

\* The run of a sorted suite ends, with or without cancellation.
SortedSuiteReturns == TopologicallySorted ~> main = "returned"

\* Cancellation ends any run, the one of a cyclic suite too.
CancelReturns == cancelled ~> main = "returned"

\* The suite as its caller sees it: the names each test depends on, in any order.
Asked == [tests |-> Test, depends |-> [t \in Test |-> {Depends(t)[i] : i \in DOMAIN Depends(t)}],
          skip |-> suite.skip, bail |-> suite.bail]

\* Orchestrator implements the contract of a suite run.
Contract == INSTANCE SuiteContract WITH
  suite <- Asked,
  limit <- Slots,
  verdict <- completedStatus,
  running <- {t \in Test : InBody(t)},
  interrupted <- cancelled,
  concluded <- main = "returned"

ImplementsContract == Contract!CSpec
=============================================================================
