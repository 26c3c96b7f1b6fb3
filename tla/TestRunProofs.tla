---------------------------- MODULE TestRunProofs ----------------------------
(***************************************************************************)
(* Proofs about TestRun, for any tests.  The invariant has four parts:     *)
(* where the goroutine is and what that says of the attempt (Control),     *)
(* what the log holds (Logged), what the captured values are (Captures),   *)
(* and which steps have had their turn (Turns).  With them RunTest         *)
(* implements TestContract, because the steps still owed are always those  *)
(* from `at' on (OwedFromHere).                                            *)
(***************************************************************************)
EXTENDS TestRun, SequenceTheorems, TLAPS

\* The places where a step is at hand.
Busy == {"delaying", "resolving", "connecting", "executing", "answered", "judging",
         "attempted", "backoff", "recording"}

\* Where the goroutine is, and what that says of the attempt.
Control ==
  /\ job \in Jobs
  /\ pc \in {"called", "picking", "returned", "crashed"} \cup Busy
  /\ at \in 1..Len(job.steps) + 1
  /\ attempt \in Nat
  /\ response \in {"none", "data", "nonzero", "error"}
  /\ outcome \in [status : {"none", "passed", "failed", "warned"}, cause : Causes]
  /\ ctxDone \in BOOLEAN
  /\ verdict \in {"none", "passed", "failed", "skipped"}
  /\ pc \in Busy => at <= Len(job.steps) /\ attempt <= MaxRetries
  /\ pc = "backoff" => attempt < MaxRetries /\ outcome.status = "failed"
  /\ pc \in {"attempted", "recording"} => outcome.status # "none"
  /\ pc = "recording" /\ outcome.status = "failed" /\ ~ctxDone => attempt = MaxRetries

Entry == [step : 1..Len(job.steps), cause : Causes, attempts : Nat,
          status : {"passed", "failed", "warned", "skipped"}]

\* What the log holds.
Logged ==
  /\ log \in Seq(Entry)
  /\ firstError \in 0..Len(log)
  /\ \A i \in DOMAIN log : log[i].step < at
  /\ FirstErrorKept
  /\ RetriesUsedUp

Value == [step : 0..Len(job.steps), attempt : Nat]

\* The attempt at hand has captured what it captures.
Judged ==
  \/ pc = "judging" /\ response # "error"
  \/ pc \in {"attempted", "recording"} /\ outcome.status = "passed"

\* What the captured values are.
Captures ==
  /\ captured \in [Var -> Value]
  /\ Judged => \A v \in step.capture : captured[v] = [step |-> at, attempt |-> attempt]
  /\ CapturesFresh

\* What Jobs is assumed to hold, of the job at hand.
LEMMA JobFacts ==
  ASSUME job \in Jobs
  PROVE  /\ job \in Job
         /\ job.steps \in Seq(Step) /\ Len(job.steps) \in Nat
         /\ job.body \in Nat /\ job.body <= Len(job.steps)
         /\ MaxRetries \in Int
BY JobAssumption DEF Job, MaxRetries

\* No step changes the job.
LEMMA JobKept == [Next]_vars => UNCHANGED job
BY DEF Next, vars, Run, SkipTest, Prepare, SkipStep, TakeStep, Attempt, DelayOver, DelayCut,
   Resolve, Connect, Execute, OwnDeadline, Capture, AdapterError, AssertionError,
   ExitCodeError, Success, Decide, Retry, RetryCut, Record, Conclude, EndContext, Over
-----------------------------------------------------------------------------
(* Control *)

\* The control is in place when a test starts.
LEMMA ControlBegins == Init => Control
<1> SUFFICES ASSUME Init PROVE Control
  OBVIOUS
<1>1. Len(job.steps) \in Nat
  BY JobFacts DEF Init
<1>2. outcome \in [status : {"none", "passed", "failed", "warned"}, cause : Causes]
  BY DEF Init, NoOutcome, Causes
<1>3. ctxDone \in BOOLEAN /\ ~ctxDone
  BY DEF Init
<1>4. QED
  BY <1>1, <1>2, <1>3, SMT DEF Init, Control, Busy

\* The actions that only move the goroutine, within a step or between steps.
LEMMA ControlMoves ==
  ASSUME Control,
         \/ SkipTest \/ Prepare \/ SkipStep \/ TakeStep \/ DelayOver \/ Execute \/ Capture
         \/ Decide \/ Retry \/ RetryCut \/ Conclude \/ EndContext \/ UNCHANGED vars
  PROVE  Control'
<1>1. Len(job.steps) \in Nat /\ MaxRetries \in Int
  BY JobFacts DEF Control
<1> USE <1>1 DEF Control, Busy
<1>2. CASE SkipTest \/ Prepare
  BY <1>2, SMT DEF SkipTest, Prepare, MaxRetries
<1>3. CASE SkipStep
  BY <1>3, SMT DEF SkipStep, MaxRetries
<1>4. CASE TakeStep
  BY <1>4, SMT DEF TakeStep, MaxRetries
<1>5. CASE DelayOver \/ Execute \/ Capture
  BY <1>5, SMT DEF DelayOver, Execute, Capture, MaxRetries
<1>6. CASE Decide
  BY <1>6, SMT DEF Decide, MaxRetries
<1>7. CASE Retry \/ RetryCut
  BY <1>7, SMT DEF Retry, RetryCut, MaxRetries
<1>8. CASE Conclude
  BY <1>8, SMT DEF Conclude, MaxRetries
<1>9. CASE EndContext
  BY <1>9, SMT DEF EndContext, MaxRetries
<1>10. CASE UNCHANGED vars
  BY <1>10, SMT DEF vars, MaxRetries
<1>11. QED
  BY <1>2, <1>3, <1>4, <1>5, <1>6, <1>7, <1>8, <1>9, <1>10

\* The actions that end an attempt leave a status, and a cause.
LEMMA ControlAttempts ==
  ASSUME Control,
         \/ DelayCut \/ Resolve \/ Connect \/ OwnDeadline \/ AdapterError
         \/ AssertionError \/ ExitCodeError \/ Success
  PROVE  Control'
<1>1. Len(job.steps) \in Nat /\ MaxRetries \in Int
  BY JobFacts DEF Control
<1>2. pc \in Busy \ {"attempted", "backoff", "recording"}
  BY DEF DelayCut, Resolve, Connect, OwnDeadline, AdapterError, AssertionError,
         ExitCodeError, Success, Busy
<1>3. /\ \/ pc' \in {"connecting", "executing"} /\ outcome' = outcome
         \/ /\ pc' = "attempted"
            /\ outcome' \in [status : {"passed", "failed", "warned"}, cause : Causes]
      /\ UNCHANGED <<job, at, attempt, response, ctxDone, verdict>>
  BY SMT DEF DelayCut, Resolve, Connect, OwnDeadline, AdapterError, AssertionError,
     ExitCodeError, Success, Attempted, Failed, Tolerated, Causes
<1>4. QED
  BY <1>1, <1>2, <1>3, SMT DEF Control, Busy, MaxRetries

\* Recording goes on to the next step: the one after it, or the first of the
\* teardown.
LEMMA FollowingIsAhead ==
  ASSUME Control, pc \in Busy
  PROVE  /\ Following \in at + 1..Len(job.steps) + 1
         /\ \A k \in at + 1..Following - 1 : outcome.status = "failed" /\ k <= job.body
BY JobFacts, SMT DEF Following, Control

\* Recording a step leaves the control in place.
LEMMA ControlRecords == ASSUME Control, Record PROVE Control'
<1>1. Following \in at + 1..Len(job.steps) + 1 /\ Len(job.steps) \in Nat
  BY FollowingIsAhead, JobFacts DEF Record, Busy, Control
<1>2. QED
  BY <1>1, SMT DEF Record, Control, Busy, MaxRetries

\* Every step keeps the control in place.
LEMMA ControlKept == Control /\ [Next]_vars => Control'
BY ControlMoves, ControlAttempts, ControlRecords DEF Next, Run, Attempt, Over
-----------------------------------------------------------------------------
(* The log *)

\* Nothing is logged when a test starts.
LEMMA LoggedBegins == Init => Logged
<1> SUFFICES ASSUME Init PROVE Logged
  OBVIOUS
<1>1. log = << >> /\ log \in Seq(Entry) /\ firstError = 0
  BY DEF Init
<1>2. QED
  BY <1>1, SMT DEF Logged, FirstErrorKept, RetriesUsedUp

\* An entry that keeps the four facts of Logged may be appended.
LEMMA LoggedGrows ==
  ASSUME Control, Logged, job' = job, NEW e \in Entry,
         log' = Append(log, e),
         at' \in Nat, e.step < at', at <= at',
         firstError' = IF e.status = "failed" /\ firstError = 0
                       THEN Len(log) + 1 ELSE firstError,
         e.status # "skipped" => e.attempts <= MaxRetries + 1,
         e.status = "failed" /\ ~ctxDone => e.attempts = MaxRetries + 1,
         ctxDone' = ctxDone
  PROVE  Logged'
<1> DEFINE E == Entry
<1>1. log \in Seq(E) /\ e \in E /\ E' = E
  BY DEF Logged, Entry
<1> HIDE DEF E
<1>2. /\ log' \in Seq(E) /\ Len(log') = Len(log) + 1 /\ Len(log) \in Nat
      /\ \A i \in 1..Len(log) : log'[i] = log[i]
      /\ log'[Len(log) + 1] = e
      /\ DOMAIN log = 1..Len(log) /\ DOMAIN log' = 1..Len(log')
  BY <1>1, SMT
<1>3. firstError' \in 0..Len(log')
  BY <1>2, SMT DEF Logged
<1>4. ASSUME NEW i \in DOMAIN log' PROVE (i \in DOMAIN log /\ log'[i] = log[i]) \/ i = Len(log) + 1
  BY <1>2, SMT
<1>5. (\A i \in DOMAIN log : log[i].step < at)'
  <2>1. SUFFICES ASSUME NEW i \in DOMAIN log' PROVE log'[i].step < at'
    OBVIOUS
  <2>2. CASE i \in DOMAIN log /\ log'[i] = log[i]
    <3>1. log[i] \in Entry
      BY <2>2, <1>1, <1>2, SMT DEF E
    <3>2. log[i].step \in Int /\ log[i].step < at /\ at \in Int /\ at' \in Int
      BY <2>2, <3>1, JobFacts, SMT DEF Logged, Control, Entry
    <3>3. QED
      BY <2>2, <3>2, SMT
  <2>3. QED
    BY <1>2, <1>4, <2>2
<1>6. FirstErrorKept'
  BY <1>2, <1>4, SMT DEF Logged, FirstErrorKept
<1>7. RetriesUsedUp'
  <2>1. MaxRetries' = MaxRetries
    BY DEF MaxRetries
  <2>2. QED
    BY <1>2, <1>4, <2>1 DEF Logged, RetriesUsedUp
<1>8. QED
  BY <1>1, <1>2, <1>3, <1>5, <1>6, <1>7 DEF Logged, E

\* Every step keeps the log in line with the control.
LEMMA LoggedKept == Control /\ Logged /\ [Next]_vars => Logged'
<1> SUFFICES ASSUME Control, Logged, [Next]_vars PROVE Logged'
  OBVIOUS
<1>1. CASE SkipStep
  <2>1. at \in 1..Len(job.steps) /\ Len(job.steps) \in Nat
    BY <1>1, JobFacts, SMT DEF SkipStep, Control
  <2> DEFINE e == [step |-> at, status |-> "skipped", cause |-> "none", attempts |-> 0]
  <2>2. e \in Entry
    BY <2>1 DEF Entry, Causes
  <2>3. log' = Append(log, e) /\ at' = at + 1 /\ firstError' = firstError
    BY <1>1 DEF SkipStep
  <2>4. QED
    BY <1>1, <2>1, <2>2, <2>3, LoggedGrows, SMT DEF SkipStep
<1>2. CASE Record
  <2>1. /\ at \in 1..Len(job.steps) /\ attempt \in Nat /\ MaxRetries \in Int
        /\ attempt <= MaxRetries /\ Len(job.steps) \in Nat
        /\ outcome.status \in {"passed", "failed", "warned"} /\ outcome.cause \in Causes
        /\ outcome.status = "failed" /\ ~ctxDone => attempt = MaxRetries
    BY <1>2, JobFacts, SMT DEF Record, Control, Busy
  <2> DEFINE e == [step |-> at, status |-> outcome.status, cause |-> outcome.cause,
                   attempts |-> attempt + 1]
  <2>2. e \in Entry
    BY <2>1, SMT DEF Entry
  <2>3. /\ log' = Append(log, e)
        /\ firstError' = IF e.status = "failed" /\ firstError = 0
                         THEN Len(log) + 1 ELSE firstError
        /\ UNCHANGED <<job, ctxDone>>
        /\ at' \in at + 1..Len(job.steps) + 1
    BY <1>2, FollowingIsAhead DEF Record, Busy
  <2>4. /\ at' \in Nat /\ e.step < at' /\ at <= at'
        /\ e.attempts <= MaxRetries + 1
        /\ e.status = "failed" /\ ~ctxDone => e.attempts = MaxRetries + 1
    BY <2>1, <2>3, SMT
  <2> HIDE DEF e
  <2>5. QED
    BY <2>2, <2>3, <2>4, LoggedGrows
<1>3. CASE UNCHANGED <<job, at, log, firstError>> /\ (ctxDone => ctxDone')
  BY <1>3 DEF Logged, FirstErrorKept, RetriesUsedUp, Entry, MaxRetries
<1>4. QED
  BY <1>1, <1>2, <1>3 DEF Next, vars, Run, SkipTest, Prepare, TakeStep, Attempt, DelayOver,
     DelayCut, Resolve, Connect, Execute, OwnDeadline, Capture, AdapterError,
     AssertionError, ExitCodeError, Success, Decide, Retry, RetryCut, Conclude,
     EndContext, Over
-----------------------------------------------------------------------------
(* The captured values *)

\* Nothing is captured when a test starts.
LEMMA CapturesBegins == Init => Captures
<1> SUFFICES ASSUME Init PROVE Captures
  OBVIOUS
<1>1. Len(job.steps) \in Nat
  BY JobFacts DEF Init
<1>2. NoValue \in Value
  BY <1>1, SMT DEF NoValue, Value
<1>3. captured \in [Var -> Value]
  BY <1>2 DEF Init
<1>4. DOMAIN log = {}
  BY SMT DEF Init
<1>5. ~Judged
  BY DEF Init, Judged
<1>6. QED
  BY <1>3, <1>4, <1>5 DEF Captures, CapturesFresh

\* A capture can only make the values of recorded steps newer.
LEMMA CaptureIsNewer == ASSUME Control, Logged, Captures, Capture PROVE Captures'
<1>1. /\ at \in 1..Len(job.steps) /\ attempt \in Nat /\ Len(job.steps) \in Nat
      /\ step \in Step
  BY JobFacts, SMT DEF Capture, Control, Busy, step
<1>2. step.capture \subseteq Var
  BY <1>1 DEF Step
<1> DEFINE now == [step |-> at, attempt |-> attempt]
<1>3. now \in Value /\ now.step = at
  BY <1>1, SMT DEF Value
<1>4. /\ pc' = "judging"
      /\ UNCHANGED <<job, at, attempt, response, outcome, log>>
      /\ captured' = IF response = "error" THEN captured
                     ELSE [v \in Var |-> IF v \in step.capture THEN now ELSE captured[v]]
  BY DEF Capture
<1> HIDE DEF now
<1>5. Value' = Value /\ step' = step
  BY <1>4 DEF Value, step
<1>6. captured' \in [Var -> Value]
  BY <1>3, <1>4 DEF Captures
<1>7. ASSUME NEW v \in Var
      PROVE  captured'[v] = captured[v] \/ (v \in step.capture /\ captured'[v] = now)
  BY <1>4
<1>8. (Judged => \A v \in step.capture : captured[v] = [step |-> at, attempt |-> attempt])'
  BY <1>2, <1>4, <1>5 DEF Judged, now
<1>9. CapturesFresh'
  <2>1. SUFFICES ASSUME NEW i \in DOMAIN log, log[i].status = "passed",
                        NEW v \in job.steps[log[i].step].capture
                 PROVE  \/ captured'[v] = [step |-> log[i].step, attempt |-> log[i].attempts - 1]
                        \/ captured'[v].step > log[i].step
    BY <1>4 DEF CapturesFresh
  <2>2. log[i] \in Entry /\ log[i].step < at
    BY SMT DEF Logged
  <2>3. log[i].step \in 1..Len(job.steps) /\ job.steps[log[i].step] \in Step
    BY <2>2, JobFacts, SMT DEF Entry, Control
  <2>4. v \in Var
    BY <2>3 DEF Step
  <2>5. CASE captured'[v] = captured[v]
    BY <2>1, <2>5 DEF Captures, CapturesFresh
  <2>6. CASE captured'[v] = now
    BY <2>6, <2>2, <2>3, <1>1, <1>3, SMT
  <2>7. QED
    BY <2>4, <2>5, <2>6, <1>7
<1>10. QED
  BY <1>5, <1>6, <1>8, <1>9 DEF Captures

\* An entry may be appended if, whenever it says that its step passed, the
\* captured values are those of its attempt.
LEMMA CapturesGrows ==
  ASSUME Control, Logged, Captures, UNCHANGED <<job, captured>>, NEW e \in Entry,
         log' = Append(log, e), ~Judged',
         e.status = "passed" =>
           \A v \in job.steps[e.step].capture :
             captured[v] = [step |-> e.step, attempt |-> e.attempts - 1]
  PROVE  Captures'
<1> DEFINE E == Entry
<1>1. log \in Seq(E) /\ e \in E
  BY DEF Logged
<1> HIDE DEF E
<1>2. \A i \in DOMAIN log' : (i \in DOMAIN log /\ log'[i] = log[i]) \/ log'[i] = e
  BY <1>1, SMT
<1>3. CapturesFresh'
  <2>1. SUFFICES ASSUME NEW i \in DOMAIN log', log'[i].status = "passed",
                        NEW v \in job.steps[log'[i].step].capture
                 PROVE  \/ captured[v] = [step |-> log'[i].step, attempt |-> log'[i].attempts - 1]
                        \/ captured[v].step > log'[i].step
    BY DEF CapturesFresh
  <2>2. CASE log'[i] = e
    BY <2>1, <2>2
  <2>3. CASE i \in DOMAIN log /\ log'[i] = log[i]
    BY <2>1, <2>3 DEF Captures, CapturesFresh
  <2>4. QED
    BY <2>2, <2>3, <1>2
<1>4. QED
  BY <1>3 DEF Captures, Value

\* Every step keeps the captures in line with the log.
LEMMA CapturesKept == Control /\ Logged /\ Captures /\ [Next]_vars => Captures'
<1> SUFFICES ASSUME Control, Logged, Captures, [Next]_vars PROVE Captures'
  OBVIOUS
<1>1. CASE Capture
  BY <1>1, CaptureIsNewer
<1>2. CASE SkipStep
  <2>1. at \in 1..Len(job.steps) /\ Len(job.steps) \in Nat
    BY <1>2, JobFacts, SMT DEF SkipStep, Control
  <2> DEFINE e == [step |-> at, status |-> "skipped", cause |-> "none", attempts |-> 0]
  <2>2. e \in Entry /\ e.status # "passed"
    BY <2>1 DEF Entry, Causes
  <2>3. log' = Append(log, e) /\ UNCHANGED <<job, captured>> /\ ~Judged'
    BY <1>2 DEF SkipStep, Judged
  <2> HIDE DEF e
  <2>4. QED
    BY <2>2, <2>3, CapturesGrows
<1>3. CASE Record
  <2>1. /\ at \in 1..Len(job.steps) /\ attempt \in Nat /\ Len(job.steps) \in Nat
        /\ outcome.status \in {"passed", "failed", "warned"} /\ outcome.cause \in Causes
    BY <1>3, JobFacts, SMT DEF Record, Control, Busy
  <2> DEFINE e == [step |-> at, status |-> outcome.status, cause |-> outcome.cause,
                   attempts |-> attempt + 1]
  <2>2. e \in Entry
    BY <2>1, SMT DEF Entry
  <2>3. log' = Append(log, e) /\ UNCHANGED <<job, captured>> /\ ~Judged'
    BY <1>3 DEF Record, Judged
  <2>4. e.step = at /\ e.attempts - 1 = attempt /\ e.status = outcome.status
    BY <2>1, SMT
  <2> HIDE DEF e
  <2>5. outcome.status = "passed" =>
          \A v \in step.capture : captured[v] = [step |-> at, attempt |-> attempt]
    BY <1>3 DEF Record, Captures, Judged
  <2>6. e.status = "passed" =>
          \A v \in job.steps[e.step].capture :
            captured[v] = [step |-> e.step, attempt |-> e.attempts - 1]
    BY <2>4, <2>5 DEF step
  <2>7. QED
    BY <2>2, <2>3, <2>6, CapturesGrows
<1>4. CASE /\ UNCHANGED <<job, log, captured>>
           /\ Judged' => Judged /\ UNCHANGED <<at, attempt>>
  BY <1>4 DEF Captures, CapturesFresh, Value, step
<1>5. Success => Judged /\ UNCHANGED <<job, log, captured, at, attempt>>
  BY DEF Success, Judged
<1>6. Decide \/ EndContext \/ UNCHANGED vars
        => (Judged' => Judged) /\ UNCHANGED <<job, log, captured, at, attempt>>
  BY DEF Decide, EndContext, vars, Judged
<1>7. RetryCut => ~Judged' /\ UNCHANGED <<job, log, captured>>
  BY DEF RetryCut, Judged, Control
<1>8. SkipTest \/ Prepare \/ TakeStep \/ DelayOver \/ DelayCut \/ Resolve \/ Connect
      \/ Execute \/ OwnDeadline \/ AdapterError \/ AssertionError \/ ExitCodeError \/ Retry
      \/ Conclude => ~Judged' /\ UNCHANGED <<job, log, captured>>
  BY DEF SkipTest, Prepare, TakeStep, DelayOver, DelayCut, Resolve, Connect, Execute,
     OwnDeadline, AdapterError, AssertionError, ExitCodeError, Retry, Conclude, Attempted,
     Failed, Tolerated, Judged
<1>9. QED
  BY <1>1, <1>2, <1>3, <1>4, <1>5, <1>6, <1>7, <1>8 DEF Next, Run, Attempt, Over
-----------------------------------------------------------------------------
(* Whose turn it was *)

TurnTaken == {log[i].step : i \in DOMAIN log}

BodyHasFailed == \E i \in DOMAIN log : log[i].status = "failed" /\ log[i].step <= job.body

\* Every step before `at' had its turn or was passed over for a failure before
\* the teardown, and no step from `at' on is to be passed over.
Turns ==
  /\ pc # "returned" => verdict = "none"
  /\ pc = "called" => log = << >>
  /\ pc \in {"attempted", "recording"} /\ outcome.status = "warned" => step.continueOnError
  /\ \A k \in 1..at - 1 : k \in TurnTaken \/ (BodyHasFailed /\ k <= job.body)
  /\ BodyHasFailed => \A k \in at..Len(job.steps) : k > job.body

\* The first attempt is at its beginning when a test starts.
LEMMA TurnsBegins == Init => Turns
<1> SUFFICES ASSUME Init PROVE Turns
  OBVIOUS
<1>1. DOMAIN log = {}
  BY SMT DEF Init
<1>2. ~BodyHasFailed
  BY <1>1 DEF BodyHasFailed
<1>3. at = 1 /\ pc = "called" /\ verdict = "none" /\ log = << >>
  BY DEF Init
<1>4. QED
  BY <1>2, <1>3, SMT DEF Turns

\* What appending the entry of the step at hand does to the log.
LEMMA TurnsGrows ==
  ASSUME Control, Logged, Turns, job' = job, NEW e \in Entry,
         e.step = at, at <= Len(job.steps), log' = Append(log, e),
         at' = 1 + IF e.status = "failed" /\ at <= job.body THEN job.body ELSE at,
         pc' = "picking", verdict' = verdict, pc # "returned"
  PROVE  Turns'
<1> DEFINE E == Entry
<1>1. log \in Seq(E) /\ e \in E
  BY DEF Logged
<1> HIDE DEF E
<1>2. /\ \A i \in DOMAIN log : i \in DOMAIN log' /\ log'[i] = log[i]
      /\ \A i \in DOMAIN log' : i \in DOMAIN log \/ log'[i] = e
      /\ \E i \in DOMAIN log' : log'[i] = e
  <2>1. /\ DOMAIN log = 1..Len(log) /\ Len(log) \in Nat
        /\ DOMAIN log' = 1..Len(log) + 1 /\ log'[Len(log) + 1] = e
        /\ \A i \in 1..Len(log) : log'[i] = log[i]
    BY <1>1, SMT
  <2>2. QED
    BY <2>1, SMT
<1>3. TurnTaken \subseteq TurnTaken' /\ at \in TurnTaken'
  BY <1>2 DEF TurnTaken
<1>4. BodyHasFailed => BodyHasFailed'
  BY <1>2 DEF BodyHasFailed
<1>5. BodyHasFailed' => BodyHasFailed \/ (e.status = "failed" /\ at <= job.body)
  BY <1>2 DEF BodyHasFailed
<1>6. e.status = "failed" /\ at <= job.body => BodyHasFailed'
  BY <1>2 DEF BodyHasFailed
<1>7. at \in Nat /\ job.body \in Nat /\ Len(job.steps) \in Nat
  BY JobFacts, SMT DEF Control
<1>8. ASSUME NEW k \in 1..at' - 1 PROVE k \in TurnTaken' \/ (BodyHasFailed' /\ k <= job.body)
  <2>1. k \in 1..at - 1 \/ k = at \/ (e.status = "failed" /\ at <= job.body /\ k <= job.body)
    BY <1>7, SMT
  <2>2. k \in 1..at - 1 => k \in TurnTaken \/ (BodyHasFailed /\ k <= job.body)
    BY DEF Turns
  <2>3. QED
    BY <2>1, <2>2, <1>3, <1>4, <1>6
<1>9. ASSUME BodyHasFailed', NEW k \in at'..Len(job.steps) PROVE k > job.body
  <2>1. CASE e.status = "failed" /\ at <= job.body
    BY <2>1, <1>7, SMT
  <2>2. CASE ~(e.status = "failed" /\ at <= job.body)
    <3>1. BodyHasFailed /\ k \in at..Len(job.steps)
      BY <1>5, <1>7, <1>9, <2>2, SMT
    <3>2. QED
      BY <3>1 DEF Turns
  <2>3. QED
    BY <2>1, <2>2
<1>10. QED
  BY <1>8, <1>9 DEF Turns

\* Every step keeps each attempt within the retries.
LEMMA TurnsKept == Control /\ Logged /\ Turns /\ [Next]_vars => Turns'
<1> SUFFICES ASSUME Control, Logged, Turns, [Next]_vars PROVE Turns'
  OBVIOUS
<1>1. CASE SkipStep
  <2>1. at \in 1..Len(job.steps) /\ Len(job.steps) \in Nat
    BY <1>1, JobFacts, SMT DEF SkipStep, Control
  <2> DEFINE e == [step |-> at, status |-> "skipped", cause |-> "none", attempts |-> 0]
  <2>2. e \in Entry /\ e.step = at /\ e.status # "failed"
    BY <2>1 DEF Entry, Causes
  <2>3. /\ log' = Append(log, e) /\ UNCHANGED <<job, pc, verdict>> /\ pc = "picking"
        /\ at' = 1 + at
    BY <1>1, <2>1, SMT DEF SkipStep
  <2> HIDE DEF e
  <2>4. QED
    BY <2>1, <2>2, <2>3, TurnsGrows
<1>2. CASE Record
  <2>1. /\ at \in 1..Len(job.steps) /\ attempt \in Nat /\ Len(job.steps) \in Nat
        /\ outcome.status \in {"passed", "failed", "warned"} /\ outcome.cause \in Causes
    BY <1>2, JobFacts, SMT DEF Record, Control, Busy
  <2> DEFINE e == [step |-> at, status |-> outcome.status, cause |-> outcome.cause,
                   attempts |-> attempt + 1]
  <2>2. e \in Entry /\ e.step = at /\ e.status = outcome.status
    BY <2>1, SMT DEF Entry
  <2>3. /\ log' = Append(log, e) /\ UNCHANGED <<job, verdict>>
        /\ pc' = "picking" /\ pc = "recording"
        /\ at' = 1 + IF outcome.status = "failed" /\ at <= job.body THEN job.body ELSE at
    BY <1>2 DEF Record, Following
  <2> HIDE DEF e
  <2>4. QED
    BY <2>1, <2>2, <2>3, TurnsGrows
<1>3. ASSUME UNCHANGED <<job, at, log>>,
             pc' # "returned" => pc # "returned" /\ verdict' = verdict,
             pc' = "called" => pc = "called",
             pc' \in {"attempted", "recording"} /\ outcome'.status = "warned"
               => step.continueOnError
      PROVE  Turns'
  BY <1>3 DEF Turns, TurnTaken, BodyHasFailed, step
<1>4. CASE SkipTest \/ Prepare \/ TakeStep \/ Conclude
  BY <1>3, <1>4 DEF SkipTest, Prepare, TakeStep, Conclude
<1>5. CASE DelayOver \/ DelayCut \/ Resolve \/ Connect \/ Execute \/ Capture \/ Retry
  BY <1>3, <1>5 DEF DelayOver, DelayCut, Resolve, Connect, Execute, Capture, Retry,
     Attempted, Failed
<1>6. CASE OwnDeadline \/ AdapterError \/ AssertionError \/ ExitCodeError \/ Success
  BY <1>3, <1>6 DEF OwnDeadline, AdapterError, AssertionError, ExitCodeError, Success,
     Attempted, Tolerated
<1>7. CASE RetryCut
  BY <1>3, <1>7 DEF RetryCut, Control
<1>8. CASE Decide \/ EndContext \/ UNCHANGED vars
  BY <1>3, <1>8 DEF Decide, EndContext, vars, Turns
<1>9. QED
  BY <1>1, <1>2, <1>4, <1>5, <1>6, <1>7, <1>8 DEF Next, Run, Attempt, Over
-----------------------------------------------------------------------------
(* Theorems *)

Inv == Control /\ Logged /\ Captures /\ Turns

\* The invariants together hold in every state of a test.
LEMMA InvHolds == Spec => []Inv
<1>1. Init => Inv
  BY ControlBegins, LoggedBegins, CapturesBegins, TurnsBegins DEF Inv
<1>2. Inv /\ [Next]_vars => Inv'
  BY ControlKept, LoggedKept, CapturesKept, TurnsKept DEF Inv
<1>3. QED
  BY <1>1, <1>2, PTL DEF Spec

\* The state has its types, for any tests: in particular the index of the step
\* at hand never leaves the steps, whatever fails.
THEOREM TypeCorrect == Spec => []TypeOK
<1>1. Inv => TypeOK
  BY JobFacts DEF Inv, Control, Logged, Captures, TypeOK, Busy, Entry, Value
<1>2. QED
  BY <1>1, InvHolds, PTL

\* The error of the result is that of the first step that failed.
THEOREM FirstError == Spec => []FirstErrorKept
<1>1. Inv => FirstErrorKept
  BY DEF Inv, Logged
<1>2. QED
  BY <1>1, InvHolds, PTL

\* A step fails for good only after every retry, or when the context has ended.
THEOREM RetriesAreUsed == Spec => []RetriesUsedUp
<1>1. Inv => RetriesUsedUp
  BY DEF Inv, Logged
<1>2. QED
  BY <1>1, InvHolds, PTL

\* What a passed step has captured comes from the attempt that passed.
THEOREM CapturesAreFresh == Spec => []CapturesFresh
<1>1. Inv => CapturesFresh
  BY DEF Inv, Captures
<1>2. QED
  BY <1>1, InvHolds, PTL
-----------------------------------------------------------------------------
(* The contract *)

Pair == [step : 1..Len(job.steps), status : {"passed", "failed", "warned", "skipped"}]

\* The log of the contract, and its plan.
Short == [i \in DOMAIN log |-> [step |-> log[i].step, status |-> log[i].status]]

Plan == [k \in DOMAIN job.steps |-> [teardown |-> k > job.body,
                                     continueOnError |-> job.steps[k].continueOnError,
                                     skip |-> job.steps[k].skip]]

\* The plan of the contract has one entry for each step of the job.
LEMMA PlanFacts ==
  ASSUME Control
  PROVE  /\ DOMAIN Plan = 1..Len(job.steps)
         /\ Plan \in Seq(Contract!PlannedStep)
         /\ \A k \in 1..Len(job.steps) :
              /\ Plan[k].teardown <=> k > job.body
              /\ Plan[k].continueOnError = job.steps[k].continueOnError
              /\ Plan[k].skip = job.steps[k].skip
<1>1. /\ job.steps \in Seq(Step) /\ Len(job.steps) \in Nat
      /\ DOMAIN job.steps = 1..Len(job.steps)
  BY JobFacts, SMT DEF Control
<1>2. \A k \in 1..Len(job.steps) : Plan[k] \in Contract!PlannedStep
  <2>1. \A k \in 1..Len(job.steps) : job.steps[k] \in Step
    BY <1>1, SMT
  <2>2. QED
    BY <1>1, <2>1, SMT DEF Plan, Contract!PlannedStep, Step
<1> DEFINE P == Contract!PlannedStep
<1>3. Plan \in Seq(Contract!PlannedStep)
  <2>1. \A k \in 1..Len(job.steps) : Plan[k] \in P
    BY <1>2
  <2>2. Plan = [k \in 1..Len(job.steps) |-> Plan[k]]
    BY <1>1 DEF Plan
  <2> HIDE DEF P
  <2>3. [k \in 1..Len(job.steps) |-> Plan[k]] \in Seq(P)
    BY <1>1, <2>1, IsASeq
  <2>4. QED
    BY <2>2, <2>3 DEF P
<1>4. QED
  BY <1>1, <1>3 DEF Plan

LogShown ==
  /\ Short \in Seq(Pair) /\ Len(Short) = Len(log) /\ DOMAIN Short = DOMAIN log
  /\ \A i \in DOMAIN log : Short[i].step = log[i].step /\ Short[i].status = log[i].status

\* What the log shows follows from its invariant.
LEMMA ShortFacts == Logged => LogShown
<1> SUFFICES ASSUME Logged PROVE LogShown
  OBVIOUS
<1> DEFINE E == Entry
           R == Pair
<1>1. /\ log \in Seq(E) /\ Len(log) \in Nat /\ DOMAIN log = 1..Len(log)
      /\ \A i \in 1..Len(log) : log[i] \in E
  <2>1. log \in Seq(E)
    BY DEF Logged
  <2> HIDE DEF E
  <2>2. QED
    BY <2>1, SMT
<1>2. \A i \in 1..Len(log) : Short[i] \in R
  BY <1>1 DEF Short, Entry, Pair
<1>3. Short = [i \in 1..Len(log) |-> Short[i]]
  BY <1>1 DEF Short
<1> HIDE DEF R
<1>4. [i \in 1..Len(log) |-> Short[i]] \in Seq(R)
  BY <1>1, <1>2, IsASeq
<1>5. Short \in Seq(R)
  BY <1>3, <1>4
<1>6. Len(Short) = Len(log)
  <2>1. Len(Short) \in Nat /\ DOMAIN Short = 1..Len(Short)
    BY <1>5, LenProperties
  <2>2. DOMAIN Short = 1..Len(log)
    BY <1>1 DEF Short
  <2>3. 1..Len(Short) = 1..Len(log)
    BY <2>1, <2>2
  <2> DEFINE a == Len(Short)
             b == Len(log)
  <2>4. a \in Nat /\ b \in Nat /\ \A k \in Int : k \in 1..a <=> k \in 1..b
    BY <2>1, <2>3, <1>1
  <2> HIDE DEF a, b
  <2>5. /\ a \in 1..a <=> a \in 1..b
        /\ b \in 1..a <=> b \in 1..b
    BY <2>4, SMT
  <2>6. a = b
    BY <2>4, <2>5, SMT
  <2>7. QED
    BY <2>6 DEF a, b
<1>7. QED
  BY <1>5, <1>6 DEF Short, R, LogShown

\* The steps that are still owed are always those from `at' on.
LEMMA OwedFromHere ==
  ASSUME Control, Logged, Turns PROVE Contract!Owed = at..Len(job.steps)
<1>1. at \in Nat /\ Len(job.steps) \in Nat /\ job.body \in Nat /\ at >= 1
  BY JobFacts, SMT DEF Control
<1>2. Contract!Taken = TurnTaken
  BY ShortFacts DEF Contract!Taken, TurnTaken, Short, LogShown
<1>3. Contract!BodyFailed <=> BodyHasFailed
  <2>1. \A i \in DOMAIN log : log[i].step \in 1..Len(job.steps)
    <3> DEFINE E == Entry
    <3>1. log \in Seq(E)
      BY DEF Logged
    <3> HIDE DEF E
    <3>2. \A i \in DOMAIN log : log[i] \in E
      BY <3>1, SMT
    <3>3. QED
      BY <3>2 DEF E, Entry
  <2>2. \A i \in DOMAIN log : (~ Plan[Short[i].step].teardown) <=> log[i].step <= job.body
    BY <1>1, <2>1, PlanFacts, ShortFacts, SMT DEF LogShown
  <2>3. Contract!BodyFailed
          <=> \E i \in DOMAIN Short : Short[i].status = "failed" /\ ~Plan[Short[i].step].teardown
    BY DEF Contract!BodyFailed, Short, Plan
  <2>4. QED
    BY <2>2, <2>3, ShortFacts DEF BodyHasFailed, LogShown
<1>4. TurnTaken \subseteq {k \in Int : k < at}
  <2> DEFINE E == Entry
  <2>1. log \in Seq(E)
    BY DEF Logged
  <2> HIDE DEF E
  <2>2. \A i \in DOMAIN log : log[i] \in E /\ log[i].step < at
    BY <2>1, SMT DEF Logged
  <2>3. QED
    BY <2>2, SMT DEF TurnTaken, E, Entry
<1>5. Contract!Owed
        = {k \in 1..Len(job.steps) \ TurnTaken : k > job.body \/ ~BodyHasFailed}
  <2>1. Contract!Owed
          = {k \in DOMAIN Plan \ Contract!Taken : Plan[k].teardown \/ ~Contract!BodyFailed}
    BY DEF Contract!Owed, Plan
  <2>2. QED
    BY <2>1, <1>2, <1>3, PlanFacts
<1>6. ASSUME NEW k \in at..Len(job.steps)
      PROVE  k \in 1..Len(job.steps) \ TurnTaken /\ (k > job.body \/ ~BodyHasFailed)
  BY <1>1, <1>4, SMT DEF Turns
<1>7. ASSUME NEW k \in 1..Len(job.steps) \ TurnTaken, k > job.body \/ ~BodyHasFailed
      PROVE  k \in at..Len(job.steps)
  <2>1. SUFFICES ASSUME k \in 1..at - 1 PROVE FALSE
    BY <1>1, SMT
  <2>2. BodyHasFailed /\ k <= job.body
    BY <1>7, <2>1 DEF Turns
  <2>3. QED
    BY <1>1, <1>7, <2>2, SMT
<1>8. QED
  BY <1>5, <1>6, <1>7

\* The step at hand may be taken, whatever status it ends with.
LEMMA TakesHere ==
  ASSUME Inv, job' = job, verdict' = verdict, verdict = "none", at <= Len(job.steps),
         NEW e \in Entry, e.step = at, log' = Append(log, e), Logged',
         e.status = "warned" => step.continueOnError,
         e.status = "skipped" => step.skip
  PROVE  Contract!TCNext
<1> DEFINE p == [step |-> e.step, status |-> e.status]
           E == Entry
<1>1. at \in 1..Len(job.steps) /\ Len(job.steps) \in Nat
  BY JobFacts, SMT DEF Inv, Control
<1>2. at \in Contract!Owed /\ \A j \in Contract!Owed : at <= j
  BY <1>1, OwedFromHere, SMT DEF Inv
<1>3. e.status \in {"passed", "failed", "warned", "skipped"}
  BY DEF Entry
<1>4. Contract!MayEnd(at, e.status)
  <2>1. Contract!MayEnd(at, e.status)
          <=> \/ e.status \in {"passed", "failed"}
              \/ e.status = "warned" /\ Plan[at].continueOnError
              \/ e.status = "skipped" /\ Plan[at].skip
    BY DEF Contract!MayEnd, Plan
  <2>2. QED
    BY <2>1, <1>1, <1>3, PlanFacts DEF Inv, step
<1>5. Short' = Append(Short, p)
  <2> DEFINE R == Pair
  <2>1. Pair' = Pair
    BY DEF Pair
  <2> (Logged => LogShown)'
    BY ShortFacts, PTL
  <2>2. p \in R /\ Short \in Seq(R) /\ Short' \in Seq(R)
    <3>1. p \in R
      BY DEF Entry, Pair
    <3>2. LogShown /\ LogShown'
      BY ShortFacts DEF Inv
    <3>3. QED
      BY <2>1, <3>1, <3>2 DEF LogShown
  <2>3. /\ log \in Seq(E) /\ e \in E
    BY DEF Inv, Logged
  <2>4. /\ Len(Short) = Len(log) /\ Len(Short') = Len(log')
        /\ \A i \in DOMAIN log : Short[i] = [step |-> log[i].step, status |-> log[i].status]
        /\ \A i \in DOMAIN log' : Short'[i] = [step |-> log'[i].step, status |-> log'[i].status]
    BY ShortFacts DEF Inv, Short, LogShown
  <2> HIDE DEF E, R
  <2>5. /\ Len(log') = Len(log) + 1 /\ Len(log) \in Nat
        /\ DOMAIN log = 1..Len(log) /\ DOMAIN log' = 1..Len(log) + 1
        /\ \A i \in 1..Len(log) : log'[i] = log[i]
        /\ log'[Len(log) + 1] = e
    BY <2>3, SMT
  <2>6. /\ \A i \in 1..Len(log) : Short'[i] = Short[i]
        /\ Short'[Len(log) + 1] = p
    <3>1. \A i \in 1..Len(log) : i \in DOMAIN log /\ i \in DOMAIN log'
      BY <2>5, SMT
    <3>2. Len(log) + 1 \in DOMAIN log'
      BY <2>5, SMT
    <3>3. QED
      BY <2>4, <2>5, <3>1, <3>2
  <2> HIDE DEF p
  <2>7. /\ Append(Short, p) \in Seq(R) /\ Len(Append(Short, p)) = Len(log) + 1
        /\ \A i \in 1..Len(log) : Append(Short, p)[i] = Short[i]
        /\ Append(Short, p)[Len(log) + 1] = p
    BY <2>2, <2>4, AppendProperties
  <2>8. \A i \in 1..Len(log) + 1 : Short'[i] = Append(Short, p)[i]
    BY <2>5, <2>6, <2>7, SMT
  <2>9. QED
    BY <2>2, <2>4, <2>5, <2>7, <2>8, SeqEqual
<1>6. Plan' = Plan
  BY DEF Plan
<1>7. at \in DOMAIN Plan
  BY <1>1, PlanFacts DEF Inv
<1>8. PICK k \in DOMAIN Plan : k = at
  BY <1>7
<1>9. Contract!Take(k)
  <2>1. UNCHANGED <<Plan, verdict>>
    BY <1>6
  <2>2. Contract!MayEnd(k, e.status)
    BY <1>4, <1>8 DEF Contract!MayEnd
  <2>3. Short' = Append(Short, [step |-> k, status |-> e.status])
    BY <1>5, <1>8
  <2>4. QED
    BY <1>2, <1>3, <1>8, <2>1, <2>2, <2>3 DEF Contract!Take, Plan, Short
<1>10. \E i \in DOMAIN Plan : Contract!Take(i)
  BY <1>9
<1>11. QED
  BY <1>10, Zenon DEF Contract!TCNext, Plan

\* The initial states are initial states of the contract.
LEMMA BeginsTheContract == Init => Contract!TCInit
<1> SUFFICES ASSUME Init PROVE Contract!TCInit
  OBVIOUS
<1>1. Control /\ Logged
  BY ControlBegins, LoggedBegins
<1>2. Short \in Seq(Pair) /\ Len(Short) = 0
  BY <1>1, ShortFacts DEF Init, LogShown
<1>3. Short = << >>
  BY <1>2, EmptySeq
<1>4. Plan \in Seq(Contract!PlannedStep)
  BY <1>1, PlanFacts
<1>5. QED
  BY <1>3, <1>4 DEF Init, Contract!TCInit, Short, Plan

\* Every step is a step of the contract, or one that it does not see.
LEMMA StepImplements == Inv /\ Inv' /\ [Next]_vars => [Contract!TCNext]_Contract!contractVars
<1> SUFFICES ASSUME Inv, Inv', [Next]_vars
             PROVE  [Contract!TCNext]_Contract!contractVars
  OBVIOUS
<1>1. CASE UNCHANGED <<job, log, verdict>>
  <2>1. UNCHANGED <<Plan, Short, verdict>>
    BY <1>1 DEF Plan, Short
  <2>2. QED
    BY <2>1 DEF Contract!contractVars, Plan, Short
<1>2. CASE SkipStep
  <2>1. at \in 1..Len(job.steps) /\ Len(job.steps) \in Nat
    BY <1>2, JobFacts, SMT DEF SkipStep, Inv, Control
  <2> DEFINE e == [step |-> at, status |-> "skipped", cause |-> "none", attempts |-> 0]
  <2>2. e \in Entry /\ e.step = at /\ e.status = "skipped"
    BY <2>1 DEF Entry, Causes
  <2>3. /\ log' = Append(log, e) /\ job' = job /\ verdict' = verdict
        /\ at <= Len(job.steps) /\ verdict = "none" /\ step.skip
    BY <1>2 DEF SkipStep, Inv, Turns
  <2> HIDE DEF e
  <2>4. QED
    BY <2>2, <2>3, TakesHere DEF Inv
<1>3. CASE Record
  <2>1. /\ at \in 1..Len(job.steps) /\ attempt \in Nat /\ Len(job.steps) \in Nat
        /\ outcome.status \in {"passed", "failed", "warned"} /\ outcome.cause \in Causes
        /\ at <= Len(job.steps)
    BY <1>3, JobFacts, SMT DEF Record, Inv, Control, Busy
  <2> DEFINE e == [step |-> at, status |-> outcome.status, cause |-> outcome.cause,
                   attempts |-> attempt + 1]
  <2>2. e \in Entry /\ e.step = at /\ e.status = outcome.status /\ e.status # "skipped"
    BY <2>1, SMT DEF Entry
  <2>3. /\ log' = Append(log, e) /\ job' = job /\ verdict' = verdict /\ verdict = "none"
        /\ outcome.status = "warned" => step.continueOnError
    BY <1>3 DEF Record, Inv, Turns
  <2> HIDE DEF e
  <2>4. QED
    BY <2>1, <2>2, <2>3, TakesHere DEF Inv
<1>4. CASE SkipTest \/ (Prepare /\ verdict' = "failed")
  <2>1. /\ log = << >> /\ verdict = "none" /\ verdict' \in {"skipped", "failed"}
        /\ UNCHANGED <<job, log>>
    BY <1>4 DEF SkipTest, Prepare, Inv, Turns
  <2>2. Short \in Seq(Pair) /\ Len(Short) = 0
    BY <2>1, ShortFacts DEF Inv, LogShown
  <2>3. Short = << >>
    BY <2>2, EmptySeq
  <2>4. UNCHANGED <<Plan, Short>>
    BY <2>1 DEF Plan, Short
  <2>5. Contract!PassOver
    BY <2>1, <2>3, <2>4 DEF Contract!PassOver, Plan, Short
  <2>6. QED
    BY <2>5 DEF Contract!TCNext
<1>5. CASE Conclude
  <2>1. /\ at > Len(job.steps) /\ verdict = "none" /\ UNCHANGED <<job, log>>
        /\ verdict' = IF \E i \in DOMAIN log : log[i].status = "failed"
                      THEN "failed" ELSE "passed"
    BY <1>5 DEF Conclude, Inv, Turns
  <2>2. Contract!Owed = {}
    <3>1. at \in Nat /\ Len(job.steps) \in Nat
      BY JobFacts, SMT DEF Inv, Control
    <3>2. at..Len(job.steps) = {}
      BY <2>1, <3>1, SMT
    <3>3. QED
      BY <3>2, OwedFromHere DEF Inv
  <2>3. verdict' = IF \E i \in DOMAIN Short : Short[i].status = "failed"
                   THEN "failed" ELSE "passed"
    BY <2>1, ShortFacts DEF Inv, LogShown
  <2>4. UNCHANGED <<Plan, Short>>
    BY <2>1 DEF Plan, Short
  <2>5. Contract!Conclude
    BY <2>1, <2>2, <2>3, <2>4 DEF Contract!Conclude, Plan, Short
  <2>6. QED
    BY <2>5 DEF Contract!TCNext
<1>6. QED
  BY <1>1, <1>2, <1>3, <1>4, <1>5 DEF Next, vars, Run, SkipTest, Prepare, TakeStep, Attempt,
     DelayOver, DelayCut, Resolve, Connect, Execute, OwnDeadline, Capture, AdapterError,
     AssertionError, ExitCodeError, Success, Decide, Retry, RetryCut, EndContext, Over

\* RunTest implements the contract of a test: the steps in their order, the
\* teardown whatever failed, and the verdict the log says.
THEOREM TestRunImplementsContract == Spec => ImplementsContract
<1>1. Spec => Contract!TCSpec
  BY BeginsTheContract, StepImplements, InvHolds, PTL DEF Spec, Contract!TCSpec
<1>2. QED
  BY <1>1 DEF ImplementsContract

-----------------------------------------------------------------------------
(* Progress: what TestReturns rests on besides fairness *)

\* How far an attempt at a step has come.
PlaceInAttempt ==
  CASE pc = "delaying" -> 1
    [] pc = "resolving" -> 2
    [] pc = "connecting" -> 3
    [] pc = "executing" -> 4
    [] pc = "answered" -> 5
    [] pc = "judging" -> 6
    [] pc = "attempted" -> 7
    [] pc = "backoff" -> 8
    [] pc = "recording" -> 9
    [] OTHER -> 0

\* How far the test has come: the step, the attempt at it, and the place in that.
StepPlace ==
  CASE pc = "called" -> 0
    [] pc \in {"returned", "crashed"} -> Len(job.steps) + 2
    [] OTHER -> at

AttemptPlace == IF pc \in Busy THEN attempt + 1 ELSE 0

\* The places are numbers with bounds that the job determines.
PlacesBounded ==
  /\ StepPlace \in 0..Len(job.steps) + 2
  /\ AttemptPlace \in 0..(IF MaxRetries >= 0 THEN MaxRetries ELSE 0) + 1
  /\ PlaceInAttempt \in 0..9

\* Another step, or another attempt at it, or further in the attempt.
GoesOn ==
  \/ StepPlace' > StepPlace
  \/ StepPlace' = StepPlace /\ AttemptPlace' > AttemptPlace
  \/ StepPlace' = StepPlace /\ AttemptPlace' = AttemptPlace /\ PlaceInAttempt' > PlaceInAttempt

\* A step of the runner goes on with the test; the context ends once.
MovesForward ==
  /\ UNCHANGED job
  /\ \/ GoesOn
     \/ ~ctxDone /\ ctxDone' /\ UNCHANGED <<StepPlace, AttemptPlace, PlaceInAttempt>>

\* The guards of the runner, where they depend on more than the place.
CanMove ==
  /\ pc \in {"called", "picking"} \cup Busy
  /\ pc = "judging" => \/ response = "error"
                       \/ response = "data"
                       \/ response = "nonzero" /\ step.assertExit
                       \/ response = "nonzero" /\ ~step.assertExit

\* Until the test is over the runner can move, and only a negative number of
\* retries makes it crash.
NeverStuck ==
  /\ pc # "returned" /\ MaxRetries >= 0 => CanMove
  /\ pc = "crashed" => MaxRetries < 0

\* What is judged is an answer.
Answered == pc \in {"answered", "judging"} => response # "none"

\* The places of a test in any state.
LEMMA PlacesInvariant == Control => PlacesBounded
<1> SUFFICES ASSUME Control PROVE PlacesBounded
  OBVIOUS
<1>1. Len(job.steps) \in Nat /\ MaxRetries \in Int
  BY JobFacts DEF Control
<1>2. StepPlace \in 0..Len(job.steps) + 2
  BY <1>1 DEF Control, StepPlace
<1>3. AttemptPlace \in 0..(IF MaxRetries >= 0 THEN MaxRetries ELSE 0) + 1
  BY <1>1 DEF Control, AttemptPlace
<1>4. PlaceInAttempt \in 0..9
  BY DEF PlaceInAttempt
<1>5. QED
  BY <1>2, <1>3, <1>4 DEF PlacesBounded

\* A step of the system, action by action (runner.go, RunTest; step.go).
LEMMA StepMovesForward == Control /\ Control' /\ [Next]_vars => MovesForward \/ UNCHANGED vars
<1> SUFFICES ASSUME Control, Next, ~UNCHANGED vars PROVE MovesForward
  OBVIOUS
<1>1. /\ Len(job.steps) \in Nat /\ MaxRetries \in Int
      /\ at \in Nat /\ attempt \in Nat /\ at <= Len(job.steps) + 1
      /\ pc \in Busy => at <= Len(job.steps)
  BY JobFacts DEF Control
<1>2. UNCHANGED job
  BY JobKept
<1> USE DEF StepPlace, AttemptPlace, PlaceInAttempt, Busy
<1>3. CASE SkipTest \/ Prepare
  BY <1>1, <1>2, <1>3 DEF SkipTest, Prepare, Control, MovesForward, GoesOn
<1>4. CASE SkipStep
  BY <1>1, <1>2, <1>4 DEF SkipStep, MovesForward, GoesOn
<1>5. CASE TakeStep
  BY <1>1, <1>2, <1>5 DEF TakeStep, MovesForward, GoesOn
<1>6. CASE Attempt \/ Decide
  <2>1. /\ UNCHANGED <<at, attempt>>
        /\ \/ pc = "delaying" /\ pc' \in {"resolving", "attempted"}
           \/ pc = "resolving" /\ pc' \in {"connecting", "attempted"}
           \/ pc = "connecting" /\ pc' \in {"executing", "attempted"}
           \/ pc = "executing" /\ pc' = "answered"
           \/ pc = "answered" /\ pc' \in {"judging", "attempted"}
           \/ pc = "judging" /\ pc' = "attempted"
           \/ pc = "attempted" /\ pc' \in {"recording", "backoff"}
    BY <1>6 DEF Attempt, DelayOver, DelayCut, Resolve, Connect, Execute, OwnDeadline, Capture,
       AdapterError, AssertionError, ExitCodeError, Success, Decide, Attempted
  <2>2. StepPlace' = StepPlace /\ AttemptPlace' = AttemptPlace
    BY <2>1, <1>2
  <2>3. PlaceInAttempt' > PlaceInAttempt
    BY <2>1
  <2>4. QED
    BY <1>2, <2>2, <2>3 DEF MovesForward, GoesOn
<1>7. CASE Retry
  BY <1>1, <1>2, <1>7 DEF Retry, MovesForward, GoesOn
<1>8. CASE RetryCut
  BY <1>1, <1>2, <1>8 DEF RetryCut, MovesForward, GoesOn
<1>9. CASE Record
  <2>1. Following \in at + 1..Len(job.steps) + 1
    BY <1>9, FollowingIsAhead DEF Record
  <2>2. pc = "recording" /\ pc' = "picking" /\ at' = Following
    BY <1>9 DEF Record
  <2>3. StepPlace = at /\ StepPlace' = Following
    BY <2>2
  <2>4. QED
    BY <1>1, <1>2, <2>1, <2>3 DEF MovesForward, GoesOn
<1>10. CASE Conclude
  BY <1>1, <1>2, <1>10 DEF Conclude, MovesForward, GoesOn
<1>11. CASE EndContext
  BY <1>2, <1>11 DEF EndContext, MovesForward, Control
<1>12. QED
  BY <1>3, <1>4, <1>5, <1>6, <1>7, <1>8, <1>9, <1>10, <1>11 DEF Next, Run, Over

\* A test takes finitely many steps, whatever fails and whenever its context ends:
\* each but the one end of the context goes on with the steps, the attempts at a
\* step or the attempt, and each of the three has a bound (runner.go, RunTest).
THEOREM TestMovesForward == Spec => []PlacesBounded /\ [][MovesForward]_vars
<1>1. Control /\ Control' /\ [Next]_vars => [MovesForward]_vars
  BY StepMovesForward
<1>2. Spec => []Control
  BY ControlBegins, ControlKept, PTL DEF Spec
<1>3. QED
  BY <1>1, <1>2, PlacesInvariant, PTL DEF Spec

\* Until the test is over there is a step to take, and with retries that are not
\* negative it does not crash (step.go, ExecuteStepWithRetry).
THEOREM TestIsNeverStuck == Spec => []NeverStuck
<1> DEFINE CrashInv == pc = "crashed" => MaxRetries < 0
<1>1. Init => Answered /\ CrashInv
  BY DEF Init, Answered
<1>2. Control /\ Answered /\ CrashInv /\ [Next]_vars => Answered' /\ CrashInv'
  <2> SUFFICES ASSUME Control, Answered, CrashInv, [Next]_vars PROVE Answered' /\ CrashInv'
    OBVIOUS
  <2>1. MaxRetries' = MaxRetries /\ MaxRetries \in Int
    BY JobKept, JobFacts DEF MaxRetries, Control
  <2>2. CASE Execute
    BY <2>1, <2>2 DEF Execute, Answered
  <2>3. CASE TakeStep
    BY <2>1, <2>3 DEF TakeStep, Answered
  <2>4. CASE Capture
    BY <2>4 DEF Capture, Answered
  <2>5. CASE UNCHANGED vars \/ Over \/ EndContext
    BY <2>1, <2>5 DEF vars, Over, EndContext, Answered
  <2>6. CASE Next /\ ~(Execute \/ TakeStep \/ Capture \/ Over \/ EndContext)
    <3>1. pc' \notin {"answered", "judging", "crashed"}
      BY <2>6 DEF Next, Run, SkipTest, Prepare, SkipStep, Attempt, DelayOver,
         DelayCut, Resolve, Connect, OwnDeadline, AdapterError, AssertionError, ExitCodeError,
         Success, Decide, Retry, RetryCut, Record, Conclude, Attempted
    <3>2. QED
      BY <3>1 DEF Answered
  <2>7. QED
    BY <2>2, <2>3, <2>4, <2>5, <2>6
<1>3. Control /\ Answered /\ CrashInv => NeverStuck
  <2> SUFFICES ASSUME Control, Answered, CrashInv PROVE NeverStuck
    OBVIOUS
  <2>1. MaxRetries \in Int
    BY JobFacts DEF Control
  <2>2. QED
    BY <2>1 DEF Control, Answered, NeverStuck, CanMove
<1>4. Spec => []Control
  BY ControlBegins, ControlKept, PTL DEF Spec
<1>5. QED
  BY <1>1, <1>2, <1>3, <1>4, PTL DEF Spec
=============================================================================
