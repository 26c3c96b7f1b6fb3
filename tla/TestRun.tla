------------------------------- MODULE TestRun -------------------------------
(***************************************************************************)
(* RunTest, ExecuteStepWithRetry and ExecuteStep (internal/executor/       *)
(* runner.go and step.go): one goroutine takes the steps of one test       *)
(* through delay, interpolation, connection, execution, capture and        *)
(* assertion, attempt after attempt.  Its context ends at any moment, by   *)
(* the deadline of the test or by the caller, and a step may have a        *)
(* deadline of its own.                                                    *)
(*                                                                         *)
(* Values are abstracted: a captured value is known by the step and the    *)
(* attempt it came from, and an adapter, an interpolation and an assertion *)
(* are known by whether they succeed.                                      *)
(***************************************************************************)
EXTENDS Integers, Sequences

CONSTANTS
  Var,    \* the names steps capture values under
  Jobs    \* the tests to run: elements of Job

\* A step, as far as the control of the runner tells steps apart.
Step == [skip : BOOLEAN,
         delay : BOOLEAN,            \* is there a delay before it?
         timeout : BOOLEAN,          \* has it a deadline of its own?
         continueOnError : BOOLEAN,
         shell : BOOLEAN,            \* is the adapter the shell?
         needs : SUBSET Var,         \* {{captured.*}} in its parameters
         capture : SUBSET Var,
         assert : BOOLEAN,           \* does it assert anything?
         assertExit : BOOLEAN]       \* does it assert the exit code?

\* The phases of a test in their order, its options and those of the suite.
Job == [steps : Seq(Step),
        body : Nat,                  \* the number of steps before the teardown
        skip : BOOLEAN,
        modern : BOOLEAN,            \* the execution area of the compat level
        strict : BOOLEAN,            \* strictResolve
        retries : Int,               \* the test's own; negative: not set
        defaultRetries : Int]        \* those of the configuration, any integer

ASSUME JobAssumption ==
  /\ Jobs \subseteq Job
  /\ \A j \in Jobs : j.body <= Len(j.steps)

Causes == {"none", "cancelled", "unresolved", "noAdapter", "deadline",
           "adapter", "assertion", "exitCode"}

VARIABLES
  job,         \* the test being run
  pc,          \* where the goroutine is
  at,          \* the index of the step at hand
  attempt,     \* the attempt at it, from 0
  response,    \* what the adapter answered
  outcome,     \* status and cause of the attempt
  log,         \* `steps': the recorded outcomes
  firstError,  \* `runErr': the entry of log it came from, 0 for nil
  captured,    \* captured[v]: the step and attempt it came from
  ctxDone,     \* has the context of the run ended?
  verdict      \* the status of the result, "none" until it is set

vars == <<job, pc, at, attempt, response, outcome, log, firstError, captured,
          ctxDone, verdict>>

NoValue == [step |-> 0, attempt |-> 0]
NoOutcome == [status |-> "none", cause |-> "none"]

step == job.steps[at]

\* The test's own setting, even 0, wins over the default.
MaxRetries == IF job.retries >= 0 THEN job.retries ELSE job.defaultRetries

\* A step deadline counts only in the modern execution area.
HasDeadline == step.timeout /\ job.modern

Failed(cause) == [status |-> "failed", cause |-> cause]

\* Errors from the adapter on are warnings for a step that continues on error.
Tolerated(cause) ==
  [status |-> IF step.continueOnError THEN "warned" ELSE "failed", cause |-> cause]

\* The attempt is over.
Attempted(o) == pc' = "attempted" /\ outcome' = o
-----------------------------------------------------------------------------
Init ==
  /\ job \in Jobs
  /\ pc = "called"
  /\ at = 1
  /\ attempt = 0
  /\ response = "none"
  /\ outcome = NoOutcome
  /\ log = << >>
  /\ firstError = 0
  /\ captured = [v \in Var |-> NoValue]
  /\ ctxDone = FALSE
  /\ verdict = "none"

\* A test marked `skip' returns before any reporter call.
SkipTest ==
  /\ pc = "called"
  /\ job.skip
  /\ verdict' = "skipped"
  /\ pc' = "returned"
  /\ UNCHANGED <<job, at, attempt, response, outcome, log, firstError, captured, ctxDone>>

\* The compat level of the file and the variables are resolved; either may
\* fail, and then no step is taken.
Prepare ==
  /\ pc = "called"
  /\ ~job.skip
  /\ \/ pc' = "picking" /\ UNCHANGED verdict
     \/ pc' = "returned" /\ verdict' = "failed"
  /\ UNCHANGED <<job, at, attempt, response, outcome, log, firstError, captured, ctxDone>>

\* A step marked `skip' is recorded without an attempt, if modern.
SkipStep ==
  /\ pc = "picking"
  /\ at <= Len(job.steps)
  /\ step.skip /\ job.modern
  /\ log' = Append(log, [step |-> at, status |-> "skipped", cause |-> "none", attempts |-> 0])
  /\ at' = at + 1
  /\ UNCHANGED <<job, pc, attempt, response, outcome, firstError, captured, ctxDone, verdict>>

\* The first attempt begins.  With a negative maxRetries the loop has no
\* iteration, and RunTest dereferences the nil outcome.
TakeStep ==
  /\ pc = "picking"
  /\ at <= Len(job.steps)
  /\ ~(step.skip /\ job.modern)
  /\ attempt' = 0
  /\ pc' = IF MaxRetries >= 0 THEN "delaying" ELSE "crashed"
  /\ UNCHANGED <<job, at, response, outcome, log, firstError, captured, ctxDone, verdict>>

\* 1. The pre-delay passes, or the context ends it.  Both may be ready.
DelayOver ==
  /\ pc = "delaying"
  /\ pc' = "resolving"
  /\ UNCHANGED <<job, at, attempt, response, outcome, log, firstError, captured, ctxDone, verdict>>

\* Faulty variant of DelayCut: the step returns without an outcome.
DelayCutNoOutcome ==
  /\ pc = "delaying"
  /\ step.delay
  /\ ctxDone
  /\ pc' = "recording"
  /\ UNCHANGED <<job, at, attempt, response, outcome, log, firstError, captured, ctxDone, verdict>>

DelayCut ==
  /\ pc = "delaying"
  /\ step.delay
  /\ ctxDone
  /\ Attempted(Failed("cancelled"))
  /\ UNCHANGED <<job, at, attempt, response, log, firstError, captured, ctxDone, verdict>>

\* 2. The parameters are interpolated.  In strict mode a reference to a value
\* that was never captured is an error; other expressions may be in error too.
Resolve ==
  /\ pc = "resolving"
  /\ \/ /\ job.strict => \A v \in step.needs : captured[v] # NoValue
        /\ pc' = "connecting"
        /\ UNCHANGED outcome
     \/ Attempted(Failed("unresolved"))
  /\ UNCHANGED <<job, at, attempt, response, log, firstError, captured, ctxDone, verdict>>

\* 3. The registry gives the adapter, or an error even if errors are tolerated.
Connect ==
  /\ pc = "connecting"
  /\ \/ pc' = "executing" /\ UNCHANGED outcome
     \/ Attempted(Failed("noAdapter"))
  /\ UNCHANGED <<job, at, attempt, response, log, firstError, captured, ctxDone, verdict>>

\* 4. The adapter answers with data, or with an error and no data.  Only the
\* shell has an exit code, and a nonzero one is data.
Execute ==
  /\ pc = "executing"
  /\ response' \in {"data", "error"} \cup (IF step.shell THEN {"nonzero"} ELSE {})
  /\ pc' = "answered"
  /\ UNCHANGED <<job, at, attempt, outcome, log, firstError, captured, ctxDone, verdict>>

\* The step's own deadline has fired, maybe only after the answer, and the
\* context of the run has not ended: the answer is dropped.
OwnDeadline ==
  /\ pc = "answered"
  /\ HasDeadline
  /\ ~ctxDone
  /\ Attempted(Tolerated("deadline"))
  /\ UNCHANGED <<job, at, attempt, response, log, firstError, captured, ctxDone, verdict>>

\* Faulty variant of Capture: a value captured by an earlier attempt stays.
CaptureOnce ==
  /\ pc = "answered"
  /\ captured' = IF response = "error" THEN captured
                 ELSE [v \in Var |-> IF v \in step.capture /\ captured[v] = NoValue
                                     THEN [step |-> at, attempt |-> attempt]
                                     ELSE captured[v]]
  /\ pc' = "judging"
  /\ UNCHANGED <<job, at, attempt, response, outcome, log, firstError, ctxDone, verdict>>

\* 5. Values are captured from the data, before the attempt is judged.
Capture ==
  /\ pc = "answered"
  /\ captured' = IF response = "error" THEN captured
                 ELSE [v \in Var |-> IF v \in step.capture
                                     THEN [step |-> at, attempt |-> attempt]
                                     ELSE captured[v]]
  /\ pc' = "judging"
  /\ UNCHANGED <<job, at, attempt, response, outcome, log, firstError, ctxDone, verdict>>

\* The adapter's error ends the attempt; assertions come next.
AdapterError ==
  /\ pc = "judging"
  /\ response = "error"
  /\ Attempted(Tolerated("adapter"))
  /\ UNCHANGED <<job, at, attempt, response, log, firstError, captured, ctxDone, verdict>>

\* 6. An assertion fails, or cannot be evaluated.
AssertionError ==
  /\ pc = "judging"
  /\ response # "error"
  /\ step.assert
  /\ Attempted(Tolerated("assertion"))
  /\ UNCHANGED <<job, at, attempt, response, log, firstError, captured, ctxDone, verdict>>

\* 7. The assertions hold, and nobody asserted the nonzero exit code.
ExitCodeError ==
  /\ pc = "judging"
  /\ response = "nonzero"
  /\ ~step.assertExit
  /\ Attempted(Tolerated("exitCode"))
  /\ UNCHANGED <<job, at, attempt, response, log, firstError, captured, ctxDone, verdict>>

\* 8. The step has passed.
Success ==
  /\ pc = "judging"
  /\ response = "data" \/ (response = "nonzero" /\ step.assertExit)
  /\ Attempted([status |-> "passed", cause |-> "none"])
  /\ UNCHANGED <<job, at, attempt, response, log, firstError, captured, ctxDone, verdict>>

\* Faulty variant of Decide: the last retry is not made.
DecideOneLess ==
  /\ pc = "attempted"
  /\ pc' = IF outcome.status \in {"passed", "warned"} \/ attempt + 1 >= MaxRetries
           THEN "recording" ELSE "backoff"
  /\ UNCHANGED <<job, at, attempt, response, outcome, log, firstError, captured, ctxDone, verdict>>

\* A passing or warned outcome, and the outcome of the last attempt, is final.
Decide ==
  /\ pc = "attempted"
  /\ pc' = IF outcome.status \in {"passed", "warned"} \/ attempt = MaxRetries
           THEN "recording" ELSE "backoff"
  /\ UNCHANGED <<job, at, attempt, response, outcome, log, firstError, captured, ctxDone, verdict>>

\* Faulty variant of Retry: the attempts are not counted.
RetryForever ==
  /\ pc = "backoff"
  /\ pc' = "delaying"
  /\ UNCHANGED <<job, at, attempt, response, outcome, log, firstError, captured, ctxDone, verdict>>

\* The backoff passes, or the context ends it.  Both may be ready.
Retry ==
  /\ pc = "backoff"
  /\ attempt' = attempt + 1
  /\ pc' = "delaying"
  /\ UNCHANGED <<job, at, response, outcome, log, firstError, captured, ctxDone, verdict>>

RetryCut ==
  /\ pc = "backoff"
  /\ ctxDone
  /\ pc' = "recording"
  /\ UNCHANGED <<job, at, attempt, response, outcome, log, firstError, captured, ctxDone, verdict>>

\* Faulty variant of Following: a failure ends the teardown too.
FollowingNone ==
  IF outcome.status = "failed" THEN Len(job.steps) + 1 ELSE at + 1

\* The step after the one recorded: a failure outside the teardown skips what
\* is left of the phases before the teardown.
Following ==
  1 + IF outcome.status = "failed" /\ at <= job.body THEN job.body ELSE at

\* Faulty variant of Record: a later error replaces the first one.
RecordLastError ==
  /\ pc = "recording"
  /\ log' = Append(log, [step |-> at, status |-> outcome.status,
                         cause |-> outcome.cause, attempts |-> attempt + 1])
  /\ firstError' = IF outcome.status = "failed" THEN Len(log) + 1 ELSE firstError
  /\ at' = Following
  /\ pc' = "picking"
  /\ UNCHANGED <<job, attempt, response, outcome, captured, ctxDone, verdict>>

\* The outcome is recorded and reported; the first error of the test is kept.
Record ==
  /\ pc = "recording"
  /\ log' = Append(log, [step |-> at, status |-> outcome.status,
                         cause |-> outcome.cause, attempts |-> attempt + 1])
  /\ firstError' = IF outcome.status = "failed" /\ firstError = 0
                   THEN Len(log) + 1 ELSE firstError
  /\ at' = Following
  /\ pc' = "picking"
  /\ UNCHANGED <<job, attempt, response, outcome, captured, ctxDone, verdict>>

\* Every phase is over.
Conclude ==
  /\ pc = "picking"
  /\ at > Len(job.steps)
  /\ verdict' = IF \E i \in DOMAIN log : log[i].status = "failed"
                THEN "failed" ELSE "passed"
  /\ pc' = "returned"
  /\ UNCHANGED <<job, at, attempt, response, outcome, log, firstError, captured, ctxDone>>

\* The deadline of the test passes, or the caller cancels the run.
EndContext ==
  /\ ~ctxDone
  /\ pc \notin {"returned", "crashed"}
  /\ ctxDone' = TRUE
  /\ UNCHANGED <<job, pc, at, attempt, response, outcome, log, firstError, captured, verdict>>

Attempt ==
  \/ DelayOver \/ DelayCut \/ Resolve \/ Connect \/ Execute \/ OwnDeadline
  \/ Capture \/ AdapterError \/ AssertionError \/ ExitCodeError \/ Success

Run ==
  \/ SkipTest \/ Prepare \/ SkipStep \/ TakeStep \/ Attempt
  \/ Decide \/ Retry \/ RetryCut \/ Record \/ Conclude

\* RunTest has returned, or the process has crashed.
Over == pc \in {"returned", "crashed"} /\ UNCHANGED vars

Next == Run \/ EndContext \/ Over

Spec == Init /\ [][Next]_vars

\* The goroutine is scheduled and an adapter call is assumed to return.
FairSpec == Spec /\ WF_vars(Run)
-----------------------------------------------------------------------------
(* Properties *)

\* Types of the state.
TypeOK ==
  /\ job \in Job
  /\ pc \in {"called", "picking", "delaying", "resolving", "connecting", "executing",
             "answered", "judging", "attempted", "backoff", "recording", "returned",
             "crashed"}
  /\ at \in 1..Len(job.steps) + 1
  /\ attempt \in Nat
  /\ response \in {"none", "data", "nonzero", "error"}
  /\ outcome \in [status : {"none", "passed", "failed", "warned"}, cause : Causes]
  /\ log \in Seq([step : 1..Len(job.steps), cause : Causes, attempts : Nat,
                  status : {"passed", "failed", "warned", "skipped"}])
  /\ firstError \in 0..Len(log)
  /\ captured \in [Var -> [step : 0..Len(job.steps), attempt : Nat]]
  /\ ctxDone \in BOOLEAN
  /\ verdict \in {"none", "passed", "failed", "skipped"}

\* The error of the result is the one of the first step that failed: a teardown
\* step that fails later does not hide it.
FirstErrorKept ==
  /\ firstError # 0 => log[firstError].status = "failed"
  /\ \A i \in DOMAIN log :
       log[i].status = "failed" => firstError # 0 /\ firstError <= i

\* A step fails for good only after maxRetries + 1 attempts, unless the context
\* has ended; no step is attempted more often.
RetriesUsedUp ==
  \A i \in DOMAIN log :
    /\ log[i].status # "skipped" => log[i].attempts <= MaxRetries + 1
    /\ log[i].status = "failed" /\ ~ctxDone => log[i].attempts = MaxRetries + 1

\* What a step that passed has captured comes from the attempt that passed,
\* not from one that failed before, unless a later step captured it anew.
CapturesFresh ==
  \A i \in DOMAIN log : log[i].status = "passed" =>
    \A v \in job.steps[log[i].step].capture :
      \/ captured[v] = [step |-> log[i].step, attempt |-> log[i].attempts - 1]
      \/ captured[v].step > log[i].step

\* A test ends, whenever its context ends and whichever attempts fail.
TestReturns == MaxRetries >= 0 ~> pc = "returned"

\* RunTest implements the contract of a test.
Contract == INSTANCE TestContract WITH
  plan <- [k \in DOMAIN job.steps |->
             [teardown |-> k > job.body,
              continueOnError |-> job.steps[k].continueOnError,
              skip |-> job.steps[k].skip]],
  log <- [i \in DOMAIN log |-> [step |-> log[i].step, status |-> log[i].status]]

ImplementsContract == Contract!TCSpec
=============================================================================
