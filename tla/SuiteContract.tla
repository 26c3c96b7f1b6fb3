---------------------------- MODULE SuiteContract ----------------------------
(***************************************************************************)
(* What a suite run promises to its caller, apart from goroutines, slots   *)
(* and channels: every test gets exactly one verdict, a test body is run   *)
(* only when each dependency is a test of the suite with a verdict other   *)
(* than "failed", at most limit bodies run at the same time, a test is     *)
(* passed over only for a reason, and the suite is concluded only once     *)
(* every test has its verdict.  Orchestrator implements this contract, and *)
(* RunCommand relies on the verdicts it concludes with.                    *)
(***************************************************************************)
EXTENDS Integers, FiniteSets, SuiteVerdicts

CONSTANTS Name,        \* names a test may depend on
          Test         \* the tests of the suite

VARIABLES suite,       \* the suite, as in SuiteVerdicts
          limit,       \* how many test bodies may run at the same time
          verdict,     \* verdict[t]: "none" until t is recorded
          running,     \* the tests whose body has begun and is not recorded
          interrupted, \* has the caller cancelled the run?
          concluded    \* has the suite result been returned?

contractVars == <<suite, limit, verdict, running, interrupted, concluded>>

CInit ==
  /\ suite \in [tests : {Test}, depends : [Test -> SUBSET Name], skip : SUBSET Test, bail : BOOLEAN]
  /\ limit \in Nat \ {0}
  /\ verdict = [t \in Test |-> "none"]
  /\ running = {}
  /\ interrupted = FALSE
  /\ concluded = FALSE

\* The body of t begins.
Begin(t) ==
  /\ verdict[t] = "none"
  /\ t \notin running
  /\ \A d \in suite.depends[t] : d \in Test /\ verdict[d] \notin {"none", "failed"}
  /\ Cardinality(running) < limit
  /\ running' = running \cup {t}
  /\ UNCHANGED <<suite, limit, verdict, interrupted, concluded>>

\* The body of t has returned and its verdict is recorded.
Finish(t) ==
  /\ t \in running
  /\ running' = running \ {t}
  /\ \E v \in IF t \in suite.skip THEN {"skipped"} ELSE {"passed", "failed"} :
       verdict' = [verdict EXCEPT ![t] = v]
  /\ UNCHANGED <<suite, limit, interrupted, concluded>>

\* t is passed over without running its body, and there is a reason.
PassOver(t) ==
  /\ verdict[t] = "none"
  /\ t \notin running
  /\ Excused(suite, interrupted, verdict, t)
  /\ verdict' = [verdict EXCEPT ![t] = "skipped"]
  /\ UNCHANGED <<suite, limit, running, interrupted, concluded>>

Interrupt ==
  /\ ~interrupted /\ ~concluded
  /\ interrupted' = TRUE
  /\ UNCHANGED <<suite, limit, verdict, running, concluded>>

\* The caller is given the verdicts, all of them justified by one another.
Conclude ==
  /\ ~concluded
  /\ running = {}
  /\ verdict \in PossibleVerdicts(suite, interrupted)
  /\ concluded' = TRUE
  /\ UNCHANGED <<suite, limit, verdict, running, interrupted>>

CNext ==
  \/ \E t \in Test : Begin(t) \/ Finish(t) \/ PassOver(t)
  \/ Interrupt
  \/ Conclude

CSpec == CInit /\ [][CNext]_contractVars
=============================================================================
