----------------------------- MODULE MCTestRun -----------------------------
(* Small tests for TestRun.                                                 *)
EXTENDS TestRun

MCVar == {"x"}

Plain == [skip |-> FALSE, delay |-> FALSE, timeout |-> FALSE,
          continueOnError |-> FALSE, shell |-> FALSE, needs |-> {}, capture |-> {},
          assert |-> FALSE, assertExit |-> FALSE]

Skipped == [Plain EXCEPT !.skip = TRUE]
Delayed == [Plain EXCEPT !.delay = TRUE]
Limited == [Plain EXCEPT !.timeout = TRUE, !.capture = {"x"}]
Tolerant == [Plain EXCEPT !.continueOnError = TRUE, !.timeout = TRUE]
Capturing == [Plain EXCEPT !.capture = {"x"}, !.assert = TRUE]
Needing == [Plain EXCEPT !.needs = {"x"}]
Command == [Plain EXCEPT !.shell = TRUE]
CheckedCommand ==
  [Plain EXCEPT !.shell = TRUE, !.assert = TRUE, !.assertExit = TRUE]

\* A step of each kind, for the body and for the teardown.
Kinds == {Skipped, Delayed, Limited, Tolerant, Capturing, Needing, Command, CheckedCommand}
TeardownKinds == {Delayed, Tolerant, Capturing, Needing}

JobOf(steps, body, retries, modern, strict) ==
  [steps |-> steps, body |-> body, skip |-> FALSE, modern |-> modern, strict |-> strict,
   retries |-> retries, defaultRetries |-> 1]

\* A step of every kind before a teardown step, with the default of one retry;
\* two body steps and two teardown steps without retries; two body steps that
\* capture the same name; a test to be skipped; and a negative default.
MCJobs ==
  {JobOf(<<s, t>>, 1, -1, m, TRUE) : s \in Kinds, t \in TeardownKinds, m \in BOOLEAN}
    \cup {JobOf(<<s, r, t, Delayed>>, 2, 0, TRUE, FALSE) :
            s \in {Skipped, Tolerant, Capturing}, r \in {Needing, Capturing},
            t \in TeardownKinds}
    \cup {JobOf(<<Limited, Capturing>>, 2, 1, TRUE, TRUE)}
    \cup {[JobOf(<<Plain>>, 1, -1, TRUE, TRUE) EXCEPT !.skip = TRUE],
          [JobOf(<<Plain>>, 1, -1, TRUE, TRUE) EXCEPT !.defaultRetries = -1]}
=============================================================================
