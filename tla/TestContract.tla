---------------------------- MODULE TestContract ----------------------------
(***************************************************************************)
(* What running one test promises, apart from attempts, delays, deadlines  *)
(* and contexts: the steps are taken in order, a step that fails ends the  *)
(* body of the test but not its teardown, every teardown step gets its     *)
(* turn, and the verdict is "failed" exactly if some step failed.  TestRun *)
(* implements this contract.                                               *)
(***************************************************************************)
EXTENDS Integers, Sequences

VARIABLES plan,     \* the steps: are they teardown steps, do they tolerate errors?
          log,      \* the steps that had their turn and how they ended
          verdict   \* "none" until the test is over

contractVars == <<plan, log, verdict>>

PlannedStep == [teardown : BOOLEAN, continueOnError : BOOLEAN, skip : BOOLEAN]

Taken == {log[i].step : i \in DOMAIN log}

BodyFailed ==
  \E i \in DOMAIN log : log[i].status = "failed" /\ ~plan[log[i].step].teardown

\* The steps that are still to have their turn.
Owed == {k \in DOMAIN plan \ Taken : plan[k].teardown \/ ~BodyFailed}

\* A step may be passed over only if its author asked for it, and it may be let
\* off with a warning only if it tolerates errors.
MayEnd(k, status) ==
  \/ status \in {"passed", "failed"}
  \/ status = "warned" /\ plan[k].continueOnError
  \/ status = "skipped" /\ plan[k].skip

TCInit ==
  /\ plan \in Seq(PlannedStep)
  /\ log = << >>
  /\ verdict = "none"

Take(k) ==
  /\ verdict = "none"
  /\ k \in Owed
  /\ \A j \in Owed : k <= j
  /\ \E s \in {"passed", "failed", "warned", "skipped"} :
       /\ MayEnd(k, s)
       /\ log' = Append(log, [step |-> k, status |-> s])
  /\ UNCHANGED <<plan, verdict>>

\* The test is not begun: it is to be skipped, or it could not be prepared.
PassOver ==
  /\ verdict = "none"
  /\ log = << >>
  /\ verdict' \in {"skipped", "failed"}
  /\ UNCHANGED <<plan, log>>

Conclude ==
  /\ verdict = "none"
  /\ Owed = {}
  /\ verdict' = IF \E i \in DOMAIN log : log[i].status = "failed"
                THEN "failed" ELSE "passed"
  /\ UNCHANGED <<plan, log>>

TCNext == (\E k \in DOMAIN plan : Take(k)) \/ PassOver \/ Conclude

TCSpec == TCInit /\ [][TCNext]_contractVars
=============================================================================
