---------------------------- MODULE SuiteVerdicts ----------------------------
(***************************************************************************)
(* What the caller of Orchestrator.Run may find in the result, whatever    *)
(* the slots and the interleaving were.  A suite is a record: its tests,   *)
(* the names each of them depends on, the tests marked `skip', and the     *)
(* bail option.                                                            *)
(***************************************************************************)

Failures(verdict) == {t \in DOMAIN verdict : verdict[t] = "failed"}

\* A dependency that keeps t from being run: it is unknown, or has failed.
IsBarred(s, verdict, t) == \E d \in s.depends[t] : d \notin s.tests \/ verdict[d] = "failed"

\* Why a test may be passed over without running its body.
Excused(s, interrupted, verdict, t) ==
  \/ IsBarred(s, verdict, t)
  \/ s.bail /\ Failures(verdict) # {}
  \/ interrupted

\* A test that is barred or marked is skipped, and no other without an excuse.
Justified(s, interrupted, verdict, t) ==
  IF t \in s.skip \/ IsBarred(s, verdict, t)
  THEN verdict[t] = "skipped"
  ELSE verdict[t] = "skipped" => Excused(s, interrupted, verdict, t)

PossibleVerdicts(s, interrupted) ==
  {v \in [s.tests -> {"passed", "failed", "skipped"}] :
     \A t \in s.tests : Justified(s, interrupted, v, t)}
=============================================================================
