---------------------------- MODULE AdapterCalls ----------------------------
(***************************************************************************)
(* What the two messaging adapters have in common: goroutines of parallel  *)
(* tests that call Execute, each with a deadline of its own.               *)
(***************************************************************************)
EXTENDS Integers, Sequences

CONSTANTS
  Proc,           \* the goroutines that execute steps
  Step,           \* the steps: [action, params]
  Wanted(_, _),   \* whether a message or event matches the filter of a step
  MaxCalls        \* bound: calls of Execute

VARIABLES
  at,         \* at[p]: where p is in Execute
  step,       \* step[p]: the step p executes
  expired,    \* the goroutines whose deadline has passed
  calls       \* calls made so far

None == -1

Goto(p, place) == at' = [at EXCEPT ![p] = place]

\* Every call returns: its deadline ends what is not answered, also when the
\* adapter was closed or the test ended before (kafka.go:411, eventhub.go:235).
EveryCallReturns == \A p \in Proc : at[p] # "idle" ~> at[p] = "idle"
=============================================================================
