---------------------------- MODULE MCRunCommand ----------------------------
(* RunCommand on small instances. *)
EXTENDS RunCommand

CONSTANTS a, b, db, none, root, sub, f, g

MCTest == {a, b}

\* The second test depends on the first.
MCDepends == [t \in MCTest |-> IF t = b THEN {a} ELSE {}]

CommandLine(watch, failedOnly, writable) ==
  [watch |-> watch, failedOnly |-> failedOnly, bail |-> FALSE, keep |-> MCTest,
   writable |-> writable]

\* Watch mode, in a directory that cannot be written: the list of failed names,
\* which no property of the watch mode is about, stays as it is.
WatchOptions == {[CommandLine(TRUE, FALSE, FALSE) EXCEPT !.keep = {a}]}

\* Plain and --failed-only invocations, one after another.
SessionOptions ==
  {CommandLine(FALSE, failedOnly, writable) : failedOnly \in BOOLEAN, writable \in BOOLEAN}
    \cup {[CommandLine(FALSE, FALSE, TRUE) EXCEPT !.bail = TRUE]}

AllOptions == WatchOptions \cup SessionOptions

FailedOnlyOptions == {CommandLine(FALSE, failedOnly, TRUE) : failedOnly \in BOOLEAN}

MCName == {db, none}

\* One file is in the root, and one in a directory that may be created later.
MCFile == {f, g}
MCPlace == [x \in MCFile |-> IF x = f THEN root ELSE sub]

\* Several invocations, or one in watch mode.  The bounds of the latter: its steps
\* ask for the registered name, all the files whose directory is there are found,
\* an event of the kind that is ignored is ahead of one edit at most, and nothing
\* is edited after the interrupt.
MCInit == Init /\ (option.watch \/ dirs = {root})

WatchBounds ==
  /\ invocations' <= 1
  /\ \A r \in Run : want'[r] # none
  /\ paths' \in {{}, paths, {x \in MCFile : Place[x] \in dirs}}
  /\ (\E i \in DOMAIN queue' : queue'[i].kind = "other") => edits' <= 1
  /\ ctxDone => edits' = edits

MCNext ==
  /\ Next
  /\ option'.watch = option.watch
  /\ option.watch => WatchBounds

MCSpec == MCInit /\ [][MCNext]_vars /\ Fairness
=============================================================================
