----------------------------- MODULE Reporting -----------------------------
(***************************************************************************)
(* The reporters of a run (internal/reporter) under the goroutines of the  *)
(* suite.  Multi hands each event to the console and then, in the order of *)
(* the flags, to the reporters of files: JSON, JUnit and HTML append under *)
(* a mutex and write a document when they are flushed; the console has no  *)
(* mutex, so its append is a read and a write.  The reporters of a command *)
(* that watches serve every run of it.                                     *)
(*                                                                         *)
(* What becomes of a test is a choice here: Orchestrator and TestRun say   *)
(* when each outcome is justified.                                         *)
(***************************************************************************)
EXTENDS Selection, FiniteSetsExt

CONSTANT MaxRuns  \* bound: the runs of a command that watches

VARIABLES
  at,           \* where the goroutine of each test is
  pending,      \* the reporters of files that it has not called yet
  seen,         \* the list of the console as a goroutine has read it
  failedTests,  \* of the console
  entries,      \* of each reporter of a file
  results,      \* of each run: the status of each test
  summary,      \* the failures that the console has printed last
  documents     \* what each reporter of a file has rendered last

reportVars == <<at, pending, seen, failedTests, entries, results, summary, documents>>
vars == <<selectionVars, reportVars>>

\* Those of the flags that are known, in their order.
Reporters == {k \in DOMAIN command.reporters : command.reporters[k] \in {"json", "junit", "html"}}

Names == NamesOf(sorted)
Outcome(n) == Last(results)[n]
Count(status) == Cardinality({n \in Names : Outcome(n) = status})

RInit ==
  /\ Init
  /\ at = [n \in {} |-> "waiting"]
  /\ pending = [n \in {} |-> {}]
  /\ seen = [n \in {} |-> << >>]
  /\ failedTests = << >>
  /\ entries = [k \in Reporters |-> << >>]
  /\ results = << >>
  /\ summary = << >>
  /\ documents = << >>

\* The steps of Selection, before and between the runs.
Choose == (Prepare \/ LoadAndFilter \/ Sort) /\ UNCHANGED reportVars

\* Nothing is run, nor reported, when no test matched; the library runs all the same.
Starts == input.followed /\ (command.who = "library" \/ sorted # << >>)

StartSuite ==
  /\ phase = "sorted" /\ Starts
  /\ phase' = "running"
  /\ at' = [n \in Names |-> "waiting"]
  /\ pending' = [n \in Names |-> Reporters]
  /\ seen' = [n \in Names |-> << >>]
  /\ results' = Append(results, [n \in Names |-> "none"])
  /\ UNCHANGED <<input, cfg, files, tests, walkVars, failedTests, entries, summary, documents>>

Active == {n \in Names : at[n] \notin {"waiting", "done"}}

\* A test that is skipped, by its file or by the orchestrator, reaches no reporter.
Skip(n) ==
  /\ phase = "running" /\ at[n] = "waiting"
  /\ at' = [at EXCEPT ![n] = "done"]
  /\ results' = [results EXCEPT ![Len(results)][n] = "skipped"]
  /\ UNCHANGED <<selectionVars, pending, seen, failedTests, entries, summary, documents>>

\* A test passes only with the adapters of all its steps.
HasAdapters(n) ==
  \A i \in {j \in DOMAIN sorted : sorted[j].name = n} : \A p \in Phases :
    \A step \in ToSet(sorted[i].steps[p]) : step.skip \/ step.adapter \in Registered(cfg)

\* The body of a test ends within the limit of the suite.
Run(n, status) ==
  /\ phase = "running" /\ at[n] = "waiting"
  /\ \A i \in DOMAIN sorted : sorted[i].name = n => ~sorted[i].skip
  /\ status = "passed" => HasAdapters(n)
  /\ Cardinality(Active) < Max({1, cfg.defaults.parallel})
  /\ at' = [at EXCEPT ![n] = IF status = "failed" THEN "reading" ELSE "reporting"]
  /\ results' = [results EXCEPT ![Len(results)][n] = status]
  /\ UNCHANGED <<selectionVars, pending, seen, failedTests, entries, summary, documents>>

\* The console: c.failedTests = append(c.failedTests, info).
Read(n) ==
  /\ phase = "running" /\ at[n] = "reading"
  /\ seen' = [seen EXCEPT ![n] = failedTests]
  /\ at' = [at EXCEPT ![n] = "appending"]
  /\ UNCHANGED <<selectionVars, pending, failedTests, entries, results, summary, documents>>

AppendFailure(n) ==
  /\ phase = "running" /\ at[n] = "appending"
  /\ failedTests' = Append(seen[n], n)
  /\ at' = [at EXCEPT ![n] = "reporting"]
  /\ UNCHANGED <<selectionVars, pending, seen, entries, results, summary, documents>>

\* Faulty variant of Report: a failed test is reported to the console only.
ReportPassed(n) ==
  /\ phase = "running" /\ at[n] = "reporting"
  /\ \/ /\ pending[n] = {} \/ Outcome(n) = "failed"
        /\ at' = [at EXCEPT ![n] = "done"]
        /\ UNCHANGED <<pending, entries>>
     \/ \E k \in pending[n] :
          /\ Outcome(n) # "failed"
          /\ \A j \in pending[n] : k <= j
          /\ entries' = [entries EXCEPT ![k] = Append(@, <<n, Outcome(n)>>)]
          /\ pending' = [pending EXCEPT ![n] = @ \ {k}]
          /\ UNCHANGED at
  /\ UNCHANGED <<selectionVars, seen, failedTests, results, summary, documents>>

\* OnTestComplete of the next reporter of a file, or the end of the test.
Report(n) ==
  /\ phase = "running" /\ at[n] = "reporting"
  /\ \/ /\ pending[n] = {}
        /\ at' = [at EXCEPT ![n] = "done"]
        /\ UNCHANGED <<pending, entries>>
     \/ \E k \in pending[n] :
          /\ \A j \in pending[n] : k <= j
          /\ entries' = [entries EXCEPT ![k] = Append(@, <<n, Outcome(n)>>)]
          /\ pending' = [pending EXCEPT ![n] = @ \ {k}]
          /\ UNCHANGED at
  /\ UNCHANGED <<selectionVars, seen, failedTests, results, summary, documents>>

\* OnSuiteComplete: the console prints its summary.
EndSuite ==
  /\ phase = "running"
  /\ \A n \in Names : at[n] = "done"
  /\ summary' = failedTests
  /\ phase' = "complete"
  /\ UNCHANGED <<input, cfg, files, tests, walkVars, at, pending, seen, failedTests, entries,
                 results, documents>>

\* The JSON document takes its numbers from the suite.
JSONDocument(list) ==
  [total |-> Cardinality(Names), passed |-> Count("passed"), failed |-> Count("failed"),
   skipped |-> Count("skipped"), tests |-> list]

\* The others count their entries.
CountedDocument(list) ==
  LET Of(status) == Cardinality({i \in DOMAIN list : list[i][2] = status})
  IN [total |-> Len(list), passed |-> Of("passed"), failed |-> Of("failed"), skipped |-> Of("skipped"),
      tests |-> list]

Document(kind, list) == IF kind = "json" THEN JSONDocument(list) ELSE CountedDocument(list)

\* Multi flushes each reporter, whatever became of the one before.
Flush ==
  /\ phase = "complete"
  /\ documents' = [k \in Reporters |-> Document(command.reporters[k], entries[k])]
  /\ phase' = "flushed"
  /\ UNCHANGED <<input, cfg, files, tests, walkVars, at, pending, seen, failedTests, entries,
                 results, summary>>

\* Another run after an edit; the files were found once and are read again.
Rerun ==
  /\ phase = "flushed" /\ command.watch
  /\ Len(results) < MaxRuns
  /\ phase' = "found"
  /\ UNCHANGED <<input, cfg, files, tests, walkVars, reportVars>>

\* The command has ended; what is sorted but not run is a run that is not followed.
Ended ==
  /\ \/ phase \in {"failed", "listed"}
     \/ phase = "sorted" /\ ~Starts
     \/ phase = "flushed" /\ ~(command.watch /\ Len(results) < MaxRuns)
  /\ UNCHANGED vars

Next ==
  \/ Choose
  \/ StartSuite
  \/ \E n \in Names : \/ Skip(n)
                     \/ \E status \in {"passed", "failed"} : Run(n, status)
                     \/ Read(n)
                     \/ AppendFailure(n)
                     \/ Report(n)
  \/ EndSuite
  \/ Flush
  \/ Rerun
  \/ Ended

Spec == RInit /\ [][Next]_vars

-----------------------------------------------------------------------------
(* Properties *)

\* The document of each reporter has every test that was run, in this run or in
\* one before it, once for each of these with its status, and no other; and in a
\* first run its numbers are those of the suite, of which a skipped test is no
\* part but for JSON (json.go, junit.go, html.go; runner.go:76).
EachResultReported ==
  phase = "flushed" =>
    \A k \in DOMAIN documents :
      LET document == documents[k]
          list == document.tests
          Times(n, status) == Cardinality({r \in DOMAIN results :
                                n \in DOMAIN results[r] /\ results[r][n] = status})
      IN /\ \A n \in Names : \A status \in {"passed", "failed"} :
              Cardinality({i \in DOMAIN list : list[i] = <<n, status>>}) = Times(n, status)
         /\ \A i \in DOMAIN list : list[i][2] # "skipped"
         /\ Len(results) = 1 =>
              /\ document.passed = Count("passed") /\ document.failed = Count("failed")
              /\ document.total - document.skipped = Len(list)

\* "OnSuiteComplete prints the summary with failed test details" (console.go:314),
\* and a reporter "must be safe for concurrent use" (reporter.go:13): each test
\* that has failed in the run is listed.
EveryFailureListed ==
  phase = "complete" => \A n \in Names : Outcome(n) = "failed" => n \in ToSet(summary)
=============================================================================
