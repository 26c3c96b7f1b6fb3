# A TLA+ development of Tryve

Tryve (`go-tryve`) runs end-to-end tests that are written in YAML: each test is
a list of steps, each step an action of an adapter (HTTP, shell, a database, a
message broker), with values captured from one step and used by later ones.
This directory holds TLA+ modules that model the parts of Tryve where
concurrency, ordering, failure and retries decide what a run reports, the TLC
configurations that check them on small instances, and proofs, checked by
TLAPS, of the properties that matter most for instances of any size.

Paths below are relative to `src/`. `PROJECT.json` maps every definition that
models code to the lines it models.

- [The system](#the-system)
- [The modules](#the-modules)
- [What TLC checks](#what-tlc-checks)
- [Bounds](#bounds)
- [Fairness](#fairness)
- [What is proved](#what-is-proved)
- [Where code and documentation disagree](#where-code-and-documentation-disagree)
- [What is not modelled](#what-is-not-modelled)

## The system

How the parts interact in `tryve run`:

```
 command line ──loads──▶ config, loader, filters, sort
      │                        │ definitions, levels
      ├─ pre-warms ──▶ adapter registry ◀── Get ── step executor
      │                     │ Connect / Close        ▲ attempts
      ├─ Run ──▶ orchestrator ── a goroutine a test ─▶ test runner
      │              │ hooks, reporters                │ interpolation, assertions
      ├─ writes .tryve-failed
      └─ watcher ── timer goroutine ──▶ Run again (same registry, same reporters)
```

| Component | Code | State it keeps | Operations | What is hard | What makes it correct |
|---|---|---|---|---|---|
| Suite orchestration | `internal/executor/orchestrator.go` | results, status map, a done channel per test, bail flag, the errgroup's slots | `Run`, `FilterTests`, `topoSortTests` | goroutines that wait for each other while they hold slots; a flag and a map read in separate critical sections; five exits that must close the channel; cancellation | each test recorded once; a body runs only when its dependencies are settled; slots never run out; bail is bounded; totals add up; the run returns |
| Test runner | `internal/executor/runner.go` | step outcomes, first error, interpolation context | `RunTest` | phases that fail into each other, teardown under the same deadline | teardown gets its turn; the first error is the one reported; the verdict is that of the steps |
| Step executor | `internal/executor/step.go` | captured values, the attempt | `ExecuteStep`, `ExecuteStepWithRetry` | three deadlines, selects with both cases ready, captures made before the attempt is judged, tolerated errors | retries used up exactly; captures come from the attempt that passed |
| Hooks | `internal/executor/hooks.go` | none | `RunHook` | a child process; its error is ignored by the callers | order around a body |
| Adapter registry | `internal/adapter/registry.go` | connected set under a mutex held while an adapter connects | `Get`, `CloseAll`, `Register` | concurrent first use, failed connections, close while in use | one session per connected adapter; the mutex is always given back |
| Watcher | `internal/watcher/watcher.go` | fsnotify watches, one debounce timer, `stopped` | `Start`, `Stop`, callback | a timer that has fired cannot be stopped; new directories; a run longer than the debounce | a burst ends in one call; no event it is told of is forgotten |
| Command line: run | `internal/cli/run.go` | options, `.tryve-failed` | load and filter, pre-warm, run, save, watch, exit | overlapping runs, crash between truncation and write, exit code against the saved list | exit code 1 leaves the failed names; Ctrl+C ends the process |
| Other commands | `internal/cli/*.go` | none | list, validate, health, doc, init, install, migrate, test | `migrate` writes several files, one after the other | see Migration |
| Library API | `pkg/runner/runner.go` | none | `RunTests`, `ValidateTests`, `ListTests` | defaults of zero values, another order of the stages | the tests a run has are those asked for |
| Reporters | `internal/reporter/*.go` | accumulated results | callbacks, `Flush` | called by every goroutine, one of them without a mutex; never reset in watch mode | each result is in each document once; the numbers agree |
| Loader | `internal/loader/*.go` | none | discover, parse twice, validate | zero values that mean "not given" | a file is loaded or named as invalid; a zero in a file is kept |
| Configuration | `internal/config/*.go` | none | load, `.env`, substitution, defaults, overrides | what comes before what, unvalidated integers | precedence |
| Compatibility | `internal/tryve/compat.go` | none | suite and file levels per area | precedence of overrides | a file's level wins, area by area |
| Interpolation | `internal/interpolate/*.go` | the order of the variables, those resolved so far | resolve strings, values, variables | variables that refer to each other, depth limit, re-scanning | dependency order, no re-scan in modern mode |
| Assertions | `internal/assertion/*.go` | none | matchers, JSON path | two levels, many shapes of a definition, Go's types of a slice | each check of a definition that is resolved has an outcome |
| Messaging adapters | `internal/adapter/kafka.go`, `eventhub.go` | lists of open readers and writers, a producer | produce, consume, waitFor, clear | offsets, groups, rebalances, polls, deadlines, Close in the middle of a call | no message is committed unseen; the answer is the first match; clients are closed; a call ends |
| Other adapters | `internal/adapter/{http,shell,redis,mongodb,postgresql}.go` | a client or pool | connect, execute, close | results that differ between levels | a difference between levels is the one the rules report |
| Migration | `internal/migrate/*.go`, `internal/cli/migrate.go` | the files of the suite | analyse, pin, apply, unpin | rules that restate by hand what releases did; a cut between two writes | a pinned suite behaves as before |
| Demo server | `cmd/demo-server` | – | – | not part of the runner | – |

## The modules

| Module | Models | Composed with |
|---|---|---|
| `RunOrder` | what the sort hands over to a run: an order of names, sorted or not | used by `Orchestrator`; `SelectionProofs` shows that `Selection` ends with it |
| `SuiteVerdicts` | which verdicts a suite run may return | used by `SuiteContract` and `RunCommand` |
| `SuiteContract` | what a suite run promises, without goroutines | implemented by `Orchestrator` |
| `Orchestrator` | `Orchestrator.Run` | `MCOrchestrator` feeds it the order `TopoSort` computes |
| `SortWalk` | `topoSortTests`, call by call | part of `Selection` |
| `TopoSort` | `topoSortTests` as one recursive operator | used by `MCOrchestrator` for the order of its suites |
| `Loader` | discovery, the two passes of the parser, validation | used by `Selection` |
| `Configuration` | `config.Load`, the overrides of both callers | `Levels`; used by `Selection` |
| `Selection` | from a command to the run order, for `run`, `list` and the library | `SortWalk`, `Loader`, `Configuration` |
| `Reporting` | the reporters under the goroutines of a run, over several runs | continues `Selection` |
| `TestContract` | what running one test promises, without attempts and deadlines | implemented by `TestRun` |
| `TestRun` | `RunTest`, `ExecuteStepWithRetry`, `ExecuteStep` | |
| `Registry` | `Get`, `CloseAll` | instance of `RunCommand` |
| `Watcher` | `Start`, `handleEvent`, `scheduleCallback`, `Stop` | instance of `RunCommand` |
| `RunCommand` | the process of `tryve run`, one invocation after another, with its user | `Registry`, `Watcher` |
| `Variables` | `ResolveVariables`, `findVarDeps`, `topoSort`, and steps that read variables | |
| `Data` | decoded YAML and JSON values | used by the modules below and by `Loader` |
| `DeepData` | the text of such a value, its way through JSON, dotted paths: what recurses | used by `Payloads`, `Results`; gives `Assertions` its texts |
| `Payloads` | what the messaging adapters make of parameters and messages | used by `MCMessaging` |
| `AdapterCalls` | what the calls of both messaging adapters have in common | extended by the next two |
| `KafkaAdapter` | the Kafka adapter and its broker | in `MCMessaging`, with a group and without |
| `EventHubAdapter` | the Event Hubs adapter and its service | in `MCMessaging` |
| `Assertions` | `RunAssertions`, matchers and paths, at both levels | used by `AssertionRules`, `StepLevels` |
| `AssertionRules` | the rules of `tryve migrate` for assertions | extends `Assertions`; used by `MigrationRules`; `MigrationProofs` is about them |
| `Results` | what shell, http, postgresql and mongodb make of parameters and answers | used by `StepLevels` |
| `Levels` | versions, areas and their overrides | used by `Configuration`, `Migration` |
| `StepLevels` | what a step comes to at a level, its expressions resolved or failing | `Assertions`, `Results`, `Levels` |
| `MigrationRules` | the other rules of `tryve migrate` | extends `AssertionRules`; used by `StepLevels` and `MigrationCases` |
| `Migration` | apply, pin and unpin, write by write, whatever the rules find | `Levels` |
| `MigrationCases` | files that are samples of steps, with what the rules find and the steps do | `Migration`, `StepLevels`, `MigrationRules` |
| `MC*` | the small instances TLC checks | |
| `*Proofs` | theorems and their proofs: `OrchestratorProofs` (with the contract), `TestRunProofs`, `SelectionProofs` (with the reporters), `VariablesProofs`, `SharedProofs` (registry and watcher), `RunCommandProofs`, `MessagingProofs`, `MigrationProofs` | |

How state and actions correspond to the code:

- **`Orchestrator`.** `pc[t]` is the place of the goroutine of test `t`; `doneCh`
  the closed channels; `completedStatus` and `results` the map and the slice
  under `mu`; `Launch` is the turn of the loop that waits for a slot of the
  errgroup. One action is one critical section or one blocking operation, so
  that TLC interleaves exactly what the scheduler can. `RecordSkip` and
  `Record` are the two critical sections that append, write and (`Publish`)
  close. The body of a test is one action with any outcome, from `BeforeEach`
  to `AfterEach`: what happens within is `TestRun`'s business.
- **`TestRun`.** One goroutine; `pc` follows the numbered comments of
  `ExecuteStep`. A captured value is known by the step and attempt it came
  from, an adapter's answer is data, data with a nonzero exit code, or an
  error, and assertions hold or fail. The context ends in any state
  (`EndContext`), and where a `select` has two ready cases both are possible
  (`DelayOver`/`DelayCut`, `Retry`/`RetryCut`). A negative number of retries
  takes the process to `pc = "crashed"`, as the nil outcome does.
- **`Registry`.** `holder` is the mutex, `connected` the map, `sessions` what
  the adapters really hold open. The mutex stays with a caller while its
  adapter connects; a caller uses an adapter outside it (`at[p] = "using"`).
- **`Watcher`.** `queue` holds the events of fsnotify, `callback[i]` the state of
  the i-th timer and its goroutine: `armed`, `fired` (it cannot be stopped any
  more), `checked` (it has read `stopped`), `calling`. `Stop` and `Start`'s
  return are one action because nothing can come between them that the others
  see.
- **`RunCommand`.** `main` is the main goroutine; run 0 is its run, run i the one
  the i-th callback makes. `paths` are the files that the process found, once, before
  its first run; `disk[f]` is the last edit of file f and `noticed[f]` the last one that
  fsnotify saw, which may be of a file that was not found. A run is reduced to what the
  registry, the watcher and the failed list see of it: what it loads (`OnDisk`: of the
  files in `paths` what is on the disk, of others nothing), a step that uses an
  adapter, and the verdicts of `PossibleVerdicts`. `Load` reads all files in one step,
  where the code reads one after another. Whether a file exists is not tracked: any
  file whose directory does may be found (`Invoke`), and an edit may be its creation or
  its end. The failed list has an identity besides its content, because a run that
  removes the file does not stop another from writing to the file it has open. `Kill`
  ends the process in any state.
- **`Variables`.** `degree`, `queue` and `order` are the maps and slices of Kahn's
  loop; `Arrangements` stands for the order Go happens to give a map. A template
  is known by the variables it refers to and by where the reference stands:
  plain, braced among the arguments of a built-in, or a bare argument that the
  built-in looks up itself. A value is the set of evaluations that its text
  embeds, so two values agree on what was generated when they share the
  evaluation; a variable whose text still holds expressions has none (`Raw`) and
  is expanded where it is read. `Unfinished` and `Overflows` say how an expansion
  that comes round to itself ends: at the depth limit, or, when it passes an
  argument that is looked up and so restarts the depth, not at all.
- **`Selection`, `Loader`, `Configuration`, `SortWalk`.** The state is what is left
  after each stage: the configuration with its overrides, the files, the
  definitions, the order. A document is the fields its YAML gives, so that a
  field that is absent and one that is zero differ, as they do in the raw pass of
  the parser and no longer in the Go structure. Tests are definitions, not names,
  because two files may share a name. Who runs decides the order of the stages:
  `run` filters and then validates, the library the other way round. The sort is the
  closure `visit` with its recursion on a stack: `frames` holds the calls that have
  not returned, each with its definition and the dependency it looks at next;
  `VisitTest` is the loop that calls it, `VisitDependency` a turn of the loop inside,
  `Return` the append. A list is a function from positions, so that filtering it is a
  restriction and its order stays.
- **`Reporting`.** Each goroutine hands its result to the console, which reads and
  appends in two steps (`Read`, `AppendFailure`), and then to the reporters of
  files, each append under a mutex (`Report`). What becomes of a test is chosen;
  `Orchestrator` and `TestRun` say when it is justified. `Rerun` is a run of watch
  mode, with the same reporters.
- **`KafkaAdapter`.** `at[p]` is the place of goroutine p in `Execute`; `tracked`
  the two lists under the adapter's mutex; `client[p]` the reader or writer of the
  call. `ReadMessage` is a fetch and, with a group, a commit: between the two the
  partition may go to another reader, the deadline may pass, or `Close` may close
  the client. `Judge` is what the loop of consume, waitFor or clear makes of a
  message.
- **`EventHubAdapter`.** A poll opens a receiver after the latest event
  (`StartPosition`) and ends with events, with nothing at a deadline, or with an
  error when the context was cancelled; `PollEnds` says what the loop makes of
  each. `from[p]` remembers where the latest receiver of a call started.
- **`StepLevels` and the modules it uses** are operators without state: parameters
  and an answer of the service go in, data, outcomes and captures come out. A level
  is the set of areas that have the current behaviour, so all sixteen can be
  compared. `Resolved` takes what the expressions in a value are worth from a table
  (`Exprs`); a string whose built-in fails, or in which a strict run finds an unknown
  name, has the value `Error`, and so has every map and list around it. `Behaviour`
  says what becomes of that: parameters fail the step, an assertion is nil and checks
  nothing. Values keep the distinctions that the Go code makes with its types:
  an `int` from YAML and a `float64` from JSON, a `[]any` and the slice of maps that
  the SQL driver layer builds, a column of a type of the driver's own.
- **`Migration`.** `own` and `config` are the declarations in the files; `command` is
  the apply that is under way, which pins a file (`Pin`) and then writes the
  configuration (`SetConfigCompat`), or ends anywhere (`Stop`). What the rules find
  in a file and what its steps do at a level are the constants `Findings` and `Does`
  of that protocol, which does not depend on how they come about; `MigrationCases`
  computes them, with the rules and with `StepLevels`, from samples of steps.
- **`Assertions`.** A definition and the data it is held to are values of `Data`;
  outcomes are a set of records. A definition is one whose expressions are resolved
  already. The text of a value (`Sprint`), which recurses, is a constant, so that the
  module can be proved about.

Definitions called "Faulty variant of ..." are not part of any specification. Each is
an action with the kind of mistake its property is there to catch, put in place
of the real one to see that the property notices.

## What TLC checks

| Run | Configuration | Question | States | Result |
|---|---|---|---|---|
| `orchestrator` | `MCOrchestrator.cfg` | Do the goroutines of a suite keep dependencies, records, slots, bail and totals in order, implement `SuiteContract`, and return? | 154 000 | holds |
| `selection` | `MCSelection.cfg` | From a command to its reports: are the tests those asked for, sorted, attempted as often as asked, and each reported once? | 413 000 | holds |
| `test_run` | `MCTestRun.cfg` | Are retries, captures, the first error and the phases right whatever fails and whenever the context ends, is `TestContract` implemented, and does the test return? | 146 000 | holds |
| `command` | `MCCommand.cfg` | Do runs that overlap, edits, new directories and Ctrl+C leave registry and watcher consistent, is every noticed edit of a file that was found run, does Ctrl+C end the process, are adapters closed last over several invocations, and does exit code 1 leave the list `--failed-only` needs? | 200 000 | holds |
| `variables` | `MCVariables.cfg` | Are variables resolved in an order that respects references, cycles refused and nothing else, and are generated values the same for everyone who reads them? | 34 000 | holds |
| `messaging` | `MCMessaging.cfg` | Do calls of either messaging adapter skip no message, answer with the right one, leave no client behind and return, whatever rebalances, deadlines and Close come in between? | 212 000 | holds |
| `migration` | `MCMigration.cfg` | Is every difference between levels reported, and does an apply, cut anywhere, keep what the suite does? | 240 000 | holds |
| `failed_only` | `MCFailedOnly.cfg` | Does `--failed-only` rerun what failed? | – | violated |
| `variable_cycles` | `MCVariableCycles.cfg` | Is every circular reference among variables detected? | – | violated |
| `new_files` | `MCNewFiles.cfg` | Does watch mode run a test file that changed, whatever the file? | – | violated |
| `hub_wait` | `MCHubWait.cfg` | Does a TimeoutError of `waitFor` mean that no event matched? | – | violated |
| `console_failures` | `MCConsoleFailures.cfg` | Does the summary of the console list every failure? | – | violated |

The properties, by what they would catch:

- *Dependencies*: `DependenciesSettled` (while a body is under way, its
  dependencies are recorded, known, and none has failed, although each was read
  in a critical section of its own).
- *Records*: `RecordsAgree` (slice, map and channels), `TotalsAgree` (the counters
  of the result).
- *Slots and termination*: `NoSlotDeadlock` (waiting with a slot in hand cannot
  exhaust the slots of a sorted suite), `SortedSuiteReturns`, `CancelReturns` (a
  cycle of dependencies ends only by cancellation).
- *Bail*: `BailBound` — fewer than `parallel` bodies are recorded after a failure.
- *Selection*: `SameNames` (no stage loses or invents a test), `DependenciesFirst`,
  `RetriesAsAsked` (a number of retries survives the parser, the configuration and
  two overrides, zero included).
- *Reports*: `EachResultReported` (each document has each result of each run once,
  and the numbers of a first run agree with it).
- *Attempts*: `RetriesUsedUp`, `CapturesFresh`, `FirstErrorKept`, `TestReturns`.
- *The process*: `OneSession`, `OneTimerArmed`, `QuietIsCurrent` (when the watcher
  is at rest, one run has loaded every file that was found as it was after the last
  edit the watcher was told of), `EditIsRun`, `InterruptReturns`,
  `UsedWhileOpen`, `FailureIsListed`.
- *Variables*: `DependenciesFirst` and `RefusedExactlyCycles` (of `Variables`),
  `BareReferencesAgree` (an id generated in one variable is the same in those that
  refer to it), `PlainVariablesFixed` (one evaluation of each template, read by
  every step, whatever order the sort finds).
- *Messaging*: `ClientsAccountedFor` (Close reaches every client in use, and a call
  that has returned leaves none), `NoneSkipped` (a group commits no message that
  nobody fetched), `AnswerIsFirstMatch`, `HubAnswerIsFirst` (a waitFor of Event Hubs
  answers with the first match of those its last receiver got), `EveryCallReturns` (of both
  adapters).
- *Levels*: `DifferenceReported` (a rule names every difference between levels, but for the
  list in `UnknownToRules`), `MigrationKeepsBehaviour` (a file behaves as before at
  every point of an apply, but for the files `IsCovered` leaves out).
- *Contracts*: `ImplementsContract`, of `Orchestrator` and of `TestRun`.

Deadlock is checked where the end of the system is part of the model: `Orchestrator`,
`TestRun`, `Variables` and `Selection` with `Reporting` stutter when they have ended, and
nowhere else. It is not checked for `RunCommand`, the adapters and `Migration`, which
stop with the last invocation, call or command of the bound.

## Bounds

- **Suites** (`MCOrchestrator`): three tests with every dependency graph on them,
  cycles and self-dependencies included; unknown names; a test marked `skip`;
  `parallel` of 0 (which the code makes 1) and 2; bail on and off. Two waiting
  goroutines and one they wait for are enough to fill both slots, to pass the
  bail check before a failure, and to have a dependency that ends in each way
  while another is waited for. The theorems need no bound.
- **Selection** (`MCSelection`): lists of up to three definitions with up to two
  dependencies, names repeated, unknown and cyclic: a walk that meets a marked
  name through two ways, and an index that holds the later of two definitions,
  both need three. Every kind of command over trees of four files, where what
  matters of a file is given once each: hidden, no test by its name, unreadable,
  not valid. The criteria are a set of names, tags, a priority and the names a
  pattern matches.
- **Reports**: which suites are run to their end is part of an input (`followed`),
  since what the reporters see of two tests on two slots they see of any. Two or
  three tests, up to two reports, two runs (`MaxRuns`): the second shows what is
  not reset.
- **Tests** (`MCTestRun`): a body step of each kind before a teardown step of each
  kind, in both compatibility modes, with one retry; two body steps and two
  teardown steps without; two steps that capture one name. Retries beyond the
  first repeat the same loop.
- **Variables**: three variables: every graph of plain references (512), with at most
  one object among them; and every graph of up to three plain references with one
  reference inside a built-in. A cycle, a chain behind a cycle and a node with two
  dependencies all fit. `Depth` is 3 where the code has 10: what matters is that
  it is at least the number of variables, so that only a cycle reaches it
  (`BlocksAssumption`). Two readings, to compare them. The run uses the symmetry
  of the names; it checks no liveness.
- **The command** (`MCRunCommand`): two tests, one depending on the other, and three
  invocations (`MaxInvocations`), so that a list can be written, used and lost. One
  invocation that watches (`WatchBounds`), with one test, one adapter, two files, of which
  one is in a directory that may be created later, and two edits (`MaxChanges`), hence up
  to three runs that overlap: two edits of one file make a burst, or a run that is under
  way when the next begins; one of each make a run that must load both. Its steps ask
  for a registered adapter, all files whose directory exists are found, another event is
  ahead of one edit at most, nothing is edited after the interrupt, and the list of
  failed names, of which no property of the watch mode speaks, cannot be written. The
  plain invocations are without these bounds, and `new_files` and `failed_only` too.
  The theorems need no bound.
- **Messaging** (`MCMessaging`): two goroutines with three calls of Kafka
  (`MaxCalls`), enough for a message that one group member fetches and the other
  commits past; two of Event Hubs, on two hubs of two partitions that may hold an event
  before, and a third (`HubCalls`) that publishes while another goroutine receives for a
  waitFor (`ThirdPublishes`), so that a poll can get two matches. Steps of every action, with a
  filter that matches one message, one that is empty, and parameters that are
  refused. The initial state chooses the service, and whether there is a group.
- **Migration** (`MCMigration`): two files; thirty-three kinds of content, at least one for
  each rule, each action of an adapter, each thing the rules do not know, and an expression
  that fails in parameters, in an assertion, and at one level only; all
  sixteen levels; two commands (`MaxCommands`), because the second finds what the
  first left. Text is data here: `Paths`, `TextTest`, `Exprs`, `Sole`, `Quoted`,
  `Aggregates` and the like are tables that say of the texts in these contents what the
  parser of paths, the regular expressions and the interpolation make of them.

## Fairness

- `Orchestrator`: weak fairness of `Run` and of every goroutine. A goroutine that is
  not blocked is scheduled, and a body returns: the code calls `RunTest` with a
  context that has a deadline. Cancellation need not come.
- `TestRun`: weak fairness of the goroutine as a whole. Adapters are assumed to
  return; the context need not end.
- `RunCommand`: weak fairness of the main goroutine, each run, each pre-warming
  goroutine, each caller inside the registry, and each timer. `WatchStop` has a
  fairness of its own: Go's `select` chooses at random among ready cases, so a
  context that has ended is seen although events keep coming. The user need
  not edit, interrupt or kill.
- `KafkaAdapter`, `EventHubAdapter`: weak fairness of each call and of its deadline:
  `resolveTimeout` and `waitForAction` always set one. A Kafka read also has strong
  fairness of failing: `ReadMessage` selects at random between a context that is
  over and the next message, so it does not choose the message for ever. Nobody
  need publish, rebalance or close.
- `Selection`, `Reporting` and `Migration` have safety properties only.

## What is proved

`tlapm` checks every proof below to its last leaf. Assumptions are those on the
constants, and they say only that the data has its type:
`SuiteAssumption` (suites are run requests, over a finite set of tests that are
handed over once each), `JobAssumption` (jobs are jobs, and the teardown
begins within their steps), `CommandAssumption` (with adapters that are not
numbers of runs), `BlocksAssumption` (blocks are blocks over a finite set of names,
not more than the depth limit), and `KafkaAssumption` (there is a step, and a
produce step writes a sequence of messages), `EventHubAssumption` (steps are about hubs and
partitions there are), `SelectionAssumption` (there are three callers,
targets and files are sequences, and the `depends` of a document is a list) and `MigrationAssumption` (files have an order,
a command names areas, and declarations have the two fields they have). One
theorem has a hypothesis of its own, `RulesSound`, for which see *Migration* below.

| Theorem | Module | Says |
|---|---|---|
| `TypeCorrect` | `OrchestratorProofs` | `[]TypeOK` |
| `SettledBeforeBody` | `OrchestratorProofs` | `[]DependenciesSettled` |
| `SlotsNeverExhausted` | `OrchestratorProofs` | `[]NoSlotDeadlock` |
| `RecordsNeverDisagree` | `OrchestratorProofs` | `[]RecordsAgree` |
| `TotalsCountEveryTest` | `OrchestratorProofs` | `[]TotalsAgree` |
| `BailIsBounded` | `OrchestratorProofs` | `[]BailBound` |
| `VerdictsHaveReasons` | `OrchestratorProofs` | a test is skipped only for a reason, and run only when its dependencies allow it |
| `VerdictsPossible` | `OrchestratorProofs` | what `Run` returns is in `PossibleVerdicts` |
| `OrchestratorImplementsContract` | `OrchestratorProofs` | `Spec => SuiteContract` |
| `RunMovesForward` | `OrchestratorProofs` | each step of a run goes forward, within bounds |
| `RunIsNeverStuck` | `OrchestratorProofs` | a run of a sorted suite, or one that is cancelled, can move until it returns |
| `SelectionSameNames` | `SelectionProofs` | `[]SameNames` |
| `SelectionDependenciesFirst` | `SelectionProofs` | `[]DependenciesFirst` |
| `SelectionRetriesAsAsked` | `SelectionProofs` | `[]RetriesAsAsked` |
| `SortMovesForward` | `SelectionProofs` | each step of the sort goes forward over finite sets, cycles or not |
| `SortIsNeverStuck` | `SelectionProofs` | the sort can move until all definitions are placed |
| `SuiteHandedOver` | `SelectionProofs` | the sort ends with what `Orchestrator` assumes |
| `ReportingComplete` | `SelectionProofs` | `[]EachResultReported` |
| `TypeCorrect` | `TestRunProofs` | `[]TypeOK` |
| `FirstError` | `TestRunProofs` | `[]FirstErrorKept` |
| `RetriesAreUsed` | `TestRunProofs` | `[]RetriesUsedUp` |
| `CapturesAreFresh` | `TestRunProofs` | `[]CapturesFresh` |
| `TestRunImplementsContract` | `TestRunProofs` | `Spec => TestContract` |
| `TestMovesForward` | `TestRunProofs` | each step of the runner goes forward, within bounds |
| `TestIsNeverStuck` | `TestRunProofs` | the runner can move until it returns, and only negative retries make it crash |
| `VariablesTypeCorrect` | `VariablesProofs` | `[]TypeOK` |
| `OrderRespectsDependencies` | `VariablesProofs` | `[]DependenciesFirst` |
| `CyclesAreRefused` | `VariablesProofs` | `[]RefusedExactlyCycles` |
| `ReferencesAgree` | `VariablesProofs` | `[]BareReferencesAgree` |
| `PlainVariablesAreFixed` | `VariablesProofs` | `[]PlainVariablesFixed` |
| `RegistrySafe` | `SharedProofs` | mutual exclusion and one session, for any callers |
| `WatcherSafe` | `SharedProofs` | one armed timer, for any events |
| `CommandOneSession` | `RunCommandProofs` | `[]OneSession` |
| `CommandOneTimerArmed` | `RunCommandProofs` | `[]OneTimerArmed` |
| `CommandTypeCorrect` | `RunCommandProofs` | `[]TypeOK` |
| `CommandFailureIsListed` | `RunCommandProofs` | `[]FailureIsListed` |
| `CommandUsedWhileOpen` | `RunCommandProofs` | `[]UsedWhileOpen` |
| `CommandQuietIsCurrent` | `RunCommandProofs` | `[]QuietIsCurrent`, of the files that were found |
| `CommandIsNeverStuck` | `RunCommandProofs` | until the process is gone something of it can move, unless it watches and was not interrupted |
| `CommandEditsGoOn` | `RunCommandProofs` | while no run knows all the files that were found, something leads on to a run, and the run that loads next knows them |
| `KafkaClientsAccountedFor` | `MessagingProofs` | `[]ClientsAccountedFor` |
| `KafkaNoneSkipped` | `MessagingProofs` | `[]NoneSkipped` |
| `KafkaAnswerIsFirstMatch` | `MessagingProofs` | `[]AnswerIsFirstMatch` |
| `HubAnswersFirst` | `MessagingProofs` | `[]HubAnswerIsFirst` |
| `KafkaCallsGoOn` | `MessagingProofs` | a call past its deadline has a way on; its steps lead to its return, but for rebalances |
| `HubCallsGoOn` | `MessagingProofs` | the same of Event Hubs; no poll of a waitFor begins after its deadline |
| `MigrationKeeps` | `MigrationProofs` | `RulesSound` implies `[]MigrationKeepsBehaviour` |
| `ChecksEvaluated` | `MigrationProofs` | each single check of a resolved definition leaves an outcome, for any result |
| `AssertionsAlike` | `MigrationProofs` | a definition without a finding has the same outcomes at both levels, for any result |

The arguments:

- **Orchestrator.** `DependenciesSettled` is not inductive: that the goroutine has
  checked a dependency says nothing unless the status it has read can no
  longer change. `IInv` adds that the channel, the map and the place of a test
  agree (`EndsAgree`), that every dependency a goroutine has left behind is
  recorded and has not failed (`LeftBehind`), and that the tests handed over are
  exactly those before `next` (`HandedOver`). From it slots cannot be exhausted:
  among the goroutines that hold slots take the one that comes first in the
  order; what it waits for comes earlier still, so it has been handed over,
  holds no slot, and has therefore returned. Further invariants carry the
  results: `SlotsHeld` (the goroutines between launch and return are at most as
  many as the slots), `LoggedOnce`, `Counted` (each counter is the number of
  tests with that status), and `BailInv` (the bodies recorded after a failure and the goroutines
  still past the check together held a slot when it was recorded). `ReasonInv`
  says why a test is skipped: a goroutine on its way to `skipResult` has an excuse (a
  dependency that is unknown or failed, a failure recorded under bail, the
  cancellation), and one that has run its test left every dependency behind
  (`Admitted`). Excuses and admissions last, because a recorded status, the bail
  flag and a cancellation are never taken back (`ReasonsLast`), so when all are
  recorded the verdicts justify one another (`StatusesPossible`). The refinement
  maps `running` to the goroutines in the body, `verdict` to the map and
  `interrupted` to the end of the context. `PlaceOf` numbers the places of a goroutine, with
  two for each dependency, and `PlaceOfRun` those of `Run`: no step lowers one and each
  but the cancellation raises one (`RunMovesForward`), so a run has no more steps than
  there are places. That it can take one until it has returned (`RunIsNeverStuck`) is
  `NoSlotDeadlock` when somebody holds a slot, and the guards of the loop when nobody does.
- **Selection.** `WalkInv` is the invariant of the walk. A name is marked exactly when
  it is placed or on the stack (`Marked`), in one place only (`Distinct`), and a frame
  waits for the one above it (`Stacked`); so at the end, when the stack is empty, the
  names that are placed are those that were given, each once, cycles or not. That
  every dependency of a placed definition is placed before it (`Placed`) holds only
  of acyclic suites: a dependency that is marked and not placed when its dependent
  returns is further down the stack, and from there to the top each name depends
  on the next, which closes a cycle. `SelectionInv` adds what each stage leaves:
  the definitions at hand are those of files found, under the filters and the
  validation of the caller in either order, and the configuration is the loaded
  one with the overrides. The two passes of the parser and the defaults are unfolded
  in `RetriesOfFile` and `RetriesOfConfig`. For progress, every step takes a definition
  off the loop, marks a name, moves a frame to its next dependency, or ends a frame
  (`SortMovesForward`); definitions, names and dependencies are finite in number because
  the files are (`FoundBounded`), so cycles end too. `SuiteHandedOver` puts
  `Distinct`, `DependenciesFirst` and the types of the definitions into the terms of
  `RunOrder`.
- **Reporters.** `ReportInv` counts: for each reporter of a file, test and status, the
  entries are as many as the runs with that result, less one while the goroutine of
  the test has not called that reporter yet. When all goroutines are done nothing
  is pending, and the counts agree; over several runs they add up because nothing is
  reset. That the numbers of a first run agree needs, beyond that, that each entry
  is of a test of the run: the positions of the entries with a status are then as
  many as its tests (`SameSize`).
- **TestRun.** The invariant has four parts. `Control` ties the place to the attempt
  (in a backoff there is an attempt left, a failed outcome is recorded after
  the last one unless the context has ended). `Logged` carries the two
  properties of the log; it needs `log[i].step < at`. `Captures` says that from
  the judging of an attempt until it is recorded the captured values are those
  of this attempt — the link that `CapturesFresh`, which speaks of recorded steps
  only, lacks. `Turns` says that every step before `at` had its turn or was
  passed over for a failure before the teardown; with it the steps that
  `TestContract` still owes are exactly `at .. Len(steps)` (`OwedFromHere`), and
  each recording is a step of the contract. `TestMovesForward` counts step, attempt and
  place in the attempt lexicographically, against `JobFacts` for the bounds of the
  first two.
- **Variables.** `SortInv` is the invariant of Kahn's loop: a degree counts the
  dependencies not yet in order, the nodes of degree 0 are those in order and in
  the queue, each once, and no set of variables each of which depends on one of
  the set (`Circular`) meets the order (`OffCycles`). When the queue is empty, what
  is left is such a set, or nothing. `ResolveInv` adds that only variables the
  loop has passed have a value, and that the plain ones among them have
  `PlainValue`, which the templates alone determine. A plain variable refers only
  to variables that have theirs (`DependenciesFirst`), so its template is expanded
  along no path but its own.
- **Registry, Watcher and their composition.** `RInv` and `WInv` are inductive for any
  goroutines and any events, and are stated of the components' own next-state
  relations. `RunCommandProofs` shows that each action of the process is, seen
  from the registry and from the watcher, one of theirs, a restart, or a
  stutter; the invariants are then taken from the component proofs by INSTANCE.
- **The run command itself.** Without `--watch` the watcher has never been started, so
  no run but the first exists (`Alone`). From it `ListWritten` follows the list
  through the first run: while it is being written it is the file the run has
  open, afterwards its names are those of the verdict; nobody else touches it
  before the exit. `ClosedAlone` says where each goroutine is when `CloseAll` is
  called: the pre-warming ones have ended (`warm = {}`), the first run is saved, and
  the closing goroutine is the main one. In watch mode `Attended` says that either
  one run has loaded every file that was found as the watcher was told of it, or a run is
  due: a change is queued, a timer is armed, fired or checked, or a run is about to load.
  Every step hands the duty on. It needs that what was noticed is on the disk, so that the
  run that loads next knows it (`LoadIsCurrent`), and that a process which begins finds
  nothing noticed (`Fresh`). That is also the heart of `CommandEditsGoOn`, the safety under
  `EditIsRun`; the rest of it is that timers and queued changes together are no more than
  the edits (`TimersBounded`), so the bound of the model on timers never keeps the head of
  the queue waiting.
  `CommandIsNeverStuck`, the safety under `InterruptReturns`, needs where the main
  goroutine is while its own run is at a step and while it closes (`MainPlaced`), and that
  who has the mutex of the registry has an answer for every name. A run of the suite is
  one step of this model; that it returns is `RunIsNeverStuck` and `RunMovesForward`.
- **Kafka.** `NoneSkipped` needs that nothing unseen lies behind a reader
  (`BehindReaders`) and that a commit follows a fetch (`Committing`): a reader starts
  at the committed offset, and a late commit names an offset its own reader has
  reached. `ClientsAccountedFor` needs `ClosedReleased`, because a call that is about
  to return must have lost the partition. `AnswerIsFirstMatch` needs `StillLooking`
  (a call that still reads has found no match) and `WithinTopic`, by which a message
  that was read stays what it is when others are written.
- **Event Hubs.** `HubInv` says of each call that its receiver starts where `from`
  says and within the partition, that it still has its partition to poll while it
  waits, and that its answer, once there is one, is the first match after that place.
  Partitions only grow (`EventsGrow`), so another's publish changes neither what was
  received nor where a receiver started.
- **Calls that end.** `KafkaCallsGoOn` and `HubCallsGoOn` are the safety under
  `EveryCallReturns`. Of Kafka, each step of a call reads another message, of which there
  are no more than the topic has (`ReadersBounded`), or takes the call to a later place;
  only a rebalance sends a reader back, which is why the fairness of a read that fails
  is a strong one. Of Event Hubs, each step is done with a partition or goes on with it;
  only a waitFor polls again, and not after its deadline.
- **Migration.** `MigrationInv` says of the files that the apply found affected that each
  is pinned or still to do (`Found`), that no other file was written (`OnlyPinned`),
  that the configuration is raised only when none is left (`PinsFirst`), and that a
  pin says the level the suite had (`StillPins`). A covered file either is pinned,
  and then runs at the same level as before (`PinnedLevel`), or had no finding for an
  area that changes, and then does the same at both levels: the four areas are
  adopted one after another, each without effect (`AlikeWithoutFindings`). This last
  step is where the rules come in: `RulesSound` says that a file which does something
  else once an area is adopted has a finding of that area. It is a fact about data and the
  rules, not about the protocol, and the rules do miss some steps, which `Known`
  excludes. `DifferenceReported` is that fact, checked by TLC on samples of every kind
  of step; the theorem says that nothing else is needed, for any number of
  files, commands and cuts.
- **Assertions.** A single check is a definition with one key left (of a map), or one
  operator of one item. `ChecksEvaluated` follows the shapes: what selects the value
  (`path`, `row`, `column`, the root of `json`) is kept, so the value is the same
  (`ItemAlone`), and each shape makes its outcomes key by key (`OperatorAlone`,
  `HTTPKeyAlone`, `FieldAlone`, `KeyAlone`). The documented shape is needed, and no more
  of it than `Documented` says: `headers:` with a list, for one, is ignored by the
  code. And the definition must be there: one whose expressions fail is nil (see below), and
  nothing of it is checked. `AssertionsAlike` is what `DifferenceReported` says of the area of assertions, for
  every step and result and not only the samples: without a finding each key is one the
  older release knew, and its operators are operators still (`LegacyAreOperators`). The
  root of a path in `json` does move when the body is an array, but a name that is no
  field of a result leads nowhere from either root, whatever follows it
  (`NowhereInBoth`). `Judged` leaves out the two shapes that the rules do not see. The
  theorem is of one definition: expressions in it belong to the area of
  interpolation, whose rules are model-checked with the others.

Only model-checked:

- the liveness properties (`SortedSuiteReturns`, `CancelReturns`, `TestReturns`,
  `InterruptReturns`, `EditIsRun`, `EveryCallReturns`): temporal reasoning under
  fairness is beyond the prover used here. Under each lies a theorem that says that
  there is always a step towards its end (`RunIsNeverStuck`, `TestIsNeverStuck`,
  `CommandIsNeverStuck`, `CommandEditsGoOn`, `KafkaCallsGoOn`, `HubCallsGoOn`), so that what
  is left to TLC is that fair steps are taken;
- `DifferenceReported` as a whole, and with it `RulesSound`: interpolation and the adapters'
  answers are recursive operators on data. Its part about assertions is `AssertionsAlike`.

`Selection` and `Orchestrator` are checked apart. `SuiteHandedOver` is the joint: the order
and the lists of dependencies that `Selection` ends with satisfy `SuiteAssumption`, and
of an acyclic selection the order `IsTopological`, which is the hypothesis of
`NoSlotDeadlock` and of `SortedSuiteReturns`. `MCOrchestrator` takes its orders from
`TopoSort`, because TLC computes them there as part of the initial states.

## Where code and documentation disagree

Each of these is a run that TLC ends with a counterexample.

- `failed_only`: `docs/sections/cli.md:71` says "Rerun only previously failed tests"; a
  failed test whose dependency passed is skipped, the list is removed, and the
  failure is forgotten with exit code 0.
- `variable_cycles`: `docs/sections/yaml-test.md:171` says "The runner detects circular
  references and throws an error"; a variable such as
  `token: "{{$default(token, x)}}"` is no cycle to `findVarDeps`
  (`interpolate.go:359`), and since `resolveArg` starts from depth 0
  (`builtins_value.go:30`) nothing ends its expansion.
- `new_files`: `docs/sections/cli.md:64` says of `--watch` "Re-run tests on file changes",
  and the watcher observes new directories for it (`watcher.go:124`); the files are found
  once (`run.go:137`), so a test file created later triggers runs that do not have it.
- `hub_wait`: `docs/sections/adapters/eventhub.md:64` says of `waitFor` "Fails with
  `TimeoutError` if no match is found within the timeout", and the example at
  `skills/e2e-runner/SKILL.md:701` publishes and then waits; a receiver begins after the
  latest event at each poll (`eventhub.go:335`), so an event from before the call or
  between two polls is not seen.
- `console_failures`: `reporter.go:12` asks implementations to be safe for concurrent
  use; the console appends to its list without a mutex (`console.go:308`), and a
  summary may miss a failure.

Others, met while modelling, that no run is given to. Of a run:

- `skills/e2e-runner/SKILL.md:152` says of `depends` "Wait for named tests to pass
  first"; a dependency that was skipped does not stop the dependent test
  (`orchestrator.go:133`).
- `docs/sections/yaml-test.md:295` says of `continueOnError` "Allow step to fail without
  failing the test"; a delay that is cut and errors before the adapter is called
  fail it all the same (`step.go:87`).
- `skills/e2e-runner/SKILL.md:160` says of teardown "always runs, even on failure"; it runs
  under the deadline of the test (`runner.go:66`, `runner.go:181`).
- `docs/sections/cli.md:64` says of `--watch` "Re-run tests on file changes"; the watcher is
  made after the first run (`run.go:314`), so an edit during that run goes unnoticed, and
  it watches the test directory although the targets of the command line may lie
  elsewhere.
- `docs/sections/cli.md:63` says of `--bail` "Stop on first failure"; a goroutine that
  has passed the check at `orchestrator.go:92` still begins its test. `BailBound`
  says how many may.
- `docs/sections/yaml-test.md:145` says that functions in the `variables` block are
  called "exactly once". That is proved of plain variables. A variable that is an
  object is kept as a template and evaluated by each step that reads it
  (`interpolate.go:331`), and a reference inside a built-in may be expanded before
  the variable it names has its value.
- `docs/sections/config.md:308` says that under `tryve/v2` "A lone `{{expr}}` keeps its
  resolved type"; variables are resolved in a context without compatibility
  levels (`interpolate.go:321`), hence always to text.

Of reports and the library:

- A skipped test never reaches a reporter, although the comment of `runner.go:53`
  speaks of one: the JSON summary counts it and its list does not have it, and the
  skipped case of JUnit is unreachable. The console's list of failures is never
  reset in watch mode.
- The `reporters` of the configuration (`docs/sections/config.md:385`) are not used. All
  reporters of files write to the one path of `-o`, and none without it.
- `Options.Retries` of the library overrides the configuration with its zero value
  (`pkg/runner/runner.go:39`), its directory is always "tests", and it validates
  before it filters. `defaults.timeout` is applied to no test. The validator accepts
  -1 retries, which its comment does not.

Of assertions, levels and migration:

- `docs/product-overview.md:230` promises of assertions that "Unknown operators and
  unresolved expressions fail loudly", and `skills/e2e-runner/SKILL.md:219` that with
  `--strict` unresolved expressions "fail the step"; `step.go:198` ignores the error of
  resolving an assertion. One built-in that fails in it, or one unknown name in a strict
  run, makes the definition nil, and the step passes with none of its checks
  evaluated. A shell step whose definition names the exit code then passes on any exit
  code, because `hasExitCodeAssertion` looks at the definition as it was written. The
  samples `unchecked` and `unread` of `MCMigration` do this.
- `skills/e2e-runner/SKILL.md:353` and `docs/sections/assertions.md:425` document assertions on
  a row and a column; `resolveCell` (`assertion.go:423`) looks for a `[]any`, and the query
  action returns a `[]map[string]any` (`postgresql.go:191`), so no cell is ever found and the
  item fails whatever the rows hold. It does so at every level but those where the item
  is dropped, so no property of the migration is about it.
- The comment at `migrate.go:147` says "Limiting to areas means every other area stays
  where it is."; `setConfigCompat` (`migrate.go:391`) replaces the whole block, so areas that
  an earlier apply had moved go back. `MigrationKeepsBehaviour` is stated without such
  configurations.
- The rules miss what `UnknownToRules` lists: an expression in a filter of MongoDB,
  captures of an HTTP response, `count` of a plain one-row, one-number
  SELECT (`docs/sections/adapters/postgresql.md:74` says the number of rows,
  `scalarCount` gives the number), columns of
  types of the driver's own, timeouts that only the adapter applies, `found`, and a
  definition with both `path` and a key of HTTP, which fails at v2 on that key
  (`assertion.go:190`). Nor do they see a path in `json:` that begins with a wildcard or a
  descent (`$.*`, `$..x`; `rules.go:124`), which no sample uses.
- A file whose `apiVersion:` has no value is skipped by a pin and runs at the level of
  the suite; an unpin takes the line `compatibility:` and leaves what is below it.
  `--to v1` moves a suite and reports nothing.

Of messaging:

- `publish` of Event Hubs ignores `message`, `messages` and `partitionKey`, and `consume`
  ignores `count`.
- The `clear` of Kafka drains the topic, which its documentation calls a no-op, and
  requires a `topic`, which it leaves out.

## What is not modelled

- Redis; connecting, health checks, SASL and TLS of all adapters; the conversion of
  single SQL types: calls of client libraries whose results the code passes on.
- The child process of a hook: its failure is ignored by every caller.
- Of interpolation, paths into values and what each built-in computes, and of the
  strict mode all but that an unknown name is an error (`StepLevels`); the theorems about
  assertions are of definitions already resolved; of the backoff, its arithmetic in 64 bits (`step.go:260`): `Retry` only says
  that it passes.
- `--skip-setup` and `--skip-teardown`, which empty lists of steps before they run.
- Regular expressions, the grammar of paths and of patterns, and the reading of
  YAML, JSON and `.env` files: libraries, or tables among the constants.
- What the console prints while tests run, the steps in a report, layout, wording
  and durations.
- `health`, `validate`, `doc`, `init`, `install`, `test` and `version`, which read and print or
  write a template once; `ValidateTests`, `ListTests` and `CheckHealth` of the library.
- A crash in the middle of `os.WriteFile`: a write of `Migration` is whole or not
  begun. That of `.tryve-failed` is modelled in two steps.
- The demo server, which is an example of a system under test.
- The composition of everything: `RunCommand` abstracts a run to the verdicts it may
  return, `Reporting` to outcomes. Their product with `Orchestrator` and `TestRun` is
  beyond TLC; the contracts (`SuiteContract`, `TestContract`) are the interfaces
  between them. `RunCommand` takes its verdicts from the same `PossibleVerdicts` that
  `SuiteContract` concludes with and that `VerdictsPossible` proves of `Orchestrator`.

The hazards in `PROJECT.json` without a property name what these parts could get
wrong.
