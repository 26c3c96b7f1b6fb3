----------------------------- MODULE Selection -----------------------------
(***************************************************************************)
(* How a command becomes the run order of a suite: the configuration is    *)
(* loaded and overridden, the files are found, parsed, filtered and        *)
(* validated (the closure loadAndFilter of `tryve run'; the library        *)
(* validates before it filters, and `tryve list' does not validate), and   *)
(* topoSortTests orders what is left (SortWalk).  The order matters: a     *)
(* dependency may be dropped at each stage before the sort, which then,    *)
(* like the orchestrator, sees a name it does not know.                    *)
(*                                                                         *)
(* A list of files or of definitions is a function from positions, as in   *)
(* Loader.                                                                 *)
(***************************************************************************)
EXTENDS SortWalk, FiniteSets, Loader, Configuration

CONSTANTS
  Commands,     \* the commands: who runs, its targets, test directory, environment,
                \* flags and criteria, and what Reporting needs
  ConfigFiles,  \* the files e2e.config.yaml
  Processes,    \* the environments of the process
  Inputs        \* what is given, in groups: a name of each of these, and the tree of files

\* Criteria have names, tags and a priority, where {} and "" are no criterion, and
\* the names a grep pattern matches or {"*"}.

IsSequence(s) == s \in Seq(ToSet(s))

\* There are three callers, and targets and files are sequences; what is decoded as
\* a document has a list where the definition has a list.
ASSUME SelectionAssumption ==
  /\ \A c \in DOMAIN Commands :
       Commands[c].who \in {"run", "library", "list"} /\ IsSequence(Commands[c].targets)
  /\ \A group \in DOMAIN Inputs : \A given \in Inputs[group] :
       /\ given.command \in DOMAIN Commands
       /\ IsSequence(given.tree)
       /\ \A i \in DOMAIN given.tree :
            LET document == given.tree[i].document
            IN "depends" \in DOMAIN document => document["depends"] \in Seq(STRING)

VARIABLES
  input,   \* what was given
  cfg,     \* the configuration loaded, with the overrides
  files,   \* the files found
  phase

\* `tests' of SortWalk are the definitions that are left, `sorted' is the run order.
selectionVars == <<input, cfg, files, phase, tests, walkVars>>

command == Commands[input.command]
config == ConfigFiles[input.config]
criteria == command.criteria

Init ==
  /\ \E group \in DOMAIN Inputs : input \in Inputs[group]
  /\ cfg = Refused
  /\ files = << >>
  /\ phase = "start"
  /\ WInit

\* The library has a directory of its own; the flag comes before the file.
TestDir(loaded) ==
  IF command.testDir # "" THEN command.testDir
  ELSE IF command.who # "library" /\ loaded.ok THEN loaded.testDir ELSE "tests"

\* Only `tryve run' takes targets.
Found(loaded) ==
  LET dir == TestDir(loaded)
  IN IF command.who = "run"
     THEN DiscoverAll(input.tree, IF command.targets # << >> THEN command.targets
                                  ELSE <<[kind |-> "dir", dir |-> dir]>>)
     ELSE [ok |-> Exists(input.tree, dir), files |-> Discover(input.tree, dir)]

\* A configuration that does not load ends a run; `tryve list' does without.
Prepare ==
  /\ phase = "start"
  /\ LET loaded == Load(config, command.env, Processes[input.process])
         found == Found(loaded)
         refused == command.who # "list" /\ (~loaded.ok \/ ~KnownVersion(command.flags.apiVersion))
     IN IF refused \/ ~found.ok
        THEN phase' = "failed" /\ UNCHANGED <<cfg, files>>
        ELSE /\ cfg' = IF loaded.ok THEN Overridden(loaded, command.flags) ELSE Refused
             /\ files' = found.files
             /\ phase' = "found"
  /\ UNCHANGED <<input, tests, walkVars>>

MatchesNames(td) == criteria.names # {} => td.name \in criteria.names

MatchesTags(td) == criteria.tags # {} => td.tags \cap criteria.tags # {}

MatchesGrep(td) == criteria.grep # {"*"} => td.name \in criteria.grep

MatchesPriority(td) == criteria.priority # "" => td.priority = criteria.priority

\* Faulty variant of Matches: one satisfied criterion is enough.
MatchesAny(td) ==
  \/ criteria.names # {} /\ MatchesNames(td)
  \/ criteria.tags # {} /\ MatchesTags(td)
  \/ criteria.grep # {"*"} /\ MatchesGrep(td)
  \/ criteria.priority # "" /\ MatchesPriority(td)
  \/ criteria = [names |-> {}, tags |-> {}, grep |-> {"*"}, priority |-> ""]

Matches(td) == MatchesNames(td) /\ MatchesTags(td) /\ MatchesGrep(td) /\ MatchesPriority(td)

Parsed ==
  [i \in {j \in DOMAIN files : files[j].document # Unreadable} |-> ParseFile(files[i])]

\* loadAndFilter, discoverAndLoad with FilterTests, and the list.
LoadAndFilter ==
  /\ phase = "found"
  /\ tests' = CASE command.who = "run" -> Kept(Kept(Parsed, Matches), IsValid)
                [] command.who = "library" -> Kept(Kept(Parsed, IsValid), Matches)
                [] OTHER -> Kept(Parsed, Matches)
  /\ phase' = IF command.who = "list" \/ command.dryRun THEN "listed" ELSE "selected"
  /\ UNCHANGED <<input, cfg, files, walkVars>>

\* topoSortTests is called, and returns.
BeginSort ==
  /\ phase = "selected"
  /\ Begin
  /\ phase' = "sorting"
  /\ UNCHANGED <<input, cfg, files, tests>>

SortStep ==
  /\ phase = "sorting"
  /\ Walk
  /\ UNCHANGED <<input, cfg, files, phase>>

EndSort ==
  /\ phase = "sorting" /\ IsWalked
  /\ phase' = "sorted"
  /\ UNCHANGED <<input, cfg, files, tests, walkVars>>

Sort == BeginSort \/ SortStep \/ EndSort

\* What the retries of a test come to when it runs.
RetriesOf(td) == IF td.retries >= 0 THEN td.retries ELSE cfg.defaults.retries

-----------------------------------------------------------------------------
(* Properties *)

Asked(td) ==
  /\ criteria.names = {} \/ td.name \in criteria.names
  /\ criteria.tags = {} \/ td.tags \cap criteria.tags # {}
  /\ criteria.grep = {"*"} \/ td.name \in criteria.grep
  /\ criteria.priority = "" \/ td.priority = criteria.priority

\* The sort neither invents, loses nor repeats a name, even in a cycle, and the
\* names are those of the valid definitions of the files found that satisfy every
\* criterion that was given (orchestrator.go, topoSortTests and FilterTests).
SameNames ==
  phase = "sorted" =>
    /\ NamesOf(sorted) = {td.name : td \in {d \in ToSet(Parsed) : IsValid(d) /\ Asked(d)}}
    /\ \A i, j \in DOMAIN sorted : sorted[i].name = sorted[j].name => i = j

\* An acyclic selection is sorted: dependencies that are part of it come first,
\* whichever of several definitions of a name was kept (orchestrator.go,
\* topoSortTests).
DependenciesFirst == phase = "sorted" /\ Acyclic => Respects(sorted)

\* A test that runs is attempted as often as its file says, zero included; else as
\* the command says; else as the configuration does.  Unless that is negative, the
\* step loop makes an attempt (parser.go:102, run.go:117, runner.go:137, step.go:289).
RetriesAsAsked ==
  phase = "sorted" =>
    \A td \in ToSet(sorted) : \E file \in ToSet(files) :
      LET own == Given(file.document, "retries", -1)
      IN /\ file.path = td.source
         /\ RetriesOf(td) = IF own >= 0 THEN own
                            ELSE IF command.flags.retries >= 0 THEN command.flags.retries
                            ELSE config.defaults.retries
=============================================================================
