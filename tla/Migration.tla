------------------------------ MODULE Migration ------------------------------
(***************************************************************************)
(* `tryve migrate' (internal/cli/migrate.go, internal/migrate): a suite    *)
(* moves to a level by writes to several files, one after the other.  The  *)
(* files that would behave differently are pinned to the level they run at *)
(* and then the configuration is raised; the process may end in between.   *)
(* Later the pins are taken off file by file.                              *)
(*                                                                         *)
(* What a file of the suite holds beside its declaration does not change.  *)
(* What the rules find in it, and what its steps do at each level, are     *)
(* parameters here; MigrationCases computes them from samples.             *)
(***************************************************************************)
EXTENDS Levels

CONSTANTS
  Files,        \* the test files, numbered in the order of their names
  Content,      \* what a file may hold
  Findings,     \* Findings[c]: what the rules find in it, [area, certain]
  Does,         \* Does[c][level]: what its steps do at a level
  Known(_),     \* whether its steps are of the kinds that the rules know
  Configs,      \* the declarations a configuration may begin with
  Owns,         \* and those of a test file
  AreaSets,     \* the areas a command may name, {} when it names none
  MaxCommands   \* bound: the commands given

IsDeclaration(d) ==
  /\ d = [version |-> d.version, override |-> d.override]
  /\ d.override = [a \in DOMAIN d.override |-> d.override[a]]

\* --area takes no name that is none.
ASSUME MigrationAssumption ==
  /\ Files \subseteq Nat
  /\ AreaSets \subseteq SUBSET Areas
  /\ \A d \in Configs \cup Owns : IsDeclaration(d)

VARIABLES
  content,      \* what each file holds
  own,          \* the declaration in each file
  config,       \* the declaration in the configuration
  command,      \* the command that runs: the files still to pin, and its flags
  given,        \* how many commands were given
  before        \* history: the levels as the last apply found them

vars == <<content, own, config, command, given, before>>

\* A file that YAML does not accept.
Broken == [version |-> "broken", override |-> [a \in {} |-> "v1"]]

IsPinned(d) == d # Broken /\ (d.version # "absent" \/ DOMAIN d.override # {})

SuiteLevel == ResolveLevel(config).level
LevelOf(f) == IF own[f] = Broken THEN [ok |-> FALSE, level |-> Legacy]
                                 ELSE LevelOfTest(SuiteLevel, own[f])

Idle == [running |-> FALSE, todo |-> {}, areas |-> {}, to |-> "v1", onlyCertain |-> FALSE]

-----------------------------------------------------------------------------
(* The analysis *)

\* Areas that are not named count as tryve/v1 in the target, whatever they are.
TargetMode(to, areas) ==
  IF areas = {} THEN ParseAPIVersion(to) ELSE areas \cap ParseAPIVersion(to)

\* A file that declares no level, or one that is refused, counts as the suite's.
FileLevel(f) ==
  IF IsPinned(own[f]) /\ ResolveLevel(own[f]).ok THEN ResolveLevel(own[f]).level ELSE SuiteLevel

\* Only an area that goes from old to new counts.
Analyze(found, from, to) == {finding \in found : finding.area \in to \ from}

Report(f, to, areas) ==
  IF own[f] = Broken THEN {}
  ELSE Analyze(Findings[content[f]], FileLevel(f), TargetMode(to, areas))

\* Pinning is for the uncertain findings too, unless the command says otherwise.
Affected(to, areas, onlyCertain) ==
  {f \in Files : \E finding \in Report(f, to, areas) : onlyCertain => finding.certain}

-----------------------------------------------------------------------------
(* The commands *)

Init ==
  /\ content \in [Files -> Content]
  /\ own \in [Files -> Owns]
  /\ config \in Configs
  /\ command = Idle
  /\ given = 0
  /\ before = [suite |-> SuiteLevel, config |-> config, own |-> own, areas |-> {}, to |-> "v1",
               onlyCertain |-> FALSE, since |-> FALSE]

\* A configuration that does not load ends the command before anything is read.
Apply(to, areas, onlyCertain) ==
  /\ ~command.running /\ given < MaxCommands
  /\ ResolveLevel(config).ok
  /\ command' = [running |-> TRUE, todo |-> Affected(to, areas, onlyCertain),
                 areas |-> areas, to |-> to, onlyCertain |-> onlyCertain]
  /\ before' = [suite |-> SuiteLevel, config |-> config, own |-> own, areas |-> areas, to |-> to,
                onlyCertain |-> onlyCertain, since |-> TRUE]
  /\ given' = given + 1
  /\ UNCHANGED <<content, own, config>>

PinnedTo(level) == [Undeclared EXCEPT !.version = APIVersion(level)]

\* The files are taken in order.  One that has a declaration keeps it.
Pin ==
  /\ command.running
  /\ \E f \in command.todo :
       /\ \A g \in command.todo : f <= g
       /\ own' = IF IsPinned(own[f]) THEN own ELSE [own EXCEPT ![f] = PinnedTo(before.suite)]
       /\ command' = [command EXCEPT !.todo = @ \ {f}]
  /\ UNCHANGED <<content, config, given, before>>

\* The declaration after setConfigCompat: the version, or the whole block of areas.
Raised(d, to, areas) ==
  IF areas = {} THEN [d EXCEPT !.version = to]
                ELSE [d EXCEPT !.override = [a \in areas |-> to]]

\* Faulty variant of SetConfigCompat: the configuration is raised at any time.
SetConfigCompatEarly ==
  /\ command.running
  /\ config' = Raised(config, command.to, command.areas)
  /\ command' = IF command.todo = {} THEN Idle ELSE command
  /\ UNCHANGED <<content, own, given, before>>

\* The last write of an apply, after which it says that nothing has changed.
SetConfigCompat ==
  /\ command.running /\ command.todo = {}
  /\ config' = Raised(config, command.to, command.areas)
  /\ command' = Idle
  /\ UNCHANGED <<content, own, given, before>>

\* A write that fails ends the command; so does a signal.
Stop ==
  /\ command.running
  /\ command' = Idle
  /\ UNCHANGED <<content, own, config, given, before>>

\* The lines of a declaration are removed, but not those below `compatibility:'.
Unpin(f) ==
  /\ ~command.running /\ given < MaxCommands
  /\ ResolveLevel(config).ok
  /\ IsPinned(own[f])
  /\ own' = [own EXCEPT ![f] = IF DOMAIN own[f].override = {} THEN Undeclared ELSE Broken]
  /\ before' = [before EXCEPT !.since = FALSE]
  /\ given' = given + 1
  /\ UNCHANGED <<content, config, command>>

Next ==
  \/ \E to \in {"v1", "v2"}, areas \in AreaSets, onlyCertain \in BOOLEAN : Apply(to, areas, onlyCertain)
  \/ Pin
  \/ SetConfigCompat
  \/ Stop
  \/ \E f \in Files : Unpin(f)

Spec == Init /\ [][Next]_vars

-----------------------------------------------------------------------------
(* Properties *)

\* The rules are sound: a file that does something else once an area is adopted,
\* whichever others are, has a finding of that area (rules.go).
RulesSound ==
  \A c \in Content : Known(c) =>
    \A area \in Areas : \A level \in SUBSET (Areas \ {area}) :
      (\E finding \in Findings[c] : finding.area = area)
        \/ Does[c][level] = Does[c][level \cup {area}]

\* The files for which an apply can keep its word: their steps are known to the
\* rules, their findings are all pinned for, and they have no empty `apiVersion:',
\* which a pin leaves alone and the run ignores.
IsCovered(f) ==
  /\ Known(content[f])
  /\ before.onlyCertain => \A finding \in Findings[content[f]] : finding.certain
  /\ ~(own[f].version = "null" /\ DOMAIN own[f].override = {})

\* From the first write of an apply to the next command, wherever it is cut, each
\* file behaves as it did before: the pins come first (migrate.go, runApply).  This
\* is for a suite on one level that moves to tryve/v2, as a whole or from a
\* configuration without a block of areas.
MigrationKeepsBehaviour ==
  /\ before.since
  /\ before.to = "v2"
  /\ before.suite \in {Legacy, Modern}
  /\ before.areas = {} \/ DOMAIN before.config.override = {}
  => \A f \in {g \in Files : IsCovered(g) /\ own[g] # Broken} :
       LET now == LevelOf(f)
           earlier == LevelOfTest(before.suite, before.own[f])
       IN /\ now.ok = earlier.ok
          /\ now.ok => Does[content[f]][now.level] = Does[content[f]][earlier.level]
=============================================================================
