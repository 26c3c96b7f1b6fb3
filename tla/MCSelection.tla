---------------------------- MODULE MCSelection ----------------------------
(* Commands, files and configurations for Reporting, which runs Selection:  *)
(* suites of small dependency graphs, whose runs are not followed, and      *)
(* commands of every kind over trees with files that are unreadable, hidden *)
(* or not valid, whose runs are.                                            *)
EXTENDS Reporting

ShellStep == Map([k \in {"adapter", "action", "command"} |->
                    Str(CASE k = "adapter" -> "shell" [] k = "action" -> "exec" [] OTHER -> "true")])

File(path, dirs, document) ==
  [path |-> path, dirs |-> dirs, base |-> path, isTest |-> TRUE, document |-> document]

NoFlags == [parallel |-> 0, timeout |-> 0, retries |-> -1, strict |-> "absent", apiVersion |-> "absent"]
NoCriteria == [names |-> {}, tags |-> {}, grep |-> {"*"}, priority |-> ""]

Plain ==
  [who |-> "run", targets |-> << >>, testDir |-> "", env |-> "local", flags |-> NoFlags,
   criteria |-> NoCriteria, dryRun |-> FALSE, watch |-> FALSE, reporters |-> << >>, output |-> ""]

ConfigFile ==
  [version |-> "1.0", dotEnv |-> [v \in {"HOST"} |-> "dotenv"],
   environments |-> [e \in {"local"} |-> [baseUrl |-> <<<<"var", "HOST">>>>, adapters |-> [a \in {} |-> << >>]]],
   variables |-> [v \in {"token"} |-> <<<<"var", "TOKEN">>>>],
   defaults |-> [timeout |-> 0, retries |-> 0, retryDelay |-> 0, parallel |-> 0, strictResolve |-> FALSE],
   testDir |-> "tests", declared |-> Undeclared]

Unset == [v \in {} |-> ""]

Input(c, configFile, process, tree, followed) ==
  [command |-> c, config |-> configFile, process |-> process, tree |-> tree, followed |-> followed]

-----------------------------------------------------------------------------
(* Graphs *)

GraphNames == {"a", "b", "c"}

\* Lists of at most two dependencies; "z" is a name no file has.
GraphDepends == {<< >>} \cup {<<m>> : m \in GraphNames \cup {"z"}}
                  \cup {<<"a", "b">>, <<"b", "a">>, <<"b", "c">>, <<"c", "a">>}

Documents(names, depends, tags, steps) ==
  [name : names, depends : depends, tags : tags, execute : steps]

Lists(D, n) == UNION {[1..k -> D] : k \in 0..n}

PathOf == <<"f1", "f2", "f3">>
Tree(given) == [i \in DOMAIN given |-> File(PathOf[i], <<"tests">>, given[i])]

\* Dependency graphs over up to three files, duplicate names and cycles among
\* them, and pairs of files with tags of which some are not valid.
Graphs3 == Lists(Documents(GraphNames, GraphDepends, {{}}, {<<ShellStep>>}), 3)
Pairs == Lists(Documents({"a", "b"}, {<< >>, <<"a">>, <<"b">>}, SUBSET {"s", "t"}, {<<ShellStep>>, << >>}), 2)

PlainGraphs == {Input(<<"plain">>, "plain", "unset", Tree(d), FALSE) : d \in Graphs3}
GreppedGraphs ==
  {Input(<<"grepped">>, "plain", "unset", Tree(d), FALSE) :
     d \in {e \in [1..3 -> Documents(GraphNames, GraphDepends, {{}}, {<<ShellStep>>})] :
             \A i \in 1..3 : e[i].name = <<"a", "b", "c">>[i]}}
FilteredPairs ==
  {Input(<<c>>, "plain", "unset", Tree(d), FALSE) :
     c \in {"plain", "grepped", "named", "tagged", "both"}, d \in Pairs}

-----------------------------------------------------------------------------
(* Commands *)

Doc(name) == [name |-> name, execute |-> <<ShellStep>>]
Extended(doc, key, v) == doc @@ [k \in {key} |-> v]

\* Two tests, one of which may say how often it is retried, that it is skipped or
\* something that is not valid, below directories of which one is hidden; a file
\* that is no test by its name, and one that cannot be read.
Trees ==
  {<<File("a.test.yaml", <<"tests">>, first),
     File("b.test.yaml", <<"tests", dir>>, Doc("b")),
     [File("c.yaml", <<"tests", "more">>, Doc("c")) EXCEPT !.isTest = FALSE],
     File("d.test.yaml", <<"other">>, Unreadable)>> :
     dir \in {"more", ".hidden"},
     first \in {Doc("a"), Extended(Doc("a"), "retries", 0), Extended(Doc("a"), "retries", 2),
                Extended(Doc("a"), "retries", 6), Extended(Doc("a"), "skip", TRUE),
                Extended(Doc("a"), "priority", "P9"), Extended(Doc("a"), "priority", "P1")}}

Directory(dir) == [kind |-> "dir", dir |-> dir]
Pattern(dir, deep) == [kind |-> "glob", dir |-> dir, deep |-> deep, names |-> {"b.test.yaml", "c.yaml"}]
PathTarget(path) == [kind |-> "file", path |-> path]

TargetLists ==
  [none |-> << >>,
   twice |-> <<Directory("tests"), PathTarget("a.test.yaml")>>,
   unreadable |-> <<Directory("other"), Pattern("tests", TRUE)>>,
   flat |-> <<Pattern("more", FALSE), PathTarget("c.yaml")>>,
   nothing |-> <<Pattern("tests", FALSE)>>]

FlagSets ==
  [default |-> NoFlags, none |-> [NoFlags EXCEPT !.retries = 0],
   three |-> [NoFlags EXCEPT !.retries = 3, !.parallel = 2],
   unknown |-> [NoFlags EXCEPT !.apiVersion = "unknown", !.strict = "true"]]

Callers == {"run", "library", "list"} \X (DOMAIN TargetLists) \X (DOMAIN FlagSets)
ReporterLists == [none |-> << >>, json |-> <<"json">>, two |-> <<"html", "junit">>, unknown |-> <<"tap", "json">>]
Slots == [one |-> 1, two |-> 2]
Suites == {"suite"} \X {"run", "library"} \X (DOMAIN Slots) \X (DOMAIN ReporterLists)

Named ==
  [plain |-> Plain,
   grepped |-> [Plain EXCEPT !.criteria.grep = {"a", "c"}],
   named |-> [Plain EXCEPT !.criteria.names = {"b"}],
   tagged |-> [Plain EXCEPT !.criteria.tags = {"s", "t"}, !.criteria.grep = {"a"}],
   both |-> [Plain EXCEPT !.criteria.names = {"a", "b"}, !.criteria.tags = {"s"}],
   dry |-> [Plain EXCEPT !.dryRun = TRUE],
   staging |-> [Plain EXCEPT !.env = "staging"],
   urgent |-> [Plain EXCEPT !.criteria.priority = "P1"],
   three |-> [Plain EXCEPT !.flags.parallel = 2, !.reporters = <<"junit">>]]

\* Every name is a tuple of strings.
MCCommands ==
  [c \in {<<name>> : name \in DOMAIN Named} |-> Named[c[1]]]
  @@ [c \in Callers |-> [Plain EXCEPT !.who = c[1], !.targets = TargetLists[c[2]], !.flags = FlagSets[c[3]]]]
  @@ [s \in Suites |-> [Plain EXCEPT !.who = s[2], !.watch = s[2] = "run", !.flags.parallel = Slots[s[3]],
                                     !.reporters = ReporterLists[s[4]], !.output = "report"]]

MCConfigFiles ==
  [plain |-> ConfigFile,
   newer |-> [ConfigFile EXCEPT !.version = "2.0"],
   noHost |-> [ConfigFile EXCEPT !.dotEnv = Unset],
   once |-> [ConfigFile EXCEPT !.defaults.retries = 1],
   negative |-> [ConfigFile EXCEPT !.defaults.retries = -1, !.testDir = ""]]

MCProcesses == [unset |-> Unset, host |-> [v \in {"HOST", "TOKEN"} |-> "set"]]

CallerInputs ==
  {Input(c, configFile, process, tree, FALSE) :
     c \in Callers, configFile \in DOMAIN MCConfigFiles, process \in DOMAIN MCProcesses, tree \in Trees}
OtherInputs ==
  {Input(<<c>>, "plain", "unset", tree, FALSE) : c \in {"dry", "staging", "urgent"}, tree \in Trees}

\* Runs of two or three tests on one or two slots, with up to two reports.
Followed ==
  {Input(c, "plain", "unset", Tree(<<Extended(Doc("a"), "skip", skip), Doc("b")>>), TRUE) :
     c \in Suites, skip \in BOOLEAN}
\* The third test needs an adapter that the configuration does not give.
Purge == Map([k \in {"adapter", "action", "topic"} |->
                Str(CASE k = "adapter" -> "kafka" [] k = "action" -> "clear" [] OTHER -> "t")])
Purged == [Doc("c") EXCEPT !.execute = <<Purge>>]
FollowedThree == {Input(<<"three">>, "plain", "unset", Tree(<<Doc("a"), Doc("b"), Purged>>), TRUE)}

FollowedInputs == <<FollowedThree, Followed>>
MCInputs == <<Followed, FollowedThree, OtherInputs, CallerInputs, FilteredPairs, GreppedGraphs, PlainGraphs>>

=============================================================================
