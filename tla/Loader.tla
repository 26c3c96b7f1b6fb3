------------------------------- MODULE Loader -------------------------------
(***************************************************************************)
(* How files become test definitions (internal/loader): discovery of the   *)
(* files that the targets of a command name, the two passes of the parser  *)
(* over a YAML document, and the validation of the definition.             *)
(*                                                                         *)
(* A file is a record: its path, the directories above it from the top,    *)
(* its base name, whether that ends as the name of a test file does, and   *)
(* its document: the fields that the YAML gives, as functions from keys,   *)
(* or Unreadable when it cannot be read or decoded.  A step of a document  *)
(* is a Map of Data.                                                       *)
(***************************************************************************)
EXTENDS Data, SequencesExt

Unreadable == [malformed |-> TRUE]

-----------------------------------------------------------------------------
(* discovery.go.  A tree is the sequence of its files in the order of a walk.  A  *)
(* list is a function from positions, so that what is left out leaves no trace.   *)

\* The elements of a list that pass a test, at their positions.
Kept(list, Passes(_)) == [i \in {j \in DOMAIN list : Passes(list[j])} |-> list[i]]

\* The directories that no walk enters, unless it begins there.
Pruned == {".hidden", "node_modules"}

Below(file, dir) ==
  \E i \in DOMAIN file.dirs :
    /\ file.dirs[i] = dir
    /\ \A j \in i + 1..Len(file.dirs) : file.dirs[j] \notin Pruned

Exists(tree, dir) == \E i \in DOMAIN tree : dir \in ToSet(tree[i].dirs)

Discover(tree, dir) == Kept(tree, LAMBDA file : Below(file, dir) /\ file.isTest)

\* A pattern names a directory and base names; with "**" it reaches below the
\* directory.  It asks for no suffix.
ExpandGlob(tree, target) ==
  Kept(tree, LAMBDA file :
    /\ file.base \in target.names
    /\ IF target.deep THEN Below(file, target.dir) ELSE Last(file.dirs) = target.dir)

\* A directory, a file whatever its suffix, or else a pattern.
DiscoverTarget(tree, target) ==
  CASE target.kind = "dir" -> Discover(tree, target.dir)
    [] target.kind = "file" -> Kept(tree, LAMBDA file : file.path = target.path)
    [] OTHER -> ExpandGlob(tree, target)

\* A target that matches nothing is an error.  Files come in the order of the
\* targets; one that several targets find has the place that the first gives it.
DiscoverAll(tree, targets) ==
  LET found == [t \in DOMAIN targets |-> DOMAIN DiscoverTarget(tree, targets[t])]
      Takes(p, i) == \E t \in DOMAIN targets :
        /\ i \in found[t] /\ \A u \in 1..(t - 1) : i \notin found[u]
        /\ p = (t - 1) * Len(tree) + i
  IN [ok |-> \A t \in DOMAIN targets : found[t] # {},
      files |-> [p \in {q \in 1..(Len(targets) * Len(tree)) : \E i \in DOMAIN tree : Takes(q, i)} |->
        tree[CHOOSE i \in DOMAIN tree : Takes(p, i)]]]

-----------------------------------------------------------------------------
(* parser.go *)

Phases == {"setup", "execute", "verify", "teardown"}

\* The keys that parseStep takes for itself; `timeout' stays a parameter too.
KnownStepFields ==
  {"adapter", "action", "description", "capture", "assert", "continueOnError", "retry",
   "delay", "id", "skip", "skipReason"}

Params(step) == Map([k \in Keys(step) \ KnownStepFields |-> step[2][k]])

Given(document, key, zero) == IF key \in DOMAIN document THEN document[key] ELSE zero

ToInt(v) == IF IsNumber(v) THEN v[2] ELSE 0
TextOf(v) == IF IsStr(v) THEN v[2] ELSE ""

\* The id a step gives itself is overwritten by its place.
ParseStep(phase, i, step) ==
  [id |-> <<phase, i>>, adapter |-> TextOf(At(step, "adapter")), action |-> TextOf(At(step, "action")),
   retry |-> ToInt(At(step, "retry")), delay |-> ToInt(At(step, "delay")),
   timeout |-> ToInt(At(step, "timeout")), continueOnError |-> At(step, "continueOnError") = Bool(TRUE),
   skip |-> At(step, "skip") = Bool(TRUE), params |-> Params(step)]

\* -1 stands for retries that are not given, which only the raw pass knows.
RetriesGiven(document) == Given(document, "retries", -1)

\* The typed pass leaves zero what is not given.
ParseFile(file) ==
  LET document == file.document
  IN [name |-> Given(document, "name", ""), priority |-> Given(document, "priority", ""),
      tags |-> Given(document, "tags", {}), depends |-> Given(document, "depends", << >>),
      skip |-> Given(document, "skip", FALSE), timeout |-> Given(document, "timeout", 0),
      retries |-> RetriesGiven(document),
      steps |-> [phase \in Phases |->
        LET steps == Given(document, phase, << >>)
        IN [i \in DOMAIN steps |-> ParseStep(phase, i, steps[i])]],
      source |-> file.path]

-----------------------------------------------------------------------------
(* validator.go: complaints, none of which a valid definition has. *)

ValidPriorities == {"", "P0", "P1", "P2", "P3"}

Actions ==
  [http |-> {"request"}, shell |-> {"exec"},
   postgresql |-> {"execute", "query", "queryOne", "count"},
   mongodb |-> {"insertOne", "insertMany", "findOne", "find", "updateOne", "updateMany",
                "deleteOne", "deleteMany", "count", "aggregate"},
   redis |-> {"get", "set", "del", "exists", "incr", "hget", "hset", "hgetall", "keys", "flushPattern"},
   kafka |-> {"produce", "consume", "waitFor", "clear"},
   eventhub |-> {"publish", "waitFor", "consume", "clear"}]

RequiredParams(step) ==
  CASE step.adapter = "http" -> {"url"}
    [] step.adapter = "shell" -> {"command"}
    [] step.adapter = "postgresql" -> {"sql"}
    [] step.adapter = "mongodb" -> {"collection"}
    [] step.adapter \in {"kafka", "eventhub"} /\ step.action # "clear" -> {"topic"}
    [] OTHER -> {}

ValidateStep(step) ==
  IF step.adapter \notin DOMAIN Actions THEN {<<step.id, "adapter">>}
  ELSE {<<step.id, "action">> : a \in {step.action} \ Actions[step.adapter]}
       \cup {<<step.id, key>> : key \in {k \in RequiredParams(step) : At(step.params, k) \in {Null, Str("")}}}

Validate(td) ==
  {<<"test", field>> : field \in {f \in {"name", "execute", "priority", "timeout", "retries"} :
     \/ f = "name" /\ td.name = ""
     \/ f = "execute" /\ td.steps["execute"] = << >>
     \/ f = "priority" /\ td.priority \notin ValidPriorities
     \/ f = "timeout" /\ td.timeout \notin 0..300000
     \/ f = "retries" /\ td.retries \notin -1..5}}
  \cup UNION {UNION {ValidateStep(step) : step \in ToSet(td.steps[phase])} : phase \in Phases}

IsValid(td) == Validate(td) = {}
=============================================================================
