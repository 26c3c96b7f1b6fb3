----------------------------- MODULE StepLevels -----------------------------
(***************************************************************************)
(* A step at a level (internal/executor/step.go, the level's part of it):  *)
(* what its definition, the expressions in it and the answer of its        *)
(* service come to when each area is either old or current.  The attempts, *)
(* the delays and the run around it are in TestRun.                        *)
(***************************************************************************)
EXTENDS MigrationRules, Results, Loader

CONSTANT Exprs  \* for a string with expressions: its value now, and once, or Error

\* No value: a built-in of the string fails or, in a strict run, a name in it is
\* unknown.  Without the strict mode an unknown name leaves the string as it is.
Error == <<"error">>

\* Where interpolation is current, a sole expression keeps the type of its value
\* and a quoted argument loses its quotes.  A map or a list with a part that has no
\* value has none.
RECURSIVE Resolved(_, _)
Resolved(v, level) ==
  CASE IsStr(v) /\ v[2] \in DOMAIN Exprs ->
         IF "interpolation" \in level THEN Exprs[v[2]].now ELSE Exprs[v[2]].before
    [] IsMap(v) \/ IsList(v) ->
         LET parts == [k \in DOMAIN v[2] |-> Resolved(v[2][k], level)]
         IN IF \E k \in DOMAIN parts : parts[k] = Error THEN Error ELSE <<v[1], parts>>
    [] OTHER -> v

\* The timeout of the step, with a grace for the adapters that limit themselves.
Deadline(step, level) ==
  LET timeout == IntParam(step, "timeout", 0)
  IN IF "execution" \in level /\ timeout > 0
     THEN timeout + Max({timeout \div 10, 1000}) ELSE NoBound

\* A capture block is a map, or a list of names and sources.
CaptureOf(step) ==
  LET raw == At(step, "capture")
      Source(item) == IF HasKey(item, "from") THEN At(item, "from") ELSE At(item, "path")
      named == IF IsList(raw)
               THEN {i \in DOMAIN raw[2] : TextParam(raw[2][i], "name", "") # "" /\ Source(raw[2][i]) # Null}
               ELSE {}
      NameAt(i) == At(raw[2][i], "name")[2]
  IN CASE IsMap(raw) -> [k \in Keys(raw) |-> AsString(raw[2][k])]
       [] IsList(raw) -> [k \in {NameAt(i) : i \in named} |->
                            AsString(Source(raw[2][Max({i \in named : NameAt(i) = k})]))]
       [] OTHER -> [k \in {} |-> ""]

\* The paths of a capture address the body of an HTTP response.
CaptureRoot(step, data, level) ==
  LET body == At(data, "body")
  IN IF /\ AdapterOf(step) = Str("http")
        /\ IsMap(body) \/ (IsList(body) /\ "assertions" \in level)
     THEN body ELSE data

Captured(step, data, level) ==
  [name \in DOMAIN CaptureOf(step) |->
     EvalJSONPath(CaptureRoot(step, data, level), CaptureOf(step)[name])]

\* Its presence is enough, at every level, for the exit code to count no more.
HasExitCodeAssertion(def) ==
  \/ HasKey(def, "exitCode")
  \/ IsList(def) /\ \E i \in DOMAIN def[2] : At(def[2][i], "path") = Str("$.exitCode")

ExitCodeFails(step, data) ==
  /\ AdapterOf(step) = Str("shell")
  /\ At(data, "exitCode") # Float(0)
  /\ ~HasExitCodeAssertion(At(step, "assert"))

\* What becomes of one attempt at the step, and what later steps can see of it.
\* Parameters without a value fail it, continueOnError or not.  The error of an
\* assertion is ignored: RunAssertions gets a nil definition and checks nothing.
Behaviour(step, answer, level) ==
  LET params == Resolved(Params(step), level)
      result == IF params = Error THEN Failed
                ELSE Result(AdapterOf(step)[2], ActionOf(step)[2], params,
                            answer, Deadline(step, level), "adapters" \in level)
      definition == Resolved(At(step, "assert"), level)
      outcomes == IF definition = Error THEN {}
                  ELSE RunAssertions(result.data, definition, "assertions" \in level)
      failed == ~result.ok \/ ~Passes(outcomes) \/ ExitCodeFails(step, result.data)
      nothing == [name \in {} |-> Null]
  IN IF BoolParam(step, "skip") /\ "execution" \in level
     THEN [status |-> "skipped", captured |-> nothing]
     ELSE [status |-> IF ~failed THEN "passed"
                      ELSE IF BoolParam(step, "continueOnError") /\ params # Error THEN "warned" ELSE "failed",
           captured |-> IF result.ok THEN Captured(step, result.data, level) ELSE nothing]
=============================================================================
