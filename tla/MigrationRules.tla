--------------------------- MODULE MigrationRules ---------------------------
(***************************************************************************)
(* The rules of `tryve migrate' (internal/migrate/rules.go): what it finds *)
(* in a step that behaves differently between tryve/v1 and tryve/v2.  A    *)
(* step is the YAML mapping, a Map of Data; no scalar but a string is a    *)
(* Str.  The rules for its `assert' are those of AssertionRules.           *)
(***************************************************************************)
EXTENDS AssertionRules

CONSTANTS
  Sole,         \* the strings that are one {{expression}} and nothing else
  Quoted,       \* the strings with a built-in that has a quoted argument
  Aggregates    \* the SQL texts that call count

AdapterOf(step) == At(step, "adapter")
ActionOf(step) == At(step, "action")

RECURSIVE ScalarStrings(_)
ScalarStrings(v) ==
  CASE IsStr(v) -> {v[2]}
    [] IsMap(v) -> Keys(v) \cup UNION {ScalarStrings(v[2][k]) : k \in Keys(v)}
    [] IsSlice(v) -> UNION {ScalarStrings(v[2][i]) : i \in DOMAIN v[2]}
    [] OTHER -> {}

TypedKeys == {"body", "params", "assert", "message", "messages", "document", "documents", "value"}

InterpolationFindings(step) ==
  (IF (UNION {ScalarStrings(At(step, k)) : k \in TypedKeys}) \cap Sole = {} THEN {}
   ELSE Finding("interpolation", FALSE))
  \cup (IF ScalarStrings(step) \cap Quoted = {} THEN {} ELSE Finding("interpolation", TRUE))

ExecutionFindings(step) ==
  (IF HasKey(step, "timeout") /\ AdapterOf(step) \notin {Str("kafka"), Str("eventhub")}
   THEN Finding("execution", FALSE) ELSE {})
  \cup (IF At(step, "skip") \in {Bool(TRUE), Str("true")} THEN Finding("execution", TRUE) ELSE {})

AdapterFindings(step) ==
  LET isCount == /\ AdapterOf(step) \in {Str("postgresql"), Str("postgres")}
                 /\ ActionOf(step) = Str("count")
                 /\ At(step, "sql") \in {Str(sql) : sql \in Aggregates}
      isFindOne == AdapterOf(step) = Str("mongodb") /\ ActionOf(step) = Str("findOne")
      isUnbounded == AdapterOf(step) = Str("shell") /\ ~HasKey(step, "timeout")
  IN (IF isCount THEN Finding("adapters", TRUE) ELSE {})
     \cup (IF isFindOne \/ isUnbounded THEN Finding("adapters", FALSE) ELSE {})

FindingsOf(step) ==
  AssertionFindings(step) \cup InterpolationFindings(step)
    \cup ExecutionFindings(step) \cup AdapterFindings(step)
=============================================================================
