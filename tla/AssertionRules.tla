--------------------------- MODULE AssertionRules ---------------------------
(***************************************************************************)
(* The rules of `tryve migrate' for the assertions of a step               *)
(* (internal/migrate/rules.go): what it finds in a definition that is      *)
(* evaluated differently between tryve/v1 and tryve/v2.  A finding is an   *)
(* area and whether the difference is certain.                             *)
(***************************************************************************)
EXTENDS Assertions

CONSTANT ArrayRoots   \* the paths that are written $ or $[...]

Finding(area, certain) == {[area |-> area, certain |-> certain]}

EnvelopeFields == {"status", "statusText", "headers", "body", "duration"}

EnvelopeField(path) ==
  Segments(path) # << >> /\ Head(Segments(path)) \in {Str(field) : field \in EnvelopeFields}

\* An item of a list: one with a column, or without a path, was dropped whole,
\* and of another each key that the older release did not know.
SliceItemFindings(item) ==
  IF /\ IsMap(item)
     /\ HasKey(item, "path") /\ ~HasKey(item, "column") =>
          Keys(item) \ (StructuralKeys \cup LegacyOperators) # {}
  THEN Finding("assertions", TRUE) ELSE {}

\* The root of a path changes when the body is an array.
RootFindings(item) ==
  IF HasKey(item, "path") /\ (PathOf(item) \in ArrayRoots \/ EnvelopeField(PathOf(item)))
  THEN Finding("assertions", FALSE) ELSE {}

JsonBlockFindings(items) ==
  IF ~IsList(items) THEN {}
  ELSE UNION {SliceItemFindings(items[2][i]) \cup RootFindings(items[2][i]) : i \in DOMAIN items[2]}

\* Faulty variant of AssertionFindings: exitCode is taken for a key of old.
AssertionFindingsNoExit(step) ==
  LET def == At(step, "assert")
  IN CASE IsMap(def) ->
            JsonBlockFindings(At(def, "json"))
            \cup IF Keys(def) \ (KnownHTTPKeys \cup {"path", "exitCode"} \cup LegacyOperators) = {} THEN {}
                 ELSE Finding("assertions", TRUE)
       [] IsList(def) -> UNION {SliceItemFindings(def[2][i]) : i \in DOMAIN def[2]}
       [] OTHER -> {}

\* Of a map each key is new that is neither one of HTTP, nor path, nor an operator
\* of old.
AssertionFindings(step) ==
  LET def == At(step, "assert")
  IN CASE IsMap(def) ->
            JsonBlockFindings(At(def, "json"))
            \cup IF Keys(def) \ (KnownHTTPKeys \cup {"path"} \cup LegacyOperators) = {} THEN {}
                 ELSE Finding("assertions", TRUE)
       [] IsList(def) -> UNION {SliceItemFindings(def[2][i]) : i \in DOMAIN def[2]}
       [] OTHER -> {}
=============================================================================
