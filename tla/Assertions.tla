----------------------------- MODULE Assertions -----------------------------
(***************************************************************************)
(* The assertions of a step (internal/assertion): what a definition makes  *)
(* of the data an adapter has returned, at either level of the assertions  *)
(* area.  Outcomes are a set of records: which value was checked, with     *)
(* which operator, and whether it passed; messages are left out.           *)
(***************************************************************************)
EXTENDS Data, SequencesExt

CONSTANTS
  Paths,            \* the segments of each JSONPath a definition uses
  Parsed,           \* the number that each numeric string denotes
  Lowered,          \* the lower case of each header name that has another
  TextTest(_, _, _),\* whether a text contains, matches, ... another
  Sprint(_)         \* the text of a value, fmt.Sprintf("%v", v)

-----------------------------------------------------------------------------
(* jsonpath.go *)

Wildcard == <<"any">>

\* What one segment of a path selects in a value.
Children(v, seg) ==
  CASE seg = Wildcard -> IF IsSlice(v) THEN v[2] ELSE << >>
    [] IsStr(seg) -> IF HasKey(v, seg[2]) THEN <<v[2][seg[2]]>> ELSE << >>
    [] OTHER -> IF IsSlice(v) /\ seg[2] + 1 \in DOMAIN v[2] THEN <<v[2][seg[2] + 1]>> ELSE << >>

Segments(path) == IF path \in DOMAIN Paths THEN Paths[path] ELSE <<Str(path)>>

\* What the rest of a path makes of the matches so far.
Walk(matches, segs) ==
  FoldLeft(LAMBDA found, seg : FoldLeft(LAMBDA acc, v : acc \o Children(v, seg), << >>, found),
           matches, segs)

QueryJSONPath(data, path) ==
  LET segs == Segments(path)
  IN IF segs = << >> THEN <<data>> ELSE Walk(Children(data, Head(segs)), Tail(segs))

\* No match is nil, like a field that holds null.
EvalJSONPath(data, path) ==
  LET results == QueryJSONPath(data, path)
  IN CASE results = << >> -> Null
       [] Len(results) = 1 -> results[1]
       [] OTHER -> List(results)

-----------------------------------------------------------------------------
(* matchers.go *)

OperatorAliases ==
  [eq |-> "equals", ne |-> "notEquals", neq |-> "notEquals", gt |-> "greaterThan",
   gte |-> "greaterThanOrEqual", lt |-> "lessThan", lte |-> "lessThanOrEqual",
   lengthEquals |-> "length", in |-> "oneOf", notIn |-> "notOneOf", empty |-> "isEmpty"]

LegacyOperators ==
  {"equals", "notEquals", "contains", "notContains", "matches", "type", "exists", "notExists",
   "isNull", "isNotNull", "greaterThan", "lessThan", "greaterThanOrEqual", "lessThanOrEqual",
   "length", "isEmpty", "notEmpty", "hasProperty", "notHasProperty"}

CanonicalOperators ==
  LegacyOperators \cup {"minLength", "maxLength", "startsWith", "endsWith", "oneOf", "notOneOf"}

CanonicalOperator(name) == IF name \in DOMAIN OperatorAliases THEN OperatorAliases[name] ELSE name

IsOperator(key) == CanonicalOperator(key) \in CanonicalOperators

Negated ==
  [notEquals |-> "equals", notContains |-> "contains", isNotNull |-> "isNull",
   notOneOf |-> "oneOf", notEmpty |-> "isEmpty", notHasProperty |-> "hasProperty"]

\* Only a value of its own is normalised, not what a list or a map holds.
NormalizeNumeric(v) == IF IsNumber(v) THEN Float(v[2]) ELSE v
Same(a, b) == NormalizeNumeric(a) = NormalizeNumeric(b)

\* Anything that is no number counts as zero.
ToFloat64(v) ==
  CASE IsNumber(v) -> v[2]
    [] IsStr(v) /\ v[2] \in DOMAIN Parsed -> Parsed[v[2]]
    [] OTHER -> 0

TypeOf(v) ==
  CASE v[1] \in {"null", "string", "boolean"} -> v[1]
    [] IsNumber(v) -> "number"
    [] IsMap(v) -> "object"
    [] IsSlice(v) -> "array"
    [] OTHER -> "struct"

LengthOf(v) ==
  CASE v = Null -> 0
    [] IsStr(v) \/ IsSlice(v) -> Len(v[2])
    [] IsMap(v) -> Cardinality(Keys(v))
    [] OTHER -> -1

Holds(operator, actual, expected) ==
  CASE operator = "equals" -> Same(actual, expected)
    [] operator = "contains" ->
         IF IsStr(actual) THEN TextTest("contains", actual[2], Sprint(expected))
         ELSE IsList(actual) /\ \E i \in DOMAIN actual[2] : Same(actual[2][i], expected)
    [] operator = "matches" -> IsStr(expected) /\ TextTest("matches", Sprint(actual), expected[2])
    [] operator \in {"startsWith", "endsWith"} -> TextTest(operator, Sprint(actual), Sprint(expected))
    [] operator = "type" -> IsStr(expected) /\ TypeOf(actual) = expected[2]
    [] operator = "exists" -> (actual # Null) = (expected # Bool(FALSE))
    [] operator \in {"notExists", "isNull"} -> actual = Null
    [] operator = "greaterThan" -> ToFloat64(actual) > ToFloat64(expected)
    [] operator = "lessThan" -> ToFloat64(actual) < ToFloat64(expected)
    [] operator = "greaterThanOrEqual" -> ToFloat64(actual) >= ToFloat64(expected)
    [] operator = "lessThanOrEqual" -> ToFloat64(actual) =< ToFloat64(expected)
    [] operator = "length" -> LengthOf(actual) >= 0 /\ LengthOf(actual) = ToFloat64(expected)
    [] operator = "minLength" -> LengthOf(actual) >= 0 /\ LengthOf(actual) >= ToFloat64(expected)
    [] operator = "maxLength" -> LengthOf(actual) >= 0 /\ LengthOf(actual) =< ToFloat64(expected)
    [] operator = "isEmpty" -> LengthOf(actual) = 0
    [] operator = "oneOf" -> IsList(expected) /\ \E i \in DOMAIN expected[2] : Same(actual, expected[2][i])
    [] operator = "hasProperty" -> IsStr(expected) /\ HasKey(actual, expected[2])
    [] OTHER -> FALSE

Match(name, actual, expected) ==
  LET operator == CanonicalOperator(name)
  IN IF operator \in DOMAIN Negated THEN ~Holds(Negated[operator], actual, expected)
                                    ELSE Holds(operator, actual, expected)

-----------------------------------------------------------------------------
(* assertion.go *)

KnownHTTPKeys == {"status", "statusRange", "headers", "json", "body", "duration"}
StructuralKeys == {"path", "row", "column"}

Outcome(at, operator, passed) == [at |-> at, operator |-> operator, passed |-> passed]
Checked(at, operator, actual, expected) == Outcome(at, operator, Match(operator, actual, expected))

\* One outcome per operator; what is no operator fails, and was ignored once,
\* together with the operators and aliases that are newer.
ApplyOperators(at, actual, def, skip, modern) ==
  {IF IsOperator(key) THEN Checked(at, key, actual, def[2][key]) ELSE Outcome(at, key, FALSE) :
     key \in {k \in Keys(def) \ skip : modern \/ k \in LegacyOperators}}

LooksLikeOperatorMap(v) == IsMap(v) /\ Keys(v) # {} /\ \A k \in Keys(v) : IsOperator(k)

JsonRoot(data, modern) ==
  LET body == At(data, "body")
  IN IF IsMap(body) \/ (IsList(body) /\ modern) THEN body ELSE data

NoCell == [found |-> FALSE, value |-> Null]

Field(m, column) == IF HasKey(m, column) THEN [found |-> TRUE, value |-> m[2][column]] ELSE NoCell

\* The rows must be a []any; without rows the result is the one row itself.
ResolveCell(root, item) ==
  LET column == At(item, "column")
      row == IF HasKey(item, "row") THEN ToFloat64(At(item, "row")) ELSE 0
      rows == At(root, "rows")
  IN IF ~IsMap(root) \/ ~IsStr(column) THEN NoCell
     ELSE IF ~HasKey(root, "rows") THEN IF row = 0 THEN Field(root, column[2]) ELSE NoCell
     ELSE IF IsList(rows) /\ row + 1 \in DOMAIN rows[2]
          THEN Field(rows[2][row + 1], column[2]) ELSE NoCell

\* A path that is no text selects like an empty one.
PathOf(m) == IF IsStr(At(m, "path")) THEN At(m, "path")[2] ELSE ""

\* An item that has no path was dropped once, as every other item that is no map.
ItemOutcomes(data, item, modern) ==
  CASE ~IsMap(item) \/ (~HasKey(item, "path") /\ ~modern) -> {}
    [] HasKey(item, "column") /\ modern ->
         LET cell == ResolveCell(data, item)
             at == Sprint(At(item, "column"))
         IN IF cell.found THEN ApplyOperators(at, cell.value, item, StructuralKeys, modern)
                          ELSE {Outcome(at, "row/column", FALSE)}
    [] OTHER -> ApplyOperators(PathOf(item), EvalJSONPath(data, PathOf(item)), item, StructuralKeys, modern)

SliceOutcomes(data, items, modern) ==
  UNION {ItemOutcomes(data, items[2][i], modern) : i \in DOMAIN items[2]}

StatusOutcomes(actual, status) ==
  {IF IsList(status)
   THEN Outcome("status", "oneOf", \E i \in DOMAIN status[2] : Sprint(status[2][i]) = Sprint(actual))
   ELSE Checked("status", "equals", actual, status)}

RangeOutcomes(actual, range) ==
  {Outcome("statusRange", "statusRange",
     /\ IsList(range)
     /\ Len(range[2]) >= 2
     /\ ToFloat64(actual) \in ToFloat64(range[2][1])..ToFloat64(range[2][2]))}

Lower(name) == IF name \in DOMAIN Lowered THEN Lowered[name] ELSE name

HeaderLookup(headers, name) ==
  LET named == {k \in Keys(headers) : Lower(k) = Lower(name)}
  IN IF IsMap(headers) /\ named # {} THEN headers[2][CHOOSE k \in named : TRUE] ELSE Null

\* The keys of HTTP assertions; one that has not the shape expected is ignored.
HTTPOutcomes(data, def, key, modern) ==
  LET wanted == def[2][key]
  IN CASE key = "status" -> StatusOutcomes(At(data, "status"), wanted)
       [] key = "statusRange" -> RangeOutcomes(At(data, "status"), wanted)
       [] key = "headers" /\ IsMap(wanted) ->
            {Checked(name, "equals", HeaderLookup(At(data, "headers"), name), wanted[2][name]) :
               name \in Keys(wanted)}
       [] key = "json" /\ IsList(wanted) -> SliceOutcomes(JsonRoot(data, modern), wanted, modern)
       [] key = "body" /\ IsMap(wanted) ->
            {Checked("body", op, Str(Sprint(At(data, "body"))), wanted[2][op]) : op \in Keys(wanted)}
       [] key = "duration" /\ IsMap(wanted) ->
            {Checked("duration", op, At(data, "duration"), wanted[2][op]) : op \in Keys(wanted)}
       [] OTHER -> {}

\* Any other key is an operator on the whole result, or names a field of it; a
\* field was dropped once, and the step passed without the check.
FieldOutcomes(data, def, key, modern) ==
  LET wanted == def[2][key]
      actual == EvalJSONPath(data, key)
  IN IF IsOperator(key) /\ (modern \/ key \in LegacyOperators) THEN {Checked("$", key, data, wanted)}
     ELSE IF ~modern THEN {}
     ELSE IF LooksLikeOperatorMap(wanted) THEN ApplyOperators(key, actual, wanted, {}, modern)
     ELSE {Checked(key, "equals", actual, wanted)}

MapOutcomes(data, def, modern) ==
  (UNION {HTTPOutcomes(data, def, key, modern) : key \in Keys(def) \cap KnownHTTPKeys})
    \cup IF HasKey(def, "path")
         THEN ApplyOperators(PathOf(def), EvalJSONPath(data, PathOf(def)), def, StructuralKeys, modern)
         ELSE UNION {FieldOutcomes(data, def, key, modern) : key \in Keys(def) \ KnownHTTPKeys}

RunAssertions(data, def, modern) ==
  CASE IsMap(def) -> MapOutcomes(data, def, modern)
    [] IsList(def) -> SliceOutcomes(data, def, modern)
    [] OTHER -> {}

Passes(outcomes) == \A o \in outcomes : o.passed
-----------------------------------------------------------------------------
(* Single checks *)

\* An item of a list selects a value and applies at least one operator to it.
ItemDocumented(item) == IsMap(item) /\ Keys(item) \ StructuralKeys # {}

ListDocumented(items) == IsList(items) /\ \A i \in DOMAIN items[2] : ItemDocumented(items[2][i])

\* The shape that the documentation gives to a definition: a list of items, or a
\* map in which some keys have a value of a shape of its own.
Documented(def) ==
  \/ ListDocumented(def)
  \/ /\ IsMap(def)
     /\ \A key \in Keys(def) \cap {"headers", "body", "duration"} :
          IsMap(def[2][key]) /\ Keys(def[2][key]) # {}
     /\ HasKey(def, "json") => ListDocumented(def[2]["json"]) /\ DOMAIN def[2]["json"][2] # {}
     /\ HasKey(def, "path") => Keys(def) \cap StructuralKeys = {"path"}

\* Single checks: an entry of a map alone, an operator of an item alone with what
\* selects its value, a key of a definition alone with its path.
Only(m, keys) == Map([k \in keys |-> m[2][k]])

SingleEntries(m) == {Only(m, {k}) : k \in Keys(m)}

SingleOperators(items) ==
  {List(<<Only(items[2][x[1]], {x[2]} \cup (Keys(items[2][x[1]]) \cap StructuralKeys))>>) :
     x \in UNION {{i} \X (Keys(items[2][i]) \ StructuralKeys) : i \in DOMAIN items[2]}}

SingleValues(key, wanted) ==
  CASE key \in {"headers", "body", "duration"} -> SingleEntries(wanted)
    [] key = "json" -> SingleOperators(wanted)
    [] key \notin KnownHTTPKeys /\ ~IsOperator(key) /\ LooksLikeOperatorMap(wanted) -> SingleEntries(wanted)
    [] OTHER -> {wanted}

With(def, key, value) ==
  Map([k \in {key} \cup (Keys(def) \cap {"path"}) |-> IF k = key THEN value ELSE def[2][k]])

SingleChecks(def) ==
  IF IsList(def) THEN SingleOperators(def)
  ELSE UNION {{With(def, key, value) : value \in SingleValues(key, def[2][key])} :
                key \in Keys(def) \ {"path"}}

\* Each has an outcome, among those of the whole definition.
EveryCheckEvaluated(data, def) ==
  \A check \in SingleChecks(def) :
    LET outcomes == RunAssertions(data, check, TRUE)
    IN outcomes # {} /\ outcomes \subseteq RunAssertions(data, def, TRUE)
=============================================================================
