------------------------------ MODULE DeepData ------------------------------
(***************************************************************************)
(* What the program does to a decoded value with all that is in it: its    *)
(* text, its way through JSON, and the value at the end of a path.         *)
(***************************************************************************)
EXTENDS Data

\* fmt.Sprintf("%v", v).  The text of a map or list is kept apart from that of
\* a string.
RECURSIVE Text(_)
Text(v) ==
  CASE v[1] = "null" -> <<"text", "<nil>">>
    [] v[1] = "string" -> <<"text", v[2]>>
    [] v[1] = "boolean" -> <<"text", IF v[2] THEN "true" ELSE "false">>
    [] IsNumber(v) -> <<"text", ToString(v[2])>>
    [] v[1] = "opaque" -> <<"struct", v[2]>>
    [] IsMap(v) -> <<"map", [k \in Keys(v) |-> Text(v[2][k])]>>
    [] IsSlice(v) -> <<"list", [i \in DOMAIN v[2] |-> Text(v[2][i])]>>

\* The same, as a string.
AsString(v) == IF Text(v)[1] = "text" THEN Text(v)[2] ELSE ToString(Text(v))

\* What json.Unmarshal makes of the JSON that json.Marshal makes of v: whole
\* numbers come back as floats.
RECURSIVE ThroughJSON(_)
ThroughJSON(v) ==
  CASE v[1] = "int" -> Float(v[2])
    [] IsMap(v) -> Map([k \in Keys(v) |-> ThroughJSON(v[2][k])])
    [] IsSlice(v) -> List([i \in DOMAIN v[2] |-> ThroughJSON(v[2][i])])
    [] OTHER -> v

\* A dotted path is the sequence of its segments, as Data values: a name, or
\* the number of an element.
RECURSIVE LookupDotted(_, _)
LookupDotted(root, path) ==
  IF path = << >> THEN [found |-> TRUE, value |-> root]
  ELSE LET seg == Head(path)
       IN IF IsStr(seg) /\ HasKey(root, seg[2])
          THEN LookupDotted(root[2][seg[2]], Tail(path))
          ELSE IF IsList(root) /\ seg[1] = "int" /\ seg[2] + 1 \in DOMAIN root[2]
          THEN LookupDotted(root[2][seg[2] + 1], Tail(path))
          ELSE [found |-> FALSE, value |-> Null]
=============================================================================
