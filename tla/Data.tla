-------------------------------- MODULE Data --------------------------------
(***************************************************************************)
(* Decoded values: what a YAML or JSON decoder of the program yields, the  *)
(* `any' of its signatures.  A value is a tuple that begins with its kind. *)
(* A whole number is an "int" when YAML has decoded it and a "float" when  *)
(* JSON has; %v prints both alike.                                         *)
(***************************************************************************)
EXTENDS Integers, Sequences, TLC

Null == <<"null">>
Str(s) == <<"string", s>>
Bool(b) == <<"boolean", b>>
Integer(n) == <<"int", n>>
Float(n) == <<"float", n>>
Map(f) == <<"map", f>>
List(s) == <<"list", s>>
Rows(s) == <<"rows", s>>        \* a Go slice of maps, which is no []any
Opaque(n) == <<"opaque", n>>    \* a value of a driver, of a type of its own
Date(s) == <<"date", s>>        \* a date as a driver has it

IsMap(v) == v[1] = "map"
IsList(v) == v[1] = "list"
IsSlice(v) == v[1] \in {"list", "rows"}
IsStr(v) == v[1] = "string"
IsNumber(v) == v[1] \in {"int", "float"}

NoKeys == [k \in {} |-> Null]
Empty == Map(NoKeys)
Keys(m) == DOMAIN m[2]
HasKey(m, k) == IsMap(m) /\ k \in Keys(m)

\* m[k] in Go: the zero value, nil, when the key is absent.
At(m, k) == IF HasKey(m, k) THEN m[2][k] ELSE Null
=============================================================================
