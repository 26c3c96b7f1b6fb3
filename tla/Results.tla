------------------------------- MODULE Results -------------------------------
(***************************************************************************)
(* What the adapters of single services make of the parameters of a step   *)
(* and of the answer of their service (internal/adapter: shell.go,         *)
(* http.go, postgresql.go, mongodb.go), at either level of the adapters    *)
(* area.  Parameters are a Map of Data; the answer is a record of the      *)
(* service's own, with the time `ms' it takes.  A result is data or, when  *)
(* ok is FALSE, an error of the adapter.                                   *)
(***************************************************************************)
EXTENDS DeepData, FiniteSetsExt

CONSTANTS
  Policy,    \* of the shell: [deny, allow] are sets of commands, defaultTimeout a number
  BaseURL,   \* of http
  Absolute   \* the URLs that carry a scheme

Failed == [ok |-> FALSE, data |-> Empty]
Succeeded(fields) == [ok |-> TRUE, data |-> Map(fields)]

NoBound == 1000000000

TextParam(params, key, default) == IF IsStr(At(params, key)) THEN At(params, key)[2] ELSE default
IntParam(params, key, default) == IF IsNumber(At(params, key)) THEN At(params, key)[2] ELSE default
BoolParam(params, key) == At(params, key) = Bool(TRUE)

-----------------------------------------------------------------------------
(* Shell *)

\* Deny comes first; with an allow list, what it does not permit is refused.
Permitted(line) ==
  line \notin Policy.deny /\ (Policy.allow # {} => line \in Policy.allow)

\* No timeout of any kind was applied once.
ShellBound(params, modern) ==
  LET timeout == IntParam(params, "timeout", Policy.defaultTimeout)
  IN IF ~modern THEN NoBound
     ELSE IF timeout <= 0 THEN 60000 ELSE timeout

\* A non-zero exit is no error of the adapter.
Shell(action, params, answer, deadline, modern) ==
  IF /\ action = "exec"
     /\ IsStr(At(params, "command"))
     /\ Permitted(At(params, "command")[2])
     /\ answer.ms < Min({deadline, ShellBound(params, modern)})
  THEN Succeeded([stdout |-> Str(answer.stdout), stderr |-> Str(answer.stderr),
                  exitCode |-> Float(answer.exit)])
  ELSE Failed

-----------------------------------------------------------------------------
(* HTTP *)

\* A field of a multipart body has a name, and either a file or a value.
FieldAccepted(field) ==
  /\ IsMap(field)
  /\ TextParam(field, "name", "") # ""
  /\ (TextParam(field, "file", "") # "") # HasKey(field, "value")

MultipartAccepted(spec) ==
  IsList(spec) /\ spec[2] # << >> /\ \A i \in DOMAIN spec[2] : FieldAccepted(spec[2][i])

RequestAccepted(params) ==
  /\ TextParam(params, "url", "") # ""
  /\ HasKey(params, "multipart") => ~HasKey(params, "body") /\ MultipartAccepted(At(params, "multipart"))

\* The request that is sent, as a server sees it.  A GET or HEAD carries no body,
\* whatever is given, and a header of the step overrides the type of a JSON body
\* but not of a multipart one.
Request(params) ==
  LET url == At(params, "url")[2]
      method == TextParam(params, "method", "GET")
      Texts(key) == IF IsMap(At(params, key))
                    THEN [k \in Keys(At(params, key)) |-> Str(AsString(At(params, key)[2][k]))]
                    ELSE NoKeys
      isMultipart == HasKey(params, "multipart")
      sent == IF isMultipart THEN ThroughJSON(At(params, "multipart"))
              ELSE IF method \in {"GET", "HEAD"} THEN Null
              ELSE ThroughJSON(At(params, "body"))
      ours == IF sent = Null THEN NoKeys
              ELSE [k \in {"Content-Type"} |->
                      Str(IF isMultipart THEN "multipart/form-data" ELSE "application/json")]
  IN [method |-> Str(method),
      url |-> Str(IF url \in Absolute THEN url ELSE BaseURL \o url),
      query |-> Map(Texts("query")),
      json |-> sent,
      headers |-> Map(IF isMultipart THEN ours @@ Texts("headers") ELSE Texts("headers") @@ ours)]

\* Thirty seconds were the limit of every request; now they are only that of one
\* without any deadline, and the timeout of the step counts only then.
RequestBound(params, deadline, modern) ==
  IF ~modern THEN Min({30000, deadline})
  ELSE IF deadline = NoBound THEN IntParam(params, "timeout", 30000)
  ELSE deadline

\* The server answers with a body of its own or, when it echoes, with the request,
\* whose body is then under `json'.
\* A body that says it is JSON and is not stays text.
Http(action, params, answer, deadline, modern) ==
  LET body == IF answer.echo THEN Map(Request(params)) ELSE answer.body
  IN IF /\ action = "request"
        /\ RequestAccepted(params)
        /\ answer.ms < RequestBound(params, deadline, modern)
     THEN Succeeded([status |-> Float(answer.status),
                     statusText |-> Str(ToString(answer.status)),
                     headers |-> Map(answer.headers),
                     body |-> IF answer.json THEN ThroughJSON(body) ELSE Str(AsString(body)),
                     duration |-> Float(answer.ms)])
     ELSE Failed

-----------------------------------------------------------------------------
(* PostgreSQL: the driver answers with rows, functions from columns to values. *)

\* NUMERIC is a struct of the driver, and was left as it is once; a DATE was
\* rendered with a time.
NormalizeColumn(v, modern) ==
  CASE v[1] = "opaque" -> IF modern THEN Float(v[2]) ELSE v
    [] v[1] = "date" -> Str(IF modern THEN v[2] ELSE v[2] \o "T00:00:00Z")
    [] OTHER -> v

FetchRows(answer, modern) ==
  [i \in DOMAIN answer.rows |-> Map([c \in DOMAIN answer.rows[i] |-> NormalizeColumn(answer.rows[i][c], modern)])]

\* One row of one number is a count; anything else counts as rows.
ScalarCount(rows) ==
  LET row == IF rows = << >> THEN Empty ELSE rows[1]
      values == {row[2][c] : c \in Keys(row)}
  IN IF Len(rows) = 1 /\ Cardinality(Keys(row)) = 1 /\ \A v \in values : IsNumber(v)
     THEN (CHOOSE v \in values : TRUE)[2] ELSE Len(rows)

FirstRow(rows, params, modern) ==
  IF rows # << >>
  THEN Succeeded(IF modern THEN rows[1][2] @@ [found |-> Bool(TRUE)] ELSE rows[1][2])
  ELSE IF BoolParam(params, "allowEmpty") THEN Succeeded([found |-> Bool(FALSE)])
  ELSE Failed

\* A result has its rows as a slice of maps, which is what the driver layer made.
Postgresql(action, params, answer, deadline, modern) ==
  LET rows == FetchRows(answer, modern)
      counted == [rows |-> Rows(rows), rowCount |-> Float(Len(rows))]
  IN IF TextParam(params, "sql", "") = "" \/ answer.ms >= deadline THEN Failed
     ELSE CASE action = "execute" -> Succeeded([rowsAffected |-> Float(Len(rows))])
          [] action = "query" -> Succeeded(counted)
          [] action = "queryOne" -> FirstRow(rows, params, modern)
          [] action = "count" ->
               Succeeded(counted @@ [count |-> Float(IF modern THEN ScalarCount(rows) ELSE Len(rows))])
          [] OTHER -> Failed

-----------------------------------------------------------------------------
(* MongoDB: a collection holds documents, and the driver gives ids to new ones. *)

\* A filter that is no map is empty.  The server compares with types: the text of
\* a number is not that number.
FilterParam(params) == IF IsMap(At(params, "filter")) THEN At(params, "filter") ELSE Empty

Matching(docs, filter) ==
  SelectSeq(docs, LAMBDA doc : \A k \in Keys(filter) : At(ThroughJSON(doc), k) = At(ThroughJSON(filter), k))

Document(docs, params, modern) ==
  IF docs # << >>
  THEN Succeeded(IF modern THEN docs[1][2] @@ [document |-> docs[1], found |-> Bool(TRUE)]
                           ELSE [document |-> docs[1]])
  ELSE IF BoolParam(params, "allowEmpty") THEN Succeeded([found |-> Bool(FALSE)])
  ELSE Failed

\* What an action requires beside the collection.
Required(action) ==
  CASE action = "insertOne" -> {"document"}
    [] action = "insertMany" -> {"documents"}
    [] action \in {"updateOne", "updateMany"} -> {"update"}
    [] action = "aggregate" -> {"pipeline"}
    [] OTHER -> {}

Mongodb(action, params, answer, deadline, modern) ==
  LET docs == Matching(answer.docs, FilterParam(params))
      n == IF action \in {"updateOne", "deleteOne"} THEN Min({1, Len(docs)}) ELSE Len(docs)
  IN IF \/ ~IsStr(At(params, "collection"))
        \/ \E key \in Required(action) : At(params, key) = Null
        \/ \E key \in Required(action) \cap {"documents", "pipeline"} : ~IsSlice(At(params, key))
        \/ answer.ms >= deadline
     THEN Failed
     ELSE CASE action = "insertOne" -> Succeeded([insertedId |-> answer.ids[1]])
          [] action = "insertMany" -> Succeeded([insertedIds |-> List(answer.ids)])
          [] action = "findOne" -> Document(docs, params, modern)
          [] action = "find" -> Succeeded([documents |-> Rows(docs), count |-> Float(n)])
          [] action \in {"updateOne", "updateMany"} ->
               Succeeded([matchedCount |-> Float(n), modifiedCount |-> Float(answer.modified)])
          [] action \in {"deleteOne", "deleteMany"} -> Succeeded([deletedCount |-> Float(n)])
          [] action = "count" -> Succeeded([count |-> Float(n)])
          [] action = "aggregate" -> Succeeded([documents |-> Rows(answer.docs)])
          [] OTHER -> Failed

Result(adapter, action, params, answer, deadline, modern) ==
  CASE adapter = "shell" -> Shell(action, params, answer, deadline, modern)
    [] adapter = "http" -> Http(action, params, answer, deadline, modern)
    [] adapter = "postgresql" -> Postgresql(action, params, answer, deadline, modern)
    [] adapter = "mongodb" -> Mongodb(action, params, answer, deadline, modern)
    [] OTHER -> Failed
=============================================================================
