----------------------------- MODULE MCMigration -----------------------------
(***************************************************************************)
(* Two files, over samples of every kind of step that the rules name and   *)
(* of some that they do not, and an apply or an unpin after another.       *)
(***************************************************************************)
EXTENDS MigrationCases

MCFiles == {1, 2}

MCPaths ==
  ("$.exitCode" :> <<Str("exitCode")>>) @@ ("$.stdout" :> <<Str("stdout")>>)
  @@ ("$[0].id" :> <<Integer(0), Str("id")>>) @@ ("$.json.total" :> <<Str("json"), Str("total")>>)
  @@ ("$.email" :> <<Str("email")>>) @@ ("$.document.email" :> <<Str("document"), Str("email")>>)
  @@ ("$.rows[0].email" :> <<Str("rows"), Integer(0), Str("email")>>)
  @@ ("$.count" :> <<Str("count")>>) @@ ("$.status" :> <<Str("status")>>) @@ ("$" :> << >>) @@ ("$.found" :> <<Str("found")>>)
  @@ ("$.headers.Accept" :> <<Str("headers"), Str("Accept")>>)

MCParsed == [n \in {"5"} |-> 5]
MCLowered == [n \in {"Accept"} |-> "accept"]
MCTextTest(test, text, part) ==
  \/ text = part
  \/ <<test, text, part>> \in {<<"contains", "ok then", "ok">>, <<"startsWith", "ok then", "ok">>,
                               <<"matches", "ok then", "^ok">>, <<"endsWith", "ok then", "then">>}

MCSole == {"{{captured.total}}", "{{$file('out')}}", "{{$json(captured.out)}}"}
MCQuoted == {"job {{$date('x')}}", "{{$file('out')}}"}
MCAggregates == {"SELECT COUNT(*) FROM t"}
MCArrayRoots == {"$", "$[0].id"}
MCExprs ==
  ("{{captured.total}}" :> [now |-> Integer(5), before |-> Str("5")])
  @@ ("job {{$date('x')}}" :> [now |-> Str("job x"), before |-> Str("job 'x'")])
  @@ ("{{$file('out')}}" :> [now |-> Str("ok then"), before |-> Error])
  @@ ("{{$json(captured.out)}}" :> [now |-> Error, before |-> Error])
MCPolicy == [deny |-> {"job 'x'"}, allow |-> {}, defaultTimeout |-> 0]
MCBaseURL == "http://host"
MCAbsolute == {}

-----------------------------------------------------------------------------
One(k, v) == Map([x \in {k} |-> v])
At2(path, operator, value) == Map([x \in {"path", operator} |-> IF x = "path" THEN Str(path) ELSE value])
Cell(row, column, value) == Map([row |-> Integer(row), column |-> Str(column), equals |-> value])

Step(adapter, action, fields) == Map([adapter |-> Str(adapter), action |-> Str(action)] @@ fields)
ShellStep(fields) == Step("shell", "exec", fields @@ [command |-> Str("job")])
HttpStep(fields) == Step("http", "request", fields @@ [url |-> Str("/x")])
PgStep(action, sql, def) == Step("postgresql", action, [sql |-> Str(sql), assert |-> def])
MongoStep(action, fields) == Step("mongodb", action, fields @@ [collection |-> Str("c")])

Exits(n, ms) == [stdout |-> "ok then", stderr |-> "", exit |-> n, ms |-> ms]
Responds(status, body, ms) ==
  [echo |-> FALSE, status |-> status, headers |-> [h \in {"Accept"} |-> Str("any")], json |-> ~IsStr(body),
   body |-> body, ms |-> ms]
Echoes == [Responds(200, Empty, 10) EXCEPT !.echo = TRUE]
Answers(rows) == [rows |-> rows, ms |-> 10]
Docs(docs) == [docs |-> docs, ids |-> <<Str("i1"), Str("i2")>>, modified |-> 1, ms |-> 10]

ArrayBody == List(<<Map([id |-> Integer(1)])>>)
ObjectBody == Map([id |-> Integer(1), status |-> Integer(201)])
User == [email |-> Str("e"), n |-> Integer(5)]

Cases(step, answers) == {[step |-> step, answer |-> a] : a \in answers}
ShellCases(fields) == Cases(ShellStep(fields), {Exits(0, 10), Exits(1, 10), Exits(0, 70000)})
HttpCases(fields) ==
  Cases(HttpStep(fields), {Responds(200, ArrayBody, 10), Responds(500, ObjectBody, 10),
                           Responds(200, Str("ok then"), 10), Responds(200, ObjectBody, 40000), Echoes})
PgCases(action, sql, def) ==
  Cases(PgStep(action, sql, def), {Answers(<< >>), Answers(<<[count |-> Integer(3)]>>), Answers(<<User, User>>)})
MongoCases(action, fields) ==
  Cases(MongoStep(action, fields), {Docs(<< >>), Docs(<<Map(User)>>)})

MCContents ==
  [plain |-> HttpCases([assert |-> Map([status |-> List(<<Integer(200), Integer(201)>>),
                                        headers |-> One("accept", Str("any")),
                                        body |-> One("contains", Str("ok")),
                                        duration |-> One("lessThan", Integer(1000)),
                                        statusRange |-> List(<<Integer(200), Integer(299)>>)])]),
   unbounded |-> ShellCases([x \in {} |-> Null]),
   bounded |-> ShellCases([timeout |-> Integer(5000), continueOnError |-> Bool(TRUE)]),
   skipped |-> ShellCases([skip |-> Bool(TRUE), capture |-> One("out", Str("$.stdout"))]),
   quoted |-> ShellCases([command |-> Str("job {{$date('x')}}")]),
   failing |-> ShellCases([command |-> Str("{{$json(captured.out)}}"), continueOnError |-> Bool(TRUE)]),
   unchecked |-> ShellCases([assert |-> List(<<At2("$.exitCode", "equals", Integer(0)),
                                               At2("$.stdout", "equals", Str("{{$json(captured.out)}}"))>>)]),
   unread |-> ShellCases([assert |-> List(<<At2("$.stdout", "equals", Str("{{$file('out')}}"))>>)]),
   exitCode |-> ShellCases([assert |-> One("exitCode", Integer(0))]),
   stdout |-> ShellCases([assert |-> One("stdout", Map([contains |-> Str("ok"), notEmpty |-> Bool(TRUE)]))]),
   operator |-> ShellCases([assert |-> List(<<At2("$.stdout", "startsWith", Str("ok")),
                                              At2("$.exitCode", "oneOf", List(<<Integer(0)>>))>>)]),
   wholeResult |-> ShellCases([assert |-> One("hasProperty", Str("stdout"))]),
   typo |-> ShellCases([assert |-> List(<<At2("$.stdout", "equal", Str("ok"))>>)]),
   pathless |-> ShellCases([assert |-> List(<<One("equals", Integer(0))>>)]),
   arrayBody |-> HttpCases([assert |-> One("json", List(<<At2("$[0].id", "equals", Integer(1))>>))]),
   mixed |-> HttpCases([assert |-> Map([path |-> Str("$.status"), equals |-> Integer(200), status |-> Integer(200)])]),
   envelope |-> HttpCases([assert |-> One("json", List(<<At2("status", "equals", Integer(200))>>))]),
   captures |-> HttpCases([capture |-> List(<<Map([name |-> Str("id"), from |-> Str("$[0].id")])>>)]),
   typed |-> HttpCases([method |-> Str("POST"), body |-> One("total", Str("{{captured.total}}")),
                        assert |-> One("json", List(<<At2("$.json.total", "equals", Integer(5))>>))]),
   uploads |-> HttpCases([method |-> Str("POST"),
                          multipart |-> List(<<Map([name |-> Str("f"), value |-> Integer(1)])>>),
                          headers |-> One("Content-Type", Str("text/plain")), query |-> One("n", Integer(1))]),
   aggregate |-> PgCases("count", "SELECT COUNT(*) FROM t", One("count", Integer(3))),
   plainCount |-> PgCases("count", "SELECT id FROM t", List(<<At2("$.count", "equals", Integer(1))>>)),
   execute |-> PgCases("execute", "DELETE FROM t", One("rowsAffected", One("gte", Integer(1)))),
   firstRow |-> PgCases("queryOne", "SELECT * FROM t", One("email", Str("e"))),
   cells |-> PgCases("query", "SELECT * FROM t", List(<<Cell(1, "email", Str("e"))>>)),
   total |-> Cases(PgStep("queryOne", "SELECT * FROM t", Map([total |-> One("gte", Integer(3)), day |-> Str("d")])),
                   {Answers(<<[total |-> Opaque(3), day |-> Date("d")]>>)}),
   rowPath |-> PgCases("query", "SELECT * FROM t", List(<<At2("$.rows[0].email", "equals", Str("e"))>>)),
   findOne |-> MongoCases("findOne", [allowEmpty |-> Bool(TRUE),
                                      assert |-> List(<<At2("$.email", "exists", Bool(TRUE))>>)]),
   findDocument |-> MongoCases("findOne", [assert |-> List(<<At2("$.document.email", "equals", Str("e"))>>)]),
   filter |-> MongoCases("find", [filter |-> One("n", Str("{{captured.total}}")),
                                  assert |-> List(<<At2("$.count", "equals", Integer(1))>>)]),
   insert |-> MongoCases("insertOne", [document |-> One("n", Str("{{captured.total}}"))])
              \cup MongoCases("insertMany", [documents |-> List(<<Empty>>)]),
   update |-> MongoCases("updateOne", [update |-> Empty, assert |-> One("modifiedCount", Integer(1))])
              \cup MongoCases("deleteOne", [filter |-> One("n", Integer(5))])
              \cup MongoCases("count", [x \in {} |-> Null])
              \cup MongoCases("aggregate", [pipeline |-> List(<<Empty>>)])]

Declared(version, override) == [version |-> version, override |-> override]
NoAreas == [a \in {} |-> "v1"]

MCConfigs == {Undeclared, Declared("v1", NoAreas), Declared("v2", NoAreas), Declared("unknown", NoAreas),
              Declared("v1", [assertions |-> "v2"])}
MCOwns == {Undeclared, Declared("v1", NoAreas), Declared("null", NoAreas),
           Declared("absent", [execution |-> "v2"])}
MCAreaSets == {{}, {"assertions"}, {"interpolation", "execution"}}

\* The second file is one of two, and has no declaration at first.
MCInit == Init /\ content[2] \in {"plain", "operator"} /\ own[2] = Undeclared
MCSpec == MCInit /\ [][Next]_vars
=============================================================================
