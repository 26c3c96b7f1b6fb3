---------------------------- MODULE MCMessaging ----------------------------
(***************************************************************************)
(* Two goroutines over a Kafka topic, with a consumer group or without     *)
(* one, or over two event hubs of two partitions, of which each may hold   *)
(* an event of an earlier run: which, the initial state chooses.           *)
(***************************************************************************)
EXTENDS KafkaAdapter, EventHubAdapter, Data

VARIABLE service

P == INSTANCE Payloads WITH
       Dotted <- ("data.id" :> <<Str("data"), Str("id")>>), Spelled <- ("1" :> Float(1))

Params(action, params) == [action |-> action, params |-> Map(params)]

Created == Map([type |-> Str("created"), data |-> Map([id |-> Integer(1)])])

KafkaSteps == {
  Params("produce", [topic |-> Str("t"),
    messages |-> List(<<Map([value |-> Created]),
                        Map([value |-> Str("1"), headers |-> Map([id |-> Integer(7)])])>>)]),
  Params("consume", [topic |-> Str("t")]),
  Params("waitFor", [topic |-> Str("t"), filter |-> Map("data.id" :> Integer(1))]),
  Params("waitFor", [topic |-> Str("t"), filter |-> Empty]),
  Params("clear", [topic |-> Str("t")]),
  Params("clear", NoKeys)}

HubSteps == {
  Params("publish", [body |-> Created, properties |-> Map([id |-> Str("p")])]),
  Params("publish", [eventHubName |-> Str("t"), body |-> Str("1")]),
  Params("consume", NoKeys),
  Params("waitFor", [match |-> Map([type |-> Str("created")])]),
  Params("waitFor", [eventHubName |-> Str("t"), filter |-> Empty]),
  Params("clear", NoKeys)}

MCSteps == KafkaSteps \cup HubSteps
MCWanted(s, m) == IF s \in HubSteps THEN P!EventWanted(s, m) ELSE P!MessageWanted(s, m)

MCAccepts(s) == P!KafkaAccepts(s)
MCBatch(s) == P!MessagesOf(s)

MCHub == {"own", "t"}
MCPartition == {0, 1}
MCHubOf(s) == P!ResolveHubName(s.params, "own")
MCPartitionOf(s) == 0
MCEventFor(s) == P!EventOf(s)
MCNothing == {<< >>}
MCBefore == {<< >>, <<MCEventFor(Params("publish", [body |-> Created]))>>}

-----------------------------------------------------------------------------
\* The calls of event hubs: two, of any steps, and a third that publishes while
\* another goroutine receives for a waitFor.
HubCalls == 3
ThirdPublishes ==
  calls = 2 /\ calls' = 3 =>
    \E p \in Proc : /\ at[p] = "receiving" /\ step[p].action = "waitFor"
                   /\ \A q \in Proc \ {p} : step'[q].action = "publish"

Grouped == INSTANCE KafkaAdapter WITH Step <- KafkaSteps, Group <- TRUE
Plain == INSTANCE KafkaAdapter WITH Step <- KafkaSteps, Group <- FALSE
Hubs == INSTANCE EventHubAdapter WITH Step <- HubSteps, MaxCalls <- HubCalls

kafkaVars == <<topic, committed, assigned, seen, tracked, client, next, passed, answer>>
hubVars == <<events, producer, sender, receiver, todo, from, result, over>>
vars == <<kvars, hvars, service>>

\* Events of an earlier run are of interest to event hubs only.
MCInit ==
  /\ KInit /\ HInit
  /\ service \in {"grouped", "plain", "hubs"}
  /\ service # "hubs" => events = [h \in Hub |-> [q \in Partition |-> << >>]]

WithGroup(A) == service = "grouped" /\ A /\ UNCHANGED <<hubVars, service>>
Without(A) == service = "plain" /\ A /\ UNCHANGED <<hubVars, service>>
WithHubs(A) == service = "hubs" /\ A /\ ThirdPublishes /\ UNCHANGED <<kafkaVars, service>>

MCNext == WithGroup(Grouped!KNext) \/ Without(Plain!KNext) \/ WithHubs(Hubs!HNext)

MCFairness ==
  \A p \in Proc :
    /\ WF_vars(WithGroup(Grouped!CallStep(p)))
    /\ WF_vars(WithGroup(Grouped!Expire(p)))
    /\ SF_vars(WithGroup(Grouped!ReadFails(p)))
    /\ WF_vars(Without(Plain!CallStep(p)))
    /\ WF_vars(Without(Plain!Expire(p)))
    /\ WF_vars(WithHubs(Hubs!HubStep(p)))
    /\ WF_vars(WithHubs(Hubs!TimeoutPasses(p)))

MCSpec == MCInit /\ [][MCNext]_vars /\ MCFairness
=============================================================================
