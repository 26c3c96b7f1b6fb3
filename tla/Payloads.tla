------------------------------ MODULE Payloads ------------------------------
(***************************************************************************)
(* What the messaging adapters make of the parameters of a step and of the *)
(* messages they read (internal/adapter: kafka.go, eventhub.go and         *)
(* matchCriteria of adapter.go).  Parameters are a Map of Data.            *)
(*                                                                         *)
(* A message is kept as its readers decode it.  The brokers keep the bytes *)
(* as they are, so encoding and decoding are one operator, WrittenValue.   *)
(***************************************************************************)
EXTENDS DeepData

CONSTANTS
  Dotted,   \* the segments of each dotted name a filter uses
  Spelled   \* the value of each string that is itself a JSON text

Segments(name) == IF name \in DOMAIN Dotted THEN Dotted[name] ELSE <<Str(name)>>

TextParam(params, key) == IF IsStr(At(params, key)) THEN At(params, key)[2] ELSE ""

\* encodeValue, then json.Unmarshal with the raw text as the fallback.
WrittenValue(v) ==
  CASE v = Null -> Str("")
    [] IsStr(v) -> IF v[2] \in DOMAIN Spelled THEN Spelled[v[2]] ELSE v
    [] OTHER -> ThroughJSON(v)

\* `filter', or its old spelling `match'; no map at all and an empty one are alike.
MatchCriteria(params) ==
  LET given == SelectSeq(<<At(params, "filter"), At(params, "match")>>,
                         LAMBDA m : IsMap(m) /\ Keys(m) # {})
  IN IF given = << >> THEN Empty ELSE Head(given)

-----------------------------------------------------------------------------
(* Kafka *)

\* The definitions of the messages to produce; none when the parameters are refused.
ProduceSpecs(params) ==
  LET messages == At(params, "messages")
      message == At(params, "message")
  IN CASE messages # Null ->
            IF IsList(messages) /\ \A i \in DOMAIN messages[2] : IsMap(messages[2][i])
            THEN messages[2] ELSE << >>
       [] messages = Null /\ message # Null -> IF IsMap(message) THEN <<message>> ELSE << >>
       [] OTHER -> IF HasKey(params, "value") THEN <<params>> ELSE << >>

\* Header values are written as text; headers that are no map are ignored.
BuildMessage(spec) ==
  [key |-> Str(TextParam(spec, "key")),
   value |-> WrittenValue(At(spec, "value")),
   headers |-> LET headers == At(spec, "headers")
               IN IF IsMap(headers) THEN Map([h \in Keys(headers) |-> Str(Text(headers[2][h])[2])])
                                    ELSE Empty]

\* The messages a produce step writes: one definition without a value refuses
\* the whole batch, before anything is written.
MessagesOf(step) ==
  LET specs == ProduceSpecs(step.params)
  IN IF \A i \in DOMAIN specs : HasKey(specs[i], "value")
     THEN [i \in DOMAIN specs |-> BuildMessage(specs[i])] ELSE << >>

\* The parameters are checked before a client is opened.
KafkaAccepts(step) ==
  /\ step.action \in {"produce", "consume", "waitFor", "clear"}
  /\ TextParam(step.params, "topic") # ""
  /\ step.action = "produce" => MessagesOf(step) # << >>
  /\ step.action = "waitFor" => Keys(MatchCriteria(step.params)) # {}

\* The envelope of a message.  Its topic and place in the partition are left out.
MessageToData(msg) == Map([key |-> msg.key, value |-> msg.value, headers |-> msg.headers])

\* Each entry of the filter names a field of the body or else of the envelope,
\* and agrees with it in text.
MessageMatches(msg, match) ==
  \A name \in Keys(match) :
    LET inBody == LookupDotted(msg.value, Segments(name))
        got == IF inBody.found THEN inBody ELSE LookupDotted(MessageToData(msg), Segments(name))
    IN got.found /\ Text(got.value) = Text(match[2][name])

MessageWanted(step, msg) == MessageMatches(msg, MatchCriteria(step.params))

-----------------------------------------------------------------------------
(* Event Hubs *)

ResolveHubName(params, fallback) ==
  LET given == SelectSeq(<<TextParam(params, "topic"), TextParam(params, "eventHubName")>>,
                         LAMBDA name : name # "")
  IN IF given = << >> THEN fallback ELSE Head(given)

\* One event is published, of `body' and `properties'; the `message' and
\* `messages' of the documentation are not looked at.
EventOf(step) ==
  [body |-> WrittenValue(At(step.params, "body")),
   properties |-> IF IsMap(At(step.params, "properties")) THEN At(step.params, "properties") ELSE Empty]

\* Top-level fields of the body over the properties.  A filter that is empty, or
\* missing, matches every event.
EventMatchesMap(event, criteria) ==
  LET body == IF IsMap(event.body) THEN event.body[2] ELSE NoKeys
      lookup == Map(body @@ event.properties[2])
  IN \A name \in Keys(criteria) :
       HasKey(lookup, name) /\ Text(lookup[2][name]) = Text(criteria[2][name])

EventWanted(step, event) == EventMatchesMap(event, MatchCriteria(step.params))
=============================================================================
