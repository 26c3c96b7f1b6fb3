---------------------------- MODULE KafkaAdapter ----------------------------
(***************************************************************************)
(* The Kafka adapter (internal/adapter/kafka.go) under the goroutines of   *)
(* parallel tests.  Each call of Execute opens a client of its own, a      *)
(* reader or a writer, which a list of the adapter tracks while the call   *)
(* lasts, so that Close, called by the registry, reaches it.               *)
(*                                                                         *)
(* The broker is the environment: one topic of one partition, and with a   *)
(* consumer group the offset the group has committed and the reader that   *)
(* the partition is assigned to, which a rebalance may change at any       *)
(* moment.  ReadMessage fetches and then commits, in two steps.            *)
(***************************************************************************)
EXTENDS AdapterCalls

CONSTANTS
  Nobody,         \* the reader that has the partition when none has
  Group,          \* whether the configuration gives a groupId
  Accepts(_),     \* whether the parameters of a step are accepted
  Batch(_)        \* the messages a produce step writes

\* What a produce step may write.
Messages == UNION {{Batch(s)[i] : i \in DOMAIN Batch(s)} : s \in Step}

ASSUME KafkaAssumption ==
  /\ Nobody \notin Proc
  /\ Group \in BOOLEAN
  /\ MaxCalls \in Nat
  /\ Step # {}
  /\ \A s \in Step : Batch(s) \in Seq(Messages)

VARIABLES
  topic,      \* the messages written, in order
  committed,  \* how many of them the group has committed
  assigned,   \* the goroutine whose reader has the partition
  seen,       \* the offsets some call has fetched (history)
  tracked,    \* the goroutines whose client the adapter tracks
  client,     \* client[p]: p's own client
  next,       \* next[p]: the offset p's reader is to fetch
  passed,     \* passed[p]: the offsets that this call has read
  answer      \* answer[p]: the offset that this call returns, or None

kvars == <<topic, committed, assigned, seen, tracked, client, next, at, step, passed,
           answer, expired, calls>>

Client == {"none", "open", "closed"}
Place == {"idle", "opened", "using", "committing", "leaving", "closed"}

Offsets == 0..(Len(topic) - 1)
Message(o) == topic[o + 1]
Reads(p) == step[p].action # "produce"

KTypeOK ==
  /\ topic \in Seq(Messages)
  /\ committed \in Nat
  /\ assigned \in Proc \cup {Nobody}
  /\ seen \subseteq Nat
  /\ tracked \subseteq Proc
  /\ client \in [Proc -> Client]
  /\ next \in [Proc -> Nat]
  /\ at \in [Proc -> Place]
  /\ step \in [Proc -> Step]
  /\ passed \in [Proc -> SUBSET Nat]
  /\ answer \in [Proc -> Nat \cup {None}]
  /\ expired \subseteq Proc
  /\ calls \in 0..MaxCalls

KInit ==
  /\ topic = << >>
  /\ committed = 0
  /\ assigned = Nobody
  /\ seen = {}
  /\ tracked = {}
  /\ client = [p \in Proc |-> "none"]
  /\ next = [p \in Proc |-> 0]
  /\ at = [p \in Proc |-> "idle"]
  /\ step = [p \in Proc |-> CHOOSE s \in Step : TRUE]
  /\ passed = [p \in Proc |-> {}]
  /\ answer = [p \in Proc |-> None]
  /\ expired = {}
  /\ calls = 0

\* Faulty variant of StartOffset: a group that has committed nothing starts at the end.
StartLatest == IF Group THEN (IF committed = 0 THEN Len(topic) ELSE committed) ELSE 0

\* Where a new reader starts: at what the group has committed, and without a
\* group at the first message of the topic.
StartOffset == IF Group THEN committed ELSE 0

\* Execute checks the parameters, and makes a client with the deadline of the call.
Execute(p, s) ==
  /\ at[p] = "idle"
  /\ calls < MaxCalls
  /\ Accepts(s)
  /\ Goto(p, "opened")
  /\ client' = [client EXCEPT ![p] = "open"]
  /\ next' = [next EXCEPT ![p] = StartOffset]
  /\ step' = [step EXCEPT ![p] = s]
  /\ calls' = calls + 1
  /\ UNCHANGED <<topic, committed, assigned, seen, tracked, passed, answer, expired>>

\* trackReader, trackWriter.
Track(p) ==
  /\ at[p] = "opened"
  /\ Goto(p, "using")
  /\ tracked' = tracked \cup {p}
  /\ UNCHANGED <<topic, committed, assigned, seen, client, next, step, passed, answer, expired, calls>>

\* A rebalance gives the partition to an open reader, from the committed offset.
Assign(p) ==
  /\ Group
  /\ at[p] = "using"
  /\ Reads(p)
  /\ client[p] = "open"
  /\ assigned # p
  /\ assigned' = p
  /\ next' = [next EXCEPT ![p] = StartOffset]
  /\ UNCHANGED <<topic, committed, seen, tracked, client, at, step, passed, answer, expired, calls>>

Write(p) ==
  /\ at[p] = "using"
  /\ ~Reads(p)
  /\ client[p] = "open"
  /\ Goto(p, "leaving")
  /\ topic' = topic \o Batch(step[p])
  /\ UNCHANGED <<committed, assigned, seen, tracked, client, next, step, passed, answer, expired, calls>>

\* The context is over or the writer is closed: the messages may be written yet.
WriteFails(p) ==
  /\ at[p] = "using"
  /\ ~Reads(p)
  /\ p \in expired \/ client[p] = "closed"
  /\ Goto(p, "leaving")
  /\ topic' \in {topic, topic \o Batch(step[p])}
  /\ UNCHANGED <<committed, assigned, seen, tracked, client, next, step, passed, answer, expired, calls>>

\* Faulty variant of Judge: waitFor returns the first message there is.
JudgeAny(p, o) ==
  /\ Goto(p, IF step[p].action = "clear" THEN "using" ELSE "leaving")
  /\ passed' = [passed EXCEPT ![p] = @ \cup {o}]
  /\ answer' = [answer EXCEPT ![p] = IF step[p].action = "clear" THEN None ELSE o]

\* What the call makes of a message it has read: consume returns it, waitFor
\* returns it when it matches, and clear goes on.
Judge(p, o) ==
  LET found == \/ step[p].action = "consume"
               \/ step[p].action = "waitFor" /\ Wanted(step[p], Message(o))
  IN /\ Goto(p, IF found THEN "leaving" ELSE "using")
     /\ passed' = [passed EXCEPT ![p] = @ \cup {o}]
     /\ answer' = [answer EXCEPT ![p] = IF found THEN o ELSE None]

\* ReadMessage fetches the next message; without a group that is all it does.
Fetch(p) ==
  /\ at[p] = "using"
  /\ Reads(p)
  /\ client[p] = "open"
  /\ next[p] \in Offsets
  /\ Group => assigned = p
  /\ seen' = seen \cup {next[p]}
  /\ next' = [next EXCEPT ![p] = @ + 1]
  /\ IF Group THEN Goto(p, "committing") /\ UNCHANGED <<passed, answer>>
              ELSE Judge(p, next[p])
  /\ UNCHANGED <<topic, committed, assigned, tracked, client, step, expired, calls>>

\* The broker may take the commit of a reader that has lost the partition since.
Commit(p) ==
  /\ at[p] = "committing"
  /\ client[p] = "open"
  /\ committed' = next[p]
  /\ Judge(p, next[p] - 1)
  /\ UNCHANGED <<topic, assigned, seen, tracked, client, next, step, expired, calls>>

\* Faulty variant of ReadFails: the loop goes on after an error.
ReadFailsOn(p) ==
  /\ Reads(p)
  /\ \/ at[p] = "using" /\ (p \in expired \/ client[p] = "closed")
     \/ at[p] = "committing" /\ (p \in expired \/ client[p] = "closed" \/ assigned # p)
  /\ Goto(p, "using")
  /\ UNCHANGED <<topic, committed, assigned, seen, tracked, client, next, step, passed, answer, expired, calls>>

\* ReadMessage returns an error: the deadline, a reader that Close has closed, or
\* a commit that is refused.  The commit may have been taken all the same.
ReadFails(p) ==
  /\ Reads(p)
  /\ \/ at[p] = "using" /\ (p \in expired \/ client[p] = "closed") /\ UNCHANGED committed
     \/ /\ at[p] = "committing"
        /\ p \in expired \/ client[p] = "closed" \/ assigned # p
        /\ committed' \in {committed, next[p]}
  /\ Goto(p, "leaving")
  /\ UNCHANGED <<topic, assigned, seen, tracked, client, next, step, passed, answer, expired, calls>>

Released(procs) == assigned' = IF assigned \in procs THEN Nobody ELSE assigned

\* The deferred function: the client is closed, a second time perhaps, ...
CloseClient(p) ==
  /\ at[p] = "leaving"
  /\ Goto(p, "closed")
  /\ client' = [client EXCEPT ![p] = "closed"]
  /\ Released({p})
  /\ UNCHANGED <<topic, committed, seen, tracked, next, step, passed, answer, expired, calls>>

\* The variables of a call end with it.
Forget(p) ==
  /\ next' = [next EXCEPT ![p] = 0]
  /\ passed' = [passed EXCEPT ![p] = {}]
  /\ answer' = [answer EXCEPT ![p] = None]
  /\ expired' = expired \ {p}

\* Faulty variant of Untrack: the list is cut from the place of the client on.
UntrackRest(p) ==
  /\ at[p] = "closed"
  /\ Goto(p, "idle")
  /\ tracked' = {}
  /\ Forget(p)
  /\ UNCHANGED <<topic, committed, assigned, seen, client, step, calls>>

\* ... and taken off the list, if Close has left it there.
Untrack(p) ==
  /\ at[p] = "closed"
  /\ Goto(p, "idle")
  /\ tracked' = tracked \ {p}
  /\ Forget(p)
  /\ UNCHANGED <<topic, committed, assigned, seen, client, step, calls>>

\* Close of the adapter: every client on the lists, and then the lists are empty.
Close ==
  /\ tracked # {}
  /\ client' = [p \in Proc |-> IF p \in tracked THEN "closed" ELSE client[p]]
  /\ tracked' = {}
  /\ Released(tracked)
  /\ UNCHANGED <<topic, committed, seen, next, at, step, passed, answer, expired, calls>>

\* The deadline of p's call, or the one of its test, passes.
Expire(p) ==
  /\ at[p] # "idle"
  /\ p \notin expired
  /\ expired' = expired \cup {p}
  /\ UNCHANGED <<topic, committed, assigned, seen, tracked, client, next, at, step, passed, answer, calls>>

CallStep(p) ==
  Track(p) \/ Write(p) \/ WriteFails(p) \/ Fetch(p) \/ Commit(p) \/ ReadFails(p)
    \/ CloseClient(p) \/ Untrack(p)

KNext ==
  \/ \E p \in Proc : (\E s \in Step : Execute(p, s)) \/ CallStep(p) \/ Assign(p) \/ Expire(p)
  \/ Close

\* Goroutines are scheduled and deadlines pass.  A read whose context is over
\* selects at random between that and the next message, so it does not choose the
\* message for ever.
KFairness ==
  \A p \in Proc : WF_kvars(CallStep(p)) /\ WF_kvars(Expire(p)) /\ SF_kvars(ReadFails(p))

KSpec == KInit /\ [][KNext]_kvars /\ KFairness

-----------------------------------------------------------------------------
\* Close of the adapter reaches each client that a call may be using, whatever
\* calls have tracked and untracked theirs meanwhile; and a call that has
\* returned leaves neither an open client nor an entry on the lists, whether it
\* ended well, at its deadline, or because Close had closed its client
\* (trackReader, untrackReader and Close share the lists, kafka.go:151, 537).
ClientsAccountedFor ==
  \A p \in Proc :
    /\ (at[p] \in {"using", "committing", "leaving"} /\ client[p] = "open") => p \in tracked
    /\ at[p] = "idle" => (client[p] # "open" /\ p \notin tracked /\ assigned # p)

\* A group loses no message to an offset that has been committed too far: what
\* is below it was fetched by some call, whatever rebalances, late commits and
\* deadlines came in between (newReader, ReadMessage; kafka.go:516).
NoneSkipped == \A o \in 0..(committed - 1) : o \in seen

\* The answer of a waitFor matches its filter and is the first message this call
\* has read that does (executeWaitFor, kafka.go:387).
AnswerIsFirstMatch ==
  \A p \in Proc :
    (step[p].action = "waitFor" /\ answer[p] # None) =>
      /\ Wanted(step[p], Message(answer[p]))
      /\ \A o \in passed[p] : Wanted(step[p], Message(o)) => o = answer[p]
=============================================================================
