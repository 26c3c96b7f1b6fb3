-------------------------- MODULE EventHubAdapter --------------------------
(***************************************************************************)
(* The Event Hubs adapter (internal/adapter/eventhub.go) under the         *)
(* goroutines of parallel tests.  One producer lives as long as the        *)
(* adapter is connected; a call that receives opens a consumer of its own  *)
(* and, for each poll, a receiver that starts after the latest event.      *)
(*                                                                         *)
(* The service is the environment: the events of each partition of each    *)
(* hub, in order.  It chooses the partition of an event.                   *)
(***************************************************************************)
EXTENDS AdapterCalls

CONSTANTS
  Hub,           \* the event hubs
  OwnHub,        \* the one that the configuration names
  Partition,     \* the numbers of the partitions of each
  HubOf(_),      \* the hub a step is about
  PartitionOf(_),\* the partition it receives from
  EventFor(_),   \* the event it publishes
  Before         \* what a partition may hold before the run

\* The events there may be.
Events == {EventFor(s) : s \in Step} \cup UNION {{log[i] : i \in DOMAIN log} : log \in Before}

ASSUME EventHubAssumption ==
  /\ OwnHub \in Hub
  /\ Partition \subseteq Nat
  /\ MaxCalls \in Nat
  /\ Step # {}
  /\ \A s \in Step : HubOf(s) \in Hub /\ PartitionOf(s) \in Partition
  /\ \A log \in Before : log \in Seq(Events)

VARIABLES
  events,    \* events[h][q]: the events of partition q of hub h, in order
  producer,  \* the producer of the adapter: nil, open, or one that Close could not close
  sender,    \* sender[p]: the producer p's publish has taken
  receiver,  \* receiver[p]: where p's open receiver starts, or None
  todo,      \* todo[p]: the partitions p is still to receive from
  from,      \* from[p]: where the latest receiver of p's call started (history)
  result,    \* result[p]: the place in its partition of the event it returns, or None
  over       \* over[p]: whether and how the context of p's test has ended

hvars == <<events, producer, sender, receiver, todo, at, step, from, result, expired, over, calls>>

Log(p, q) == events[HubOf(step[p])][q]
Receives(s) == s.action \in {"consume", "waitFor", "clear"}

HTypeOK ==
  /\ events \in [Hub -> [Partition -> Seq(Events)]]
  /\ producer \in {"nil", "open", "closed"}
  /\ sender \in [Proc -> {"nil", "adapter", "transient", "closed"}]
  /\ receiver \in [Proc -> Nat \cup {None}]
  /\ todo \in [Proc -> SUBSET Partition]
  /\ at \in [Proc -> {"idle", "sending", "polling", "receiving", "leaving"}]
  /\ step \in [Proc -> Step]
  /\ from \in [Proc -> Nat]
  /\ result \in [Proc -> Nat \cup {None}]
  /\ expired \subseteq Proc
  /\ over \in [Proc -> {"no", "deadline", "cancelled"}]
  /\ calls \in 0..MaxCalls

HInit ==
  /\ \E old \in Before : events = [h \in Hub |-> [q \in Partition |-> old]]
  /\ producer = "nil"
  /\ sender = [p \in Proc |-> "nil"]
  /\ receiver = [p \in Proc |-> None]
  /\ todo = [p \in Proc |-> {}]
  /\ at = [p \in Proc |-> "idle"]
  /\ step = [p \in Proc |-> CHOOSE s \in Step : TRUE]
  /\ from = [p \in Proc |-> 0]
  /\ result = [p \in Proc |-> None]
  /\ expired = {}
  /\ over = [p \in Proc |-> "no"]
  /\ calls = 0

Connect ==
  /\ producer # "open"
  /\ producer' = "open"
  /\ UNCHANGED <<events, sender, receiver, todo, at, step, from, result, expired, over, calls>>

\* Close forgets the producer only when it could close it.
CloseProducer ==
  /\ producer # "nil"
  /\ producer' \in {"nil", "closed"}
  /\ sender' = [p \in Proc |-> IF sender[p] = "adapter" THEN "closed" ELSE sender[p]]
  /\ UNCHANGED <<events, receiver, todo, at, step, from, result, expired, over, calls>>

Begin(p, s) ==
  /\ at[p] = "idle"
  /\ calls < MaxCalls
  /\ step' = [step EXCEPT ![p] = s]
  /\ calls' = calls + 1
  /\ UNCHANGED <<from, result, expired, over>>

\* The call returns, and its variables end with it.
Return(p) ==
  /\ Goto(p, "idle")
  /\ from' = [from EXCEPT ![p] = 0]
  /\ result' = [result EXCEPT ![p] = None]
  /\ expired' = expired \ {p}
  /\ over' = [over EXCEPT ![p] = "no"]

\* publish to the hub of the adapter takes its producer, and fails when there is
\* none; for another hub it makes a producer of its own.
Publish(p, s) ==
  /\ s.action = "publish"
  /\ HubOf(s) = OwnHub => producer # "nil"
  /\ Begin(p, s)
  /\ Goto(p, "sending")
  /\ sender' = [sender EXCEPT ![p] = IF HubOf(s) # OwnHub THEN "transient"
                                     ELSE IF producer = "open" THEN "adapter" ELSE "closed"]
  /\ UNCHANGED <<events, producer, receiver, todo>>

Sent(p, q) ==
  events' = [events EXCEPT ![HubOf(step[p])][q] = Append(@, EventFor(step[p]))]

\* The batch is sent, and the transient producer is closed as publish returns.
Send(p) ==
  /\ at[p] = "sending"
  /\ \/ sender[p] # "closed" /\ \E q \in Partition : Sent(p, q)
     \/ (sender[p] = "closed" \/ over[p] # "no") /\ UNCHANGED events
  /\ Return(p)
  /\ sender' = [sender EXCEPT ![p] = "nil"]
  /\ UNCHANGED <<producer, receiver, todo, step, calls>>

\* consume and waitFor receive from one partition, clear from each in turn.
OpenConsumer(p, s) ==
  /\ Receives(s)
  /\ Begin(p, s)
  /\ Goto(p, "polling")
  /\ todo' = [todo EXCEPT ![p] = IF s.action = "clear" THEN Partition ELSE {PartitionOf(s)}]
  /\ UNCHANGED <<events, producer, sender, receiver>>

\* Partitions are taken in the order of their numbers.
Current(p) == CHOOSE q \in todo[p] : \A r \in todo[p] : q <= r

\* A receiver starts after the latest event there is.
StartPosition(log) == Len(log)

\* Another poll, unless the timeout of waitFor has passed.
OpenReceiver(p) ==
  /\ at[p] = "polling"
  /\ step[p].action = "waitFor" => p \notin expired
  /\ receiver' = [receiver EXCEPT ![p] = StartPosition(Log(p, Current(p)))]
  /\ from' = [from EXCEPT ![p] = receiver'[p]]
  /\ Goto(p, "receiving")
  /\ UNCHANGED <<events, producer, sender, todo, step, result, expired, over, calls>>

\* Faulty variant of PollEnds: the last match is the answer.
PollEndsLast(p, n) ==
  LET q == Current(p)
      got == (receiver[p] + 1)..(receiver[p] + n)
      matching == {i \in got : Wanted(step[p], Log(p, q)[i])}
      isWait == step[p].action = "waitFor"
  IN /\ receiver' = [receiver EXCEPT ![p] = None]
     /\ result' = [result EXCEPT ![p] =
          IF isWait /\ matching # {} THEN CHOOSE i \in matching : \A j \in matching : j <= i ELSE @]
     /\ todo' = [todo EXCEPT ![p] = IF isWait THEN @ ELSE @ \ {q}]
     /\ Goto(p, IF (isWait /\ matching # {}) \/ (~isWait /\ todo[p] = {q}) THEN "leaving" ELSE "polling")

\* The poll is over: its receiver is closed; n events were received.
PollEnds(p, n) ==
  LET q == Current(p)
      got == (receiver[p] + 1)..(receiver[p] + n)
      matching == {i \in got : Wanted(step[p], Log(p, q)[i])}
      isWait == step[p].action = "waitFor"
  IN /\ receiver' = [receiver EXCEPT ![p] = None]
     /\ result' = [result EXCEPT ![p] =
          IF isWait /\ matching # {} THEN CHOOSE i \in matching : \A j \in matching : i <= j ELSE @]
     /\ todo' = [todo EXCEPT ![p] = IF isWait THEN @ ELSE @ \ {q}]
     /\ Goto(p, IF (isWait /\ matching # {}) \/ (~isWait /\ todo[p] = {q}) THEN "leaving" ELSE "polling")

\* Events that have come since the receiver was opened are returned, some or all.
Receive(p) ==
  /\ at[p] = "receiving"
  /\ over[p] = "no"
  /\ \E n \in 1..(Len(Log(p, Current(p))) - receiver[p]) : PollEnds(p, n)
  /\ UNCHANGED <<events, producer, sender, step, from, expired, over, calls>>

\* The deadline of the poll, or of the test, is no error; clear waits for half a
\* second whatever its timeout, and ignores every error.
ReceiveNothing(p) ==
  /\ at[p] = "receiving"
  /\ p \in expired \/ over[p] = "deadline" \/ step[p].action = "clear"
  /\ PollEnds(p, 0)
  /\ UNCHANGED <<events, producer, sender, step, from, expired, over, calls>>

\* A context that was cancelled ends the call with an error.
ReceiveFails(p) ==
  /\ at[p] = "receiving"
  /\ over[p] = "cancelled"
  /\ step[p].action # "clear"
  /\ receiver' = [receiver EXCEPT ![p] = None]
  /\ Goto(p, "leaving")
  /\ UNCHANGED <<events, producer, sender, todo, step, from, result, expired, over, calls>>

\* TimeoutError of waitFor.
TimeOut(p) ==
  /\ at[p] = "polling"
  /\ step[p].action = "waitFor"
  /\ p \in expired
  /\ Goto(p, "leaving")
  /\ UNCHANGED <<events, producer, sender, receiver, todo, step, from, result, expired, over, calls>>

\* The deferred Close of the consumer.
CloseConsumer(p) ==
  /\ at[p] = "leaving"
  /\ Return(p)
  /\ todo' = [todo EXCEPT ![p] = {}]
  /\ UNCHANGED <<events, producer, sender, receiver, step, calls>>

TimeoutPasses(p) ==
  /\ at[p] # "idle"
  /\ p \notin expired
  /\ expired' = expired \cup {p}
  /\ UNCHANGED <<events, producer, sender, receiver, todo, at, step, from, result, over, calls>>

\* The test of p is at its deadline, or the run is interrupted.
ContextEnds(p) ==
  /\ at[p] # "idle"
  /\ over[p] = "no"
  /\ \E how \in {"deadline", "cancelled"} : over' = [over EXCEPT ![p] = how]
  /\ UNCHANGED <<events, producer, sender, receiver, todo, at, step, from, result, expired, calls>>

HubStep(p) ==
  Send(p) \/ OpenReceiver(p) \/ Receive(p) \/ ReceiveNothing(p) \/ ReceiveFails(p)
    \/ TimeOut(p) \/ CloseConsumer(p)

HNext ==
  \/ \E p \in Proc : \/ \E s \in Step : Publish(p, s) \/ OpenConsumer(p, s)
                     \/ HubStep(p) \/ TimeoutPasses(p) \/ ContextEnds(p)
  \/ Connect
  \/ CloseProducer

\* Goroutines are scheduled, timeouts pass, and a test has a deadline.
HFairness == \A p \in Proc : WF_hvars(HubStep(p)) /\ WF_hvars(TimeoutPasses(p))

HSpec == HInit /\ [][HNext]_hvars /\ HFairness

-----------------------------------------------------------------------------
\* waitFor answers with the first event that matches of those that have come since
\* its last receiver was opened, whatever earlier polls, other partitions and calls
\* have left behind (eventhub.go:251, 335).
HubAnswerIsFirst ==
  \A p \in Proc : result[p] # None =>
    LET matches(i) == Wanted(step[p], Log(p, PartitionOf(step[p]))[i])
    IN  /\ from[p] < result[p]
        /\ matches(result[p])
        /\ \A i \in (from[p] + 1)..(result[p] - 1) : ~matches(i)

-----------------------------------------------------------------------------
(* A statement of the documentation that the code does not keep. *)

\* docs/sections/adapters/eventhub.md:64, of waitFor: "Fails with `TimeoutError` if
\* no match is found within the timeout".  No event that matches lies before the
\* place where the last receiver of a call that fails so was opened: neither one
\* that was published before the call, as in skills/e2e-runner/SKILL.md:701, nor
\* one that came between two of its polls.
TimeoutMeansNoMatch ==
  \A p \in Proc :
    at[p] = "leaving" /\ step[p].action = "waitFor" /\ result[p] = None /\ over[p] = "no" =>
      \A i \in 1..from[p] : ~Wanted(step[p], Log(p, PartitionOf(step[p]))[i])
=============================================================================
