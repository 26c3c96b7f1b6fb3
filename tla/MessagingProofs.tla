--------------------------- MODULE MessagingProofs ---------------------------
(***************************************************************************)
(* The safety of the messaging adapters, for any number of goroutines and  *)
(* calls, any topic and any event hubs.                                    *)
(*                                                                         *)
(* A call of Kafka ends in one of many ways, and Close may come in         *)
(* between, so its properties need to know of each place in a call what it *)
(* has done: a client that is closed has lost the partition, a reader of a *)
(* group has nothing unseen behind it, and a call that still reads has     *)
(* found no match.  Of Event Hubs, a poll starts where its receiver did.   *)
(***************************************************************************)
EXTENDS KafkaAdapter, EventHubAdapter, WellFoundedInduction, TLAPS

\* What lies behind a reader of a group has been fetched by some call.
BehindReaders == Group => \A p \in Proc : \A o \in 0..(next[p] - 1) : o \in seen

\* A commit is made of a message that was fetched, and only for a group.
Committing == \A p \in Proc : at[p] = "committing" => Group /\ next[p] >= 1

\* A client that its own call has closed has no partition any more.
ClosedReleased == \A p \in Proc : at[p] = "closed" => client[p] = "closed" /\ assigned # p

\* Readers and the group stay within the topic.
WithinTopic ==
  /\ committed <= Len(topic)
  /\ \A p \in Proc : next[p] <= Len(topic) /\ passed[p] \subseteq Offsets

\* A call that still reads has no answer, and nothing it has read matches; no
\* call carries anything of the one before.
StillLooking ==
  \A p \in Proc :
    /\ at[p] \in {"opened", "using", "committing"} =>
         /\ answer[p] = None
         /\ step[p].action = "waitFor" => \A o \in passed[p] : ~Wanted(step[p], Message(o))
    /\ at[p] = "idle" => answer[p] = None /\ passed[p] = {} /\ next[p] = 0
    /\ answer[p] # None => answer[p] \in passed[p]

\* The clients: what Close and a return need.
ClientInv == KTypeOK /\ ClientsAccountedFor /\ ClosedReleased

\* The offsets: what a commit needs.
OffsetInv == KTypeOK /\ BehindReaders /\ Committing /\ NoneSkipped

\* The answers: what a match needs.
AnswerInv == KTypeOK /\ Committing /\ WithinTopic /\ StillLooking /\ AnswerIsFirstMatch

-----------------------------------------------------------------------------
\* Type correctness, of the first state and of each step.
LEMMA TypesBegin == KInit => KTypeOK
<1>1. (CHOOSE s \in Step : TRUE) \in Step
  BY KafkaAssumption
<1>2. QED
  BY <1>1, KafkaAssumption DEF KInit, KTypeOK, Client, Place, None

\* The types of Kafka survive every step.
LEMMA TypesStep == KTypeOK /\ Committing /\ [KNext]_kvars => KTypeOK'
<1>0. SUFFICES ASSUME KTypeOK, Committing, [KNext]_kvars PROVE KTypeOK'
  OBVIOUS
<1> USE DEF KTypeOK, Client, Place
<1>1. CASE UNCHANGED kvars
  BY <1>0, <1>1 DEF kvars
<1>2. ASSUME NEW p \in Proc, NEW s \in Step, Execute(p, s) PROVE KTypeOK'
  BY <1>0, <1>2, KafkaAssumption DEF Execute, Goto, StartOffset
<1>3. ASSUME NEW p \in Proc, Track(p) PROVE KTypeOK'
  BY <1>0, <1>3 DEF Track, Goto
<1>4. ASSUME NEW p \in Proc, Write(p) \/ WriteFails(p) PROVE KTypeOK'
  <2>1. topic \o Batch(step[p]) \in Seq(Messages)
    BY <1>0, KafkaAssumption
  <2>2. QED
    BY <1>0, <1>4, <2>1 DEF Write, WriteFails, Goto
<1>5. ASSUME NEW p \in Proc, Fetch(p) PROVE KTypeOK'
  <2>0. next[p] \in Nat /\ next' = [next EXCEPT ![p] = @ + 1] /\ seen' = seen \cup {next[p]}
    BY <1>0, <1>5 DEF Fetch
  <2>1. seen' \subseteq Nat /\ next' \in [Proc -> Nat]
    <3>1. next[p] + 1 \in Nat
      BY <2>0
    <3>2. next' \in [Proc -> Nat]
      BY <1>0, <2>0, <3>1
    <3>3. seen' \subseteq Nat
      BY <1>0, <2>0
    <3>4. QED
      BY <3>2, <3>3
  <2>2. at' \in [Proc -> Place] /\ passed' \in [Proc -> SUBSET Nat] /\ answer' \in [Proc -> Nat \cup {None}]
    <3>1. CASE Group
      BY <1>0, <1>5, <3>1 DEF Fetch, Goto
    <3>2. CASE ~Group
      <4>1. Judge(p, next[p])
        BY <1>5, <3>2 DEF Fetch
      <4>2. QED
        BY <1>0, <2>0, <4>1 DEF Judge, Goto
    <3>3. QED
      BY <3>1, <3>2
  <2>3. QED
    BY <1>0, <1>5, <2>1, <2>2 DEF Fetch
<1>6. ASSUME NEW p \in Proc, Commit(p) PROVE KTypeOK'
  BY <1>0, <1>6 DEF Commit, Judge, Goto, None, Committing
<1>7. ASSUME NEW p \in Proc, ReadFails(p) PROVE KTypeOK'
  BY <1>0, <1>7 DEF ReadFails, Goto
<1>8. ASSUME NEW p \in Proc, CloseClient(p) PROVE KTypeOK'
  BY <1>0, <1>8 DEF CloseClient, Released, Goto
<1>9. ASSUME NEW p \in Proc, Untrack(p) PROVE KTypeOK'
  BY <1>0, <1>9 DEF Untrack, Forget, Goto, None
<1>10. ASSUME NEW p \in Proc, Assign(p) PROVE KTypeOK'
  BY <1>0, <1>10 DEF Assign, StartOffset
<1>11. ASSUME NEW p \in Proc, Expire(p) PROVE KTypeOK'
  BY <1>0, <1>11 DEF Expire
<1>12. CASE Close
  BY <1>0, <1>12 DEF Close, Released
<1>13. QED
  BY <1>0, <1>1, <1>2, <1>3, <1>4, <1>5, <1>6, <1>7, <1>8, <1>9, <1>10, <1>11, <1>12 DEF KNext, CallStep

\* Only a group commits, and only what was fetched.
LEMMA CommittingStep == KTypeOK /\ Committing /\ [KNext]_kvars => Committing'
<1>0. SUFFICES ASSUME KTypeOK, Committing, [KNext]_kvars PROVE Committing'
  OBVIOUS
<1> USE DEF KTypeOK, Committing
<1>1. CASE UNCHANGED kvars
  BY <1>0, <1>1 DEF kvars
<1>2. ASSUME NEW p \in Proc, NEW s \in Step, Execute(p, s) PROVE Committing'
  BY <1>0, <1>2 DEF Execute, Goto
<1>3. ASSUME NEW p \in Proc, Track(p) \/ Write(p) \/ WriteFails(p) PROVE Committing'
  BY <1>0, <1>3 DEF Track, Write, WriteFails, Goto
<1>4. ASSUME NEW p \in Proc, Fetch(p) PROVE Committing'
  BY <1>0, <1>4 DEF Fetch, Judge, Goto
<1>5. ASSUME NEW p \in Proc, Commit(p) \/ ReadFails(p) PROVE Committing'
  BY <1>0, <1>5 DEF Commit, Judge, ReadFails, Goto
<1>6. ASSUME NEW p \in Proc, CloseClient(p) \/ Untrack(p) PROVE Committing'
  BY <1>0, <1>6 DEF CloseClient, Untrack, Forget, Goto
<1>7. ASSUME NEW p \in Proc, Assign(p) \/ Expire(p) PROVE Committing'
  BY <1>0, <1>7 DEF Assign, Expire
<1>8. CASE Close
  BY <1>0, <1>8 DEF Close
<1>9. QED
  BY <1>0, <1>1, <1>2, <1>3, <1>4, <1>5, <1>6, <1>7, <1>8 DEF KNext, CallStep

\* Every state is well typed (kafka.go:34, KafkaAdapter).
THEOREM KafkaTypeCorrect == KSpec => []KTypeOK
<1>1. KInit => KTypeOK /\ Committing
  BY TypesBegin DEF KInit, Committing
<1>2. KTypeOK /\ Committing /\ [KNext]_kvars => (KTypeOK /\ Committing)'
  BY TypesStep, CommittingStep
<1>3. QED
  BY <1>1, <1>2, PTL DEF KSpec

-----------------------------------------------------------------------------
\* The clients.
LEMMA ClientsStep == ClientInv /\ [KNext]_kvars => (ClientsAccountedFor /\ ClosedReleased)'
<1>0. SUFFICES ASSUME ClientInv, [KNext]_kvars PROVE (ClientsAccountedFor /\ ClosedReleased)'
  OBVIOUS
<1> DEFINE Goal == ClientsAccountedFor /\ ClosedReleased
<1> USE DEF ClientInv, KTypeOK, ClientsAccountedFor, ClosedReleased
<1>1. CASE UNCHANGED kvars
  BY <1>0, <1>1 DEF kvars
<1>2. ASSUME NEW p \in Proc, NEW s \in Step, Execute(p, s) PROVE Goal'
  BY <1>0, <1>2 DEF Execute, Goto
<1>3. ASSUME NEW p \in Proc, Track(p) PROVE Goal'
  BY <1>0, <1>3 DEF Track, Goto
<1>4. ASSUME NEW p \in Proc, Write(p) \/ WriteFails(p) PROVE Goal'
  BY <1>0, <1>4 DEF Write, WriteFails, Goto
<1>5. ASSUME NEW p \in Proc, Fetch(p) PROVE Goal'
  BY <1>0, <1>5 DEF Fetch, Judge, Goto
<1>6. ASSUME NEW p \in Proc, Commit(p) \/ ReadFails(p) PROVE Goal'
  BY <1>0, <1>6 DEF Commit, Judge, ReadFails, Goto
<1>7. ASSUME NEW p \in Proc, CloseClient(p) PROVE Goal'
  BY <1>0, <1>7, KafkaAssumption DEF CloseClient, Released, Goto
<1>8. ASSUME NEW p \in Proc, Untrack(p) PROVE Goal'
  BY <1>0, <1>8 DEF Untrack, Forget, Goto
<1>9. ASSUME NEW p \in Proc, Assign(p) \/ Expire(p) PROVE Goal'
  BY <1>0, <1>9 DEF Assign, Expire
<1>10. CASE Close
  BY <1>0, <1>10, KafkaAssumption DEF Close, Released
<1>11. QED
  BY <1>0, <1>1, <1>2, <1>3, <1>4, <1>5, <1>6, <1>7, <1>8, <1>9, <1>10 DEF KNext, CallStep

\* Close reaches every client in use, and a call that has returned leaves nothing
\* behind (trackReader, untrackReader, Close; kafka.go:151, 537).
THEOREM KafkaClientsAccountedFor == KSpec => []ClientsAccountedFor
<1>1. KInit => ClientInv /\ Committing
  BY TypesBegin, KafkaAssumption
  DEF KInit, ClientInv, ClientsAccountedFor, ClosedReleased, Committing
<1>2. ClientInv /\ Committing /\ [KNext]_kvars => (ClientInv /\ Committing)'
  BY TypesStep, CommittingStep, ClientsStep DEF ClientInv
<1>3. ClientInv => ClientsAccountedFor
  BY DEF ClientInv
<1>4. QED
  BY <1>1, <1>2, <1>3, PTL DEF KSpec

-----------------------------------------------------------------------------
\* The offsets.
LEMMA OffsetsStep == OffsetInv /\ [KNext]_kvars => (BehindReaders /\ NoneSkipped)'
<1>0. SUFFICES ASSUME OffsetInv, [KNext]_kvars PROVE (BehindReaders /\ NoneSkipped)'
  OBVIOUS
<1> DEFINE Goal == BehindReaders /\ NoneSkipped
<1> USE DEF OffsetInv, KTypeOK, BehindReaders, NoneSkipped, Committing
<1>1. CASE UNCHANGED kvars
  BY <1>0, <1>1 DEF kvars
<1>2. ASSUME NEW p \in Proc, NEW s \in Step, Execute(p, s) PROVE Goal'
  BY <1>0, <1>2 DEF Execute, StartOffset
<1>3. ASSUME NEW p \in Proc, Track(p) \/ Write(p) \/ WriteFails(p) \/ CloseClient(p) \/ Expire(p)
      PROVE Goal'
  BY <1>0, <1>3 DEF Track, Write, WriteFails, CloseClient, Expire
<1>4. ASSUME NEW p \in Proc, Fetch(p) PROVE Goal'
  BY <1>0, <1>4 DEF Fetch
<1>5. ASSUME NEW p \in Proc, Commit(p) \/ ReadFails(p) PROVE Goal'
  BY <1>0, <1>5 DEF Commit, ReadFails
<1>6. ASSUME NEW p \in Proc, Untrack(p) PROVE Goal'
  BY <1>0, <1>6 DEF Untrack, Forget
<1>7. ASSUME NEW p \in Proc, Assign(p) PROVE Goal'
  BY <1>0, <1>7 DEF Assign, StartOffset
<1>8. CASE Close
  BY <1>0, <1>8 DEF Close
<1>9. QED
  BY <1>0, <1>1, <1>2, <1>3, <1>4, <1>5, <1>6, <1>7, <1>8 DEF KNext, CallStep

\* A group has committed only what some call has fetched (newReader, ReadMessage;
\* kafka.go:516).
THEOREM KafkaNoneSkipped == KSpec => []NoneSkipped
<1>1. KInit => OffsetInv
  BY TypesBegin DEF KInit, OffsetInv, BehindReaders, Committing, NoneSkipped
<1>2. OffsetInv /\ [KNext]_kvars => OffsetInv'
  BY TypesStep, CommittingStep, OffsetsStep DEF OffsetInv
<1>3. OffsetInv => NoneSkipped
  BY DEF OffsetInv
<1>4. QED
  BY <1>1, <1>2, <1>3, PTL DEF KSpec

-----------------------------------------------------------------------------
\* The answers: what a call is given to judge lies within the topic.
LEMMA WithinStep == AnswerInv /\ [KNext]_kvars => WithinTopic'
<1>0. SUFFICES ASSUME AnswerInv, [KNext]_kvars PROVE WithinTopic'
  OBVIOUS
<1> USE DEF AnswerInv, KTypeOK, Committing, WithinTopic, Offsets
<1>1. CASE UNCHANGED kvars
  BY <1>0, <1>1 DEF kvars
<1>2. ASSUME NEW p \in Proc, NEW s \in Step, Execute(p, s) PROVE WithinTopic'
  BY <1>0, <1>2 DEF Execute, StartOffset
<1>3. ASSUME NEW p \in Proc, Track(p) \/ CloseClient(p) \/ Expire(p) PROVE WithinTopic'
  BY <1>0, <1>3 DEF Track, CloseClient, Expire
<1>4. ASSUME NEW p \in Proc, Write(p) \/ WriteFails(p) PROVE WithinTopic'
  <2>1. Batch(step[p]) \in Seq(Messages)
    BY <1>0, KafkaAssumption
  <2>2. Len(topic') \in Nat /\ Len(topic') >= Len(topic)
    BY <1>0, <1>4, <2>1 DEF Write, WriteFails
  <2>3. QED
    BY <1>0, <1>4, <2>2 DEF Write, WriteFails
<1>5. ASSUME NEW p \in Proc, Fetch(p) PROVE WithinTopic'
  <2>1. CASE Group
    BY <1>0, <1>5, <2>1 DEF Fetch
  <2>2. CASE ~Group
    BY <1>0, <1>5, <2>2 DEF Fetch, Judge
  <2>3. QED
    BY <2>1, <2>2
<1>6. ASSUME NEW p \in Proc, Commit(p) \/ ReadFails(p) PROVE WithinTopic'
  <2>1. committed' <= Len(topic) /\ topic' = topic /\ next' = next
    BY <1>0, <1>6 DEF Commit, ReadFails
  <2>2. CASE Commit(p)
    <3>1. next[p] - 1 \in 0..(Len(topic) - 1) /\ passed' = [passed EXCEPT ![p] = @ \cup {next[p] - 1}]
      BY <1>0, <2>2 DEF Commit, Judge
    <3>2. QED
      BY <1>0, <2>1, <3>1
  <2>3. CASE ReadFails(p)
    BY <1>0, <2>1, <2>3 DEF ReadFails
  <2>4. QED
    BY <1>6, <2>2, <2>3
<1>7. ASSUME NEW p \in Proc, Untrack(p) PROVE WithinTopic'
  BY <1>0, <1>7 DEF Untrack, Forget
<1>8. ASSUME NEW p \in Proc, Assign(p) PROVE WithinTopic'
  BY <1>0, <1>8 DEF Assign, StartOffset
<1>9. CASE Close
  BY <1>0, <1>9 DEF Close
<1>10. QED
  BY <1>0, <1>1, <1>2, <1>3, <1>4, <1>5, <1>6, <1>7, <1>8, <1>9 DEF KNext, CallStep

\* A message that a call has read stays what it is when others are written.
LEMMA MessagesStay ==
  ASSUME AnswerInv, NEW p \in Proc, Write(p) \/ WriteFails(p), NEW q \in Proc, NEW o \in passed[q]
  PROVE Message(o)' = Message(o)
<1>1. Batch(step[p]) \in Seq(Messages)
  BY KafkaAssumption DEF AnswerInv, KTypeOK
<1>2. o + 1 \in 1..Len(topic)
  BY DEF AnswerInv, KTypeOK, WithinTopic, Offsets
<1>3. QED
  BY <1>1, <1>2 DEF Write, WriteFails, Message, AnswerInv, KTypeOK

\* What StillLooking and the property say of the answers.
Answers == StillLooking /\ AnswerIsFirstMatch

\* What a call makes of a message keeps its answer the first match.
LEMMA JudgeAnswers ==
  ASSUME AnswerInv, NEW p \in Proc, NEW o \in Offsets, Judge(p, o),
         at[p] \in {"using", "committing"}, UNCHANGED <<topic, step>>,
         \A q \in Proc \ {p} : next'[q] = next[q]
  PROVE Answers'
<1> USE DEF AnswerInv, KTypeOK, Answers, StillLooking, AnswerIsFirstMatch, Message, None, Offsets
<1> DEFINE Good(q) ==
      /\ at[q] \in {"opened", "using", "committing"} =>
           /\ answer[q] = None
           /\ step[q].action = "waitFor" => \A m \in passed[q] : ~Wanted(step[q], Message(m))
      /\ at[q] = "idle" => answer[q] = None /\ passed[q] = {} /\ next[q] = 0
      /\ answer[q] # None => answer[q] \in passed[q]
      /\ (step[q].action = "waitFor" /\ answer[q] # None) =>
           /\ Wanted(step[q], Message(answer[q]))
           /\ \A m \in passed[q] : Wanted(step[q], Message(m)) => m = answer[q]
<1>1. ASSUME NEW q \in Proc, q # p PROVE Good(q)'
  <2>1. /\ at'[q] = at[q] /\ passed'[q] = passed[q] /\ answer'[q] = answer[q]
        /\ next'[q] = next[q]
    BY <1>1 DEF Judge, Goto
  <2>2. Good(q)
    BY <1>1
  <2>3. QED
    BY <2>1, <2>2
<1>2. at'[p] \in {"leaving", "using"} /\ passed'[p] = passed[p] \cup {o}
  BY DEF Judge, Goto
<1> DEFINE found == \/ step[p].action = "consume"
                    \/ step[p].action = "waitFor" /\ Wanted(step[p], Message(o))
<1>3. /\ at' = [at EXCEPT ![p] = IF found THEN "leaving" ELSE "using"]
      /\ answer' = [answer EXCEPT ![p] = IF found THEN o ELSE None]
  BY DEF Judge, Goto
<1>4. CASE found
  <2>1. at'[p] = "leaving" /\ answer'[p] = o
    BY <1>3, <1>4
  <2>2. step[p].action = "waitFor" => \A m \in passed[p] : ~Wanted(step[p], Message(m))
    OBVIOUS
  <2>3. Good(p)'
    BY <1>2, <1>4, <2>1, <2>2
  <2>4. QED
    BY <1>1, <2>3
<1>5. CASE ~found
  <2>1. at'[p] = "using" /\ answer'[p] = None
    BY <1>3, <1>5
  <2>2. step[p].action = "waitFor" => \A m \in passed[p] : ~Wanted(step[p], Message(m))
    OBVIOUS
  <2>3. Good(p)'
    BY <1>2, <1>5, <2>1, <2>2
  <2>4. QED
    BY <1>1, <2>3
<1>6. QED
  BY <1>4, <1>5

\* A call keeps to the first match through every step.
LEMMA AnswersStep == AnswerInv /\ [KNext]_kvars => Answers'
<1>0. SUFFICES ASSUME AnswerInv, [KNext]_kvars PROVE Answers'
  OBVIOUS
<1> USE DEF Answers, StillLooking, AnswerIsFirstMatch
<1>1. CASE UNCHANGED kvars
  BY <1>0, <1>1 DEF kvars, AnswerInv, Message
<1>2. ASSUME NEW p \in Proc, NEW s \in Step, Execute(p, s) PROVE Answers'
  BY <1>0, <1>2 DEF Execute, Goto, AnswerInv, KTypeOK, Message
<1>3. ASSUME NEW p \in Proc, Track(p) \/ CloseClient(p) \/ Expire(p) \/ ReadFails(p) PROVE Answers'
  BY <1>0, <1>3 DEF Track, CloseClient, Expire, ReadFails, Goto, AnswerInv, KTypeOK, Message
<1>4. ASSUME NEW p \in Proc, Write(p) \/ WriteFails(p) PROVE Answers'
  <2>1. \A q \in Proc : \A o \in passed[q] : Message(o)' = Message(o)
    BY <1>0, <1>4, MessagesStay
  <2>2. UNCHANGED <<passed, answer, step, next>> /\ Goto(p, "leaving")
    BY <1>4 DEF Write, WriteFails
  <2>3. QED
    BY <1>0, <1>4, <2>1, <2>2 DEF Write, WriteFails, Goto, AnswerInv, KTypeOK
<1>5. ASSUME NEW p \in Proc, Fetch(p) PROVE Answers'
  <2>1. CASE Group
    BY <1>0, <1>5, <2>1 DEF Fetch, Goto, AnswerInv, KTypeOK, Message
  <2>2. CASE ~Group
    <3>1. /\ next[p] \in Offsets /\ Judge(p, next[p]) /\ at[p] = "using"
          /\ UNCHANGED <<topic, step>>
          /\ \A q \in Proc \ {p} : next'[q] = next[q]
      BY <1>0, <1>5, <2>2 DEF Fetch, AnswerInv, KTypeOK
    <3>2. QED
      BY <1>0, <3>1, JudgeAnswers
  <2>3. QED
    BY <2>1, <2>2
<1>6. ASSUME NEW p \in Proc, Commit(p) PROVE Answers'
  <2>1. next[p] - 1 \in Offsets
    BY <1>0, <1>6 DEF Commit, AnswerInv, KTypeOK, Committing, WithinTopic, Offsets
  <2>2. QED
    BY <1>0, <1>6, <2>1, JudgeAnswers DEF Commit
<1>7. ASSUME NEW p \in Proc, Untrack(p) PROVE Answers'
  BY <1>0, <1>7 DEF Untrack, Forget, Goto, AnswerInv, KTypeOK, Message
<1>8. ASSUME NEW p \in Proc, Assign(p) PROVE Answers'
  BY <1>0, <1>8 DEF Assign, AnswerInv, KTypeOK, Message
<1>9. CASE Close
  BY <1>0, <1>9 DEF Close, AnswerInv, Message
<1>10. QED
  BY <1>0, <1>1, <1>2, <1>3, <1>4, <1>5, <1>6, <1>7, <1>8, <1>9 DEF KNext, CallStep

\* A waitFor answers with the first message it has read that matches
\* (executeWaitFor, kafka.go:387).
THEOREM KafkaAnswerIsFirstMatch == KSpec => []AnswerIsFirstMatch
<1>1. KInit => AnswerInv
  BY TypesBegin
  DEF KInit, AnswerInv, Committing, WithinTopic, StillLooking, AnswerIsFirstMatch, Offsets
<1>2. AnswerInv /\ [KNext]_kvars => AnswerInv'
  BY TypesStep, CommittingStep, WithinStep, AnswersStep DEF AnswerInv, Answers
<1>3. AnswerInv => AnswerIsFirstMatch
  BY DEF AnswerInv
<1>4. QED
  BY <1>1, <1>2, <1>3, PTL DEF KSpec

-----------------------------------------------------------------------------
(* Event Hubs *)

\* The partition a waitFor is about.
Waited(p) == Log(p, PartitionOf(step[p]))

\* A call that polls has a partition left to receive from: a waitFor the one it is
\* about.  There is no answer before it leaves.
Began(p) ==
  /\ at[p] # "leaving" => result[p] = None
  /\ at[p] \in {"polling", "receiving"} => todo[p] # {}
  /\ (at[p] \in {"polling", "receiving"} /\ step[p].action = "waitFor") =>
       todo[p] = {PartitionOf(step[p])}

\* A poll begins within the partition.
Polled(p) ==
  at[p] = "receiving" =>
    /\ receiver[p] \in Nat /\ from[p] = receiver[p]
    /\ step[p].action = "waitFor" => receiver[p] <= Len(Waited(p))

\* The answer is the first event of the partition, after the place where the last
\* receiver was opened, that matches.
Answered(p) ==
  result[p] # None =>
    /\ result[p] \in 1..Len(Waited(p))
    /\ from[p] < result[p]
    /\ Wanted(step[p], Waited(p)[result[p]])
    /\ \A i \in (from[p] + 1)..(result[p] - 1) : ~Wanted(step[p], Waited(p)[i])

CallRight(p) == Began(p) /\ Polled(p) /\ Answered(p)

HubInv == HTypeOK /\ \A p \in Proc : CallRight(p)

\* A set of numbers that is not empty has a first one.
LEMMA FirstOf ==
  ASSUME NEW S \in SUBSET Nat, S # {}
  PROVE  LET first == CHOOSE i \in S : \A j \in S : i <= j
         IN  first \in S /\ \A j \in S : first <= j
<1>1. \E m \in S : \A k \in S : ~(<<k, m>> \in OpToRel(<, Nat))
  BY NatLessThanWellFounded, WFMin, Zenon
<1>2. PICK m \in S : \A j \in S : ~(j < m)
  BY <1>1 DEF OpToRel
<1>3. \A j \in S : m <= j
  BY <1>2
<1>4. QED
  BY <1>3

\* The types of Event Hubs hold at the beginning.
LEMMA HubTypesBegin == HInit => HTypeOK
<1>1. (CHOOSE s \in Step : TRUE) \in Step
  BY EventHubAssumption
<1>2. HInit => events \in [Hub -> [Partition -> Seq(Events)]]
  BY EventHubAssumption DEF HInit
<1>3. QED
  BY <1>1, <1>2, EventHubAssumption DEF HInit, HTypeOK, None

\* An event is added to one partition, after what the partition holds.
LEMMA EventsGrow ==
  ASSUME HTypeOK, NEW p \in Proc, NEW q \in Partition, Sent(p, q)
  PROVE  /\ events' \in [Hub -> [Partition -> Seq(Events)]]
         /\ \A h \in Hub, r \in Partition :
              /\ Len(events[h][r]) \in Nat
              /\ Len(events'[h][r]) \in Nat
              /\ Len(events'[h][r]) >= Len(events[h][r])
              /\ \A i \in 1..Len(events[h][r]) : events'[h][r][i] = events[h][r][i]
<1> DEFINE h0 == HubOf(step[p])
           e == EventFor(step[p])
           old == events[h0][q]
<1>1. h0 \in Hub /\ e \in Events
  BY EventHubAssumption DEF HTypeOK, Events
<1>2. old \in Seq(Events)
  BY <1>1 DEF HTypeOK
<1>3. /\ Append(old, e) \in Seq(Events)
      /\ Len(Append(old, e)) = Len(old) + 1
      /\ \A i \in 1..Len(old) : Append(old, e)[i] = old[i]
  BY <1>1, <1>2
<1>4. events' = [events EXCEPT ![h0][q] = Append(old, e)]
  BY DEF Sent
<1>0. old = events[h0][q] /\ Len(old) \in Nat
  BY <1>2
<1> HIDE DEF h0, e, old
<1>5. events' \in [Hub -> [Partition -> Seq(Events)]]
  BY <1>1, <1>3, <1>4 DEF HTypeOK
<1>6. ASSUME NEW h \in Hub, NEW r \in Partition
      PROVE events'[h][r] = IF h = h0 /\ r = q THEN Append(old, e) ELSE events[h][r]
  BY <1>1, <1>4 DEF HTypeOK
<1>7. \A h \in Hub, r \in Partition : Len(events[h][r]) \in Nat
  BY DEF HTypeOK
<1>8. ASSUME NEW h \in Hub, NEW r \in Partition
      PROVE  /\ Len(events'[h][r]) \in Nat
             /\ Len(events'[h][r]) >= Len(events[h][r])
             /\ \A i \in 1..Len(events[h][r]) : events'[h][r][i] = events[h][r][i]
  <2>1. CASE h = h0 /\ r = q
    <3>1. events'[h][r] = Append(old, e) /\ events[h][r] = old
      BY <1>0, <1>6, <2>1
    <3>2. QED
      BY <1>0, <1>3, <3>1
  <2>2. CASE ~(h = h0 /\ r = q)
    <3>1. events'[h][r] = events[h][r]
      BY <1>6, <2>2
    <3>2. QED
      BY <1>7, <3>1
  <2>3. QED
    BY <2>1, <2>2
<1>9. QED
  BY <1>5, <1>7, <1>8

\* The partitions only grow, whatever happens.
LEMMA EventsStay ==
  ASSUME HTypeOK, [HNext]_hvars
  PROVE  /\ events' \in [Hub -> [Partition -> Seq(Events)]]
         /\ \A h \in Hub, r \in Partition :
              /\ Len(events[h][r]) \in Nat
              /\ Len(events'[h][r]) \in Nat
              /\ Len(events'[h][r]) >= Len(events[h][r])
              /\ \A i \in 1..Len(events[h][r]) : events'[h][r][i] = events[h][r][i]
<1>1. CASE events' = events
  <2>1. \A h \in Hub, r \in Partition : Len(events[h][r]) \in Nat
    BY DEF HTypeOK
  <2>2. QED
    BY <1>1, <2>1 DEF HTypeOK
<1>2. ASSUME NEW p \in Proc, NEW q \in Partition, Sent(p, q)
      PROVE  events' = events \/ Sent(p, q)
  BY <1>2
<1>3. events' = events \/ \E p \in Proc, q \in Partition : Sent(p, q)
  BY DEF HNext, hvars, HubStep, Publish, OpenConsumer, Send, OpenReceiver, Receive,
         ReceiveNothing, ReceiveFails, TimeOut, CloseConsumer, TimeoutPasses, ContextEnds,
         Connect, CloseProducer
<1>4. QED
  BY <1>1, <1>3, EventsGrow

\* A poll receives from one of the partitions that are left, a waitFor from its own.
LEMMA CurrentIs ==
  ASSUME HTypeOK, NEW p \in Proc
  PROVE  /\ todo[p] # {} => Current(p) \in todo[p] /\ Current(p) \in Partition
         /\ todo[p] = {PartitionOf(step[p])} => Current(p) = PartitionOf(step[p])
<1>1. todo[p] \in SUBSET Partition /\ todo[p] \in SUBSET Nat
  BY EventHubAssumption DEF HTypeOK
<1>2. todo[p] # {} => Current(p) \in todo[p]
  BY <1>1, FirstOf DEF Current
<1>3. QED
  BY <1>1, <1>2

\* A poll begins at the end of its partition.
LEMMA PollOpens ==
  ASSUME HTypeOK, NEW p \in Proc, todo[p] # {}, OpenReceiver(p)
  PROVE  /\ receiver' \in [Proc -> Nat \cup {None}]
         /\ receiver'[p] \in Nat
         /\ from' \in [Proc -> Nat] /\ from'[p] = receiver'[p]
         /\ todo[p] = {PartitionOf(step[p])} => receiver'[p] = Len(Waited(p))
<1> DEFINE end == Len(Log(p, Current(p)))
<1>1. HubOf(step[p]) \in Hub /\ Current(p) \in Partition
  BY CurrentIs, EventHubAssumption DEF HTypeOK
<1>2. end \in Nat
  BY <1>1 DEF HTypeOK, Log
<1>3. receiver' = [receiver EXCEPT ![p] = end] /\ from' = [from EXCEPT ![p] = receiver'[p]]
  BY DEF OpenReceiver, StartPosition
<1>4. todo[p] = {PartitionOf(step[p])} => end = Len(Waited(p))
  BY CurrentIs DEF Waited
<1> HIDE DEF end
<1>5. QED
  BY <1>2, <1>3, <1>4 DEF HTypeOK

\* A poll leaves a place of the partition, or no answer.
LEMMA PollTypes ==
  ASSUME HTypeOK, NEW p \in Proc, at[p] = "receiving", receiver[p] \in Nat, NEW n \in Nat, PollEnds(p, n)
  PROVE  /\ receiver' \in [Proc -> Nat \cup {None}]
         /\ result' \in [Proc -> Nat \cup {None}]
         /\ todo' \in [Proc -> SUBSET Partition]
         /\ at' \in [Proc -> {"idle", "sending", "polling", "receiving", "leaving"}]
<1> DEFINE q == Current(p)
           got == (receiver[p] + 1)..(receiver[p] + n)
           matching == {i \in got : Wanted(step[p], Log(p, q)[i])}
           first == CHOOSE i \in matching : \A j \in matching : i <= j
           isWait == step[p].action = "waitFor"
<1>1. /\ receiver' = [receiver EXCEPT ![p] = None]
      /\ result' = [result EXCEPT ![p] = IF isWait /\ matching # {} THEN first ELSE @]
      /\ todo' = [todo EXCEPT ![p] = IF isWait THEN @ ELSE @ \ {q}]
      /\ at' = [at EXCEPT ![p] =
           IF (isWait /\ matching # {}) \/ (~isWait /\ todo[p] = {q}) THEN "leaving" ELSE "polling"]
  BY DEF PollEnds, Goto
<1>2. matching \subseteq Nat
  OBVIOUS
<1> HIDE DEF matching
<1>3. matching # {} => first \in matching
  BY <1>2, FirstOf
<1> HIDE DEF first, isWait, q
<1>4. matching # {} => first \in Nat
  BY <1>2, <1>3
<1>5. QED
  BY <1>1, <1>4 DEF HTypeOK, None

\* Type correctness, of each step.
LEMMA HubTypesStep == HubInv /\ [HNext]_hvars => HTypeOK'
<1>0. SUFFICES ASSUME HubInv, [HNext]_hvars PROVE HTypeOK'
  OBVIOUS
<1>1. HTypeOK
  BY <1>0 DEF HubInv
<1>2. events' \in [Hub -> [Partition -> Seq(Events)]]
  BY <1>0, <1>1, EventsStay
<1>3. CASE UNCHANGED hvars
  BY <1>1, <1>3 DEF HTypeOK, hvars
<1>4. CASE Connect \/ CloseProducer
  BY <1>1, <1>2, <1>4 DEF HTypeOK, Connect, CloseProducer
<1>5. ASSUME NEW p \in Proc, NEW s \in Step, Publish(p, s) \/ OpenConsumer(p, s) PROVE HTypeOK'
  <2>1. Begin(p, s)
    BY <1>5 DEF Publish, OpenConsumer
  <2>2. HubOf(s) \in Hub /\ PartitionOf(s) \in Partition
    BY EventHubAssumption
  <2>4. from' \in [Proc -> Nat] /\ step' \in [Proc -> Step] /\ calls' \in 0..MaxCalls
    BY <1>1, <2>1, EventHubAssumption DEF HTypeOK, Begin
  <2>5. CASE Publish(p, s)
    BY <1>1, <1>2, <2>1, <2>4, <2>5 DEF HTypeOK, Publish, Begin, Goto
  <2>6. CASE OpenConsumer(p, s)
    <3>1. todo' \in [Proc -> SUBSET Partition]
      BY <1>1, <2>2, <2>6 DEF HTypeOK, OpenConsumer
    <3>2. QED
      BY <1>1, <1>2, <2>1, <2>4, <2>6, <3>1 DEF HTypeOK, OpenConsumer, Begin, Goto
  <2>7. QED
    BY <1>5, <2>5, <2>6
<1>6. ASSUME NEW p \in Proc, Send(p) \/ CloseConsumer(p) PROVE HTypeOK'
  <2>1. Return(p) /\ step' = step /\ calls' = calls /\ receiver' = receiver /\ producer' = producer
    BY <1>6 DEF Send, CloseConsumer
  <2>2. sender' \in [Proc -> {"nil", "adapter", "transient", "closed"}]
    BY <1>1, <1>6 DEF HTypeOK, Send, CloseConsumer
  <2>3. todo' \in [Proc -> SUBSET Partition]
    BY <1>1, <1>6 DEF HTypeOK, Send, CloseConsumer
  <2>4. QED
    BY <1>1, <1>2, <2>1, <2>2, <2>3 DEF HTypeOK, Return, Goto, None
<1>7. ASSUME NEW p \in Proc, OpenReceiver(p) PROVE HTypeOK'
  <2>1. todo[p] # {}
    BY <1>0, <1>7 DEF HubInv, CallRight, Began, OpenReceiver
  <2>2. receiver' \in [Proc -> Nat \cup {None}] /\ from' \in [Proc -> Nat]
    BY <1>1, <1>7, <2>1, PollOpens
  <2>3. QED
    BY <1>1, <1>2, <1>7, <2>2 DEF HTypeOK, OpenReceiver, Goto
<1>8. ASSUME NEW p \in Proc, Receive(p) \/ ReceiveNothing(p) PROVE HTypeOK'
  <2>1. at[p] = "receiving" /\ receiver[p] \in Nat
    BY <1>0, <1>8 DEF HubInv, CallRight, Polled, Receive, ReceiveNothing
  <2>2. PICK n \in Nat : PollEnds(p, n)
    BY <1>8 DEF Receive, ReceiveNothing
  <2>3. QED
    BY <1>1, <1>2, <1>8, <2>1, <2>2, PollTypes DEF HTypeOK, Receive, ReceiveNothing
<1>9. ASSUME NEW p \in Proc, ReceiveFails(p) \/ TimeOut(p) \/ TimeoutPasses(p) \/ ContextEnds(p)
      PROVE HTypeOK'
  BY <1>1, <1>2, <1>9 DEF HTypeOK, ReceiveFails, TimeOut, TimeoutPasses, ContextEnds, Goto
<1>10. QED
  BY <1>0, <1>3, <1>4, <1>5, <1>6, <1>7, <1>8, <1>9 DEF HNext, HubStep

\* What is right of a call stays so while it stands still, whatever is published.
LEMMA StaysRight ==
  ASSUME HubInv, [HNext]_hvars, NEW p \in Proc, CallRight(p),
         at'[p] = at[p], step'[p] = step[p], from'[p] = from[p], result'[p] = result[p],
         receiver'[p] = receiver[p], todo'[p] = todo[p]
  PROVE  CallRight(p)'
<1> DEFINE h == HubOf(step[p])
           r == PartitionOf(step[p])
<1>1. h \in Hub /\ r \in Partition
  BY EventHubAssumption DEF HubInv, HTypeOK
<1>2. /\ Len(events[h][r]) \in Nat
      /\ Len(events'[h][r]) \in Nat
      /\ Len(events'[h][r]) >= Len(events[h][r])
      /\ \A i \in 1..Len(events[h][r]) : events'[h][r][i] = events[h][r][i]
  BY <1>1, EventsStay DEF HubInv
<1>3. Waited(p) = events[h][r] /\ Waited(p)' = events'[h][r]
  BY DEF Waited, Log
<1> HIDE DEF h, r
<1>4. from[p] \in Nat
  BY DEF HubInv, HTypeOK
<1>5. Began(p)'
  BY DEF CallRight, Began
<1>6. Polled(p)'
  BY <1>2, <1>3 DEF CallRight, Polled
<1>7. Answered(p)'
  <2> SUFFICES ASSUME result[p] # None PROVE Answered(p)'
    BY DEF Answered
  <2>1. /\ result[p] \in 1..Len(events[h][r]) /\ from[p] < result[p]
        /\ Wanted(step[p], events[h][r][result[p]])
        /\ \A i \in (from[p] + 1)..(result[p] - 1) : ~Wanted(step[p], events[h][r][i])
    BY <1>3 DEF CallRight, Answered
  <2>2. \A i \in (from[p] + 1)..(result[p] - 1) : i \in 1..Len(events[h][r])
    BY <1>2, <1>4, <2>1
  <2>3. \A i \in (from[p] + 1)..(result[p] - 1) : ~Wanted(step[p], events'[h][r][i])
    BY <1>2, <2>1, <2>2
  <2>4. result[p] \in 1..Len(events'[h][r]) /\ Wanted(step[p], events'[h][r][result[p]])
    BY <1>2, <2>1
  <2> QED BY <1>3, <2>1, <2>3, <2>4 DEF Answered
<1>8. QED
  BY <1>5, <1>6, <1>7 DEF CallRight

\* A call that begins, and one that returns.
LEMMA BeginsRight ==
  ASSUME HubInv, HTypeOK', NEW p \in Proc, NEW s \in Step, Publish(p, s) \/ OpenConsumer(p, s)
  PROVE  CallRight(p)'
<1>1. at[p] = "idle" /\ result'[p] = None /\ step'[p] = s
  BY DEF HubInv, HTypeOK, CallRight, Began, Publish, OpenConsumer, Begin
<1>2. CASE Publish(p, s)
  <2>1. at'[p] = "sending"
    BY <1>2 DEF HubInv, HTypeOK, Publish, Goto
  <2>2. QED
    BY <1>1, <2>1 DEF CallRight, Began, Polled, Answered
<1>3. CASE OpenConsumer(p, s)
  <2>1. /\ at'[p] = "polling"
        /\ todo'[p] = IF s.action = "clear" THEN Partition ELSE {PartitionOf(s)}
    BY <1>3 DEF HubInv, HTypeOK, OpenConsumer, Begin, Goto
  <2>2. PartitionOf(s) \in Partition
    BY EventHubAssumption
  <2>4. Began(p)'
    BY <1>1, <2>1, <2>2 DEF Began
  <2>5. QED
    BY <1>1, <2>1, <2>4 DEF CallRight, Polled, Answered
<1>4. QED
  BY <1>2, <1>3

\* A publish or a close leaves nothing that its caller still waits for.
LEMMA ReturnsRight ==
  ASSUME HubInv, NEW p \in Proc, Send(p) \/ CloseConsumer(p)
  PROVE  CallRight(p)'
<1>1. at'[p] = "idle" /\ result'[p] = None
  BY DEF HubInv, HTypeOK, Send, CloseConsumer, Return, Goto
<1>2. QED
  BY <1>1 DEF CallRight, Began, Polled, Answered

\* A poll that begins.
LEMMA OpensRight ==
  ASSUME HubInv, NEW p \in Proc, OpenReceiver(p)
  PROVE  CallRight(p)'
<1>1. at[p] = "polling" /\ at'[p] = "receiving" /\ UNCHANGED <<events, todo, step, result>>
  BY DEF HubInv, HTypeOK, OpenReceiver, Goto
<1>2. Began(p) /\ todo[p] # {} /\ result[p] = None
  BY <1>1 DEF HubInv, CallRight, Began
<1>3. /\ receiver'[p] \in Nat /\ from'[p] = receiver'[p]
      /\ todo[p] = {PartitionOf(step[p])} => receiver'[p] = Len(Waited(p))
  BY <1>2, PollOpens DEF HubInv
<1>4. Waited(p)' = Waited(p)
  BY <1>1 DEF Waited, Log, HubInv, HTypeOK
<1>5. Began(p)'
  BY <1>1, <1>2 DEF Began
<1>6. Polled(p)'
  BY <1>1, <1>2, <1>3, <1>4 DEF Began, Polled
<1>7. QED
  BY <1>1, <1>2, <1>5, <1>6 DEF CallRight, Answered

\* A poll that ends: the first match is one of the events since the poll began.
LEMMA PollRight ==
  ASSUME HubInv, NEW p \in Proc, at[p] = "receiving", UNCHANGED <<events, step, from>>,
         NEW n \in Nat, n = 0 \/ n <= Len(Log(p, Current(p))) - receiver[p], PollEnds(p, n)
  PROVE  CallRight(p)'
<1> DEFINE q == Current(p)
           got == (receiver[p] + 1)..(receiver[p] + n)
           matching == {i \in got : Wanted(step[p], Log(p, q)[i])}
           first == CHOOSE i \in matching : \A j \in matching : i <= j
           isWait == step[p].action = "waitFor"
<1>1. /\ result'[p] = IF isWait /\ matching # {} THEN first ELSE result[p]
      /\ todo'[p] = IF isWait THEN todo[p] ELSE todo[p] \ {q}
      /\ at'[p] = IF (isWait /\ matching # {}) \/ (~isWait /\ todo[p] = {q}) THEN "leaving" ELSE "polling"
  BY DEF HubInv, HTypeOK, PollEnds, Goto
<1>2. /\ todo[p] # {}
      /\ result[p] = None
      /\ receiver[p] \in Nat /\ from[p] = receiver[p]
      /\ isWait => todo[p] = {PartitionOf(step[p])}
  BY DEF HubInv, CallRight, Began, Polled
<1>3. q \in todo[p] /\ (isWait => q = PartitionOf(step[p]))
  BY <1>2, CurrentIs DEF HubInv
<1>4. /\ Waited(p)' = Waited(p)
      /\ isWait => Waited(p) = Log(p, q)
      /\ from'[p] = from[p] /\ step' = step
      /\ Len(Waited(p)) \in Nat
  BY <1>3, EventHubAssumption DEF Waited, Log, HubInv, HTypeOK
<1>5. isWait /\ matching # {} =>
        /\ first \in 1..Len(Waited(p))
        /\ from[p] < first
        /\ Wanted(step[p], Waited(p)[first])
        /\ \A i \in (from[p] + 1)..(first - 1) : ~Wanted(step[p], Waited(p)[i])
  <2>1. SUFFICES ASSUME isWait, matching # {}
                 PROVE  /\ first \in 1..Len(Waited(p))
                        /\ from[p] < first
                        /\ Wanted(step[p], Waited(p)[first])
                        /\ \A i \in (from[p] + 1)..(first - 1) : ~Wanted(step[p], Waited(p)[i])
    OBVIOUS
  <2>2. matching \in SUBSET Nat
    BY <1>2
  <2>3. first \in matching /\ \A j \in matching : first <= j
    <3> HIDE DEF matching
    <3> QED
      BY <2>1, <2>2, FirstOf
  <2>4. first \in got /\ Wanted(step[p], Log(p, q)[first])
    <3> HIDE DEF first, got
    <3> QED
      BY <2>3
  <2>5. got # {}
    BY <2>4
  <2>6. n # 0
    BY <1>2, <2>5
  <2>7. receiver[p] + n <= Len(Waited(p))
    BY <1>2, <1>4, <2>1, <2>6
  <2> HIDE DEF first
  <2>8. first \in receiver[p] + 1..receiver[p] + n
    BY <2>4
  <2>9. ASSUME NEW i \in (from[p] + 1)..(first - 1) PROVE ~Wanted(step[p], Waited(p)[i])
    <3>1. i \in got /\ i < first
      BY <1>2, <2>8
    <3>2. i \notin matching
      <4> HIDE DEF matching, got
      <4>1. i \in matching => first <= i
        BY <2>3
      <4> QED BY <1>2, <2>8, <4>1
    <3>3. ~Wanted(step[p], Log(p, q)[i])
      <4> HIDE DEF got
      <4> QED BY <3>1, <3>2
    <3> QED BY <1>4, <2>1, <3>3
  <2>10. QED
    BY <1>2, <1>4, <2>1, <2>4, <2>7, <2>8, <2>9
<1> HIDE DEF q, matching, first, got
<1>6. Began(p)'
  BY <1>1, <1>2, <1>3, <1>4 DEF Began
<1>7. Polled(p)'
  BY <1>1 DEF Polled
<1>8. Answered(p)'
  BY <1>1, <1>2, <1>4, <1>5 DEF Answered
<1>9. QED
  BY <1>6, <1>7, <1>8 DEF CallRight

\* A call that gives up.
LEMMA EndsRight ==
  ASSUME HubInv, NEW p \in Proc, ReceiveFails(p) \/ TimeOut(p)
  PROVE  CallRight(p)'
<1>1. at[p] # "leaving" /\ at'[p] = "leaving" /\ result' = result
  BY DEF HubInv, HTypeOK, ReceiveFails, TimeOut, Goto
<1>2. result'[p] = None
  BY <1>1 DEF HubInv, CallRight, Began
<1>3. QED
  BY <1>1, <1>2 DEF CallRight, Began, Polled, Answered

\* The steps of one goroutine leave the call of every other where it is.
LEMMA OthersStand ==
  ASSUME HTypeOK, NEW p \in Proc, NEW q \in Proc \ {p},
         \/ \E s \in Step : Publish(p, s) \/ OpenConsumer(p, s)
         \/ HubStep(p)
  PROVE  /\ at'[q] = at[q] /\ step'[q] = step[q] /\ from'[q] = from[q] /\ result'[q] = result[q]
         /\ receiver'[q] = receiver[q] /\ todo'[q] = todo[q]
<1> USE DEF HTypeOK, Goto
<1>1. CASE \E s \in Step : Publish(p, s) \/ OpenConsumer(p, s)
  BY <1>1 DEF Publish, OpenConsumer, Begin
<1>2. CASE Send(p) \/ CloseConsumer(p)
  BY <1>2 DEF Send, CloseConsumer, Return
<1>3. CASE OpenReceiver(p) \/ ReceiveFails(p) \/ TimeOut(p)
  BY <1>3 DEF OpenReceiver, ReceiveFails, TimeOut
<1>4. CASE Receive(p) \/ ReceiveNothing(p)
  <2>1. UNCHANGED <<step, from>> /\ \E n \in Nat : PollEnds(p, n)
    BY <1>4 DEF Receive, ReceiveNothing
  <2>2. QED
    BY <2>1 DEF PollEnds
<1>5. QED
  BY <1>1, <1>2, <1>3, <1>4 DEF HubStep

\* Every call stays right, whoever moves.
LEMMA HubCallsStep == HubInv /\ [HNext]_hvars => \A q \in Proc : CallRight(q)'
<1>0. SUFFICES ASSUME HubInv, [HNext]_hvars, NEW q \in Proc PROVE CallRight(q)'
  OBVIOUS
<1>1. HTypeOK /\ HTypeOK' /\ CallRight(q)
  BY <1>0, HubTypesStep DEF HubInv
<1>2. CASE UNCHANGED <<at, step, from, result, receiver, todo>>
  BY <1>0, <1>1, <1>2, StaysRight
<1>3. ASSUME NEW p \in Proc,
             \/ \E s \in Step : Publish(p, s) \/ OpenConsumer(p, s)
             \/ HubStep(p)
      PROVE CallRight(q)'
  <2>1. CASE q # p
    BY <1>0, <1>1, <1>3, <2>1, OthersStand, StaysRight
  <2>2. ASSUME NEW s \in Step, Publish(p, s) \/ OpenConsumer(p, s) PROVE CallRight(p)'
    BY <1>0, <1>1, <2>2, BeginsRight
  <2>3. ASSUME HubStep(p) PROVE CallRight(p)'
    <3>1. CASE Send(p) \/ CloseConsumer(p)
      BY <1>0, <3>1, ReturnsRight
    <3>2. CASE OpenReceiver(p)
      BY <1>0, <3>2, OpensRight
    <3>3. CASE Receive(p) \/ ReceiveNothing(p)
      <4>1. at[p] = "receiving" /\ UNCHANGED <<events, step, from>>
        BY <3>3 DEF Receive, ReceiveNothing
      <4>2. \E n \in Nat : /\ n = 0 \/ n <= Len(Log(p, Current(p))) - receiver[p]
                           /\ PollEnds(p, n)
        BY <3>3 DEF Receive, ReceiveNothing
      <4>3. QED
        BY <1>0, <4>1, <4>2, PollRight
    <3>4. CASE ReceiveFails(p) \/ TimeOut(p)
      BY <1>0, <3>4, EndsRight
    <3>5. QED
      BY <2>3, <3>1, <3>2, <3>3, <3>4 DEF HubStep
  <2>4. QED
    BY <1>3, <2>1, <2>2, <2>3
<1>4. CASE Connect \/ CloseProducer \/ \E p \in Proc : TimeoutPasses(p) \/ ContextEnds(p)
  BY <1>2, <1>4 DEF Connect, CloseProducer, TimeoutPasses, ContextEnds
<1>5. QED
  BY <1>0, <1>2, <1>3, <1>4 DEF HNext, hvars

\* waitFor answers with the first event that matches of those after the place where
\* its last receiver was opened, for any hubs, partitions and steps, whatever polls,
\* publishers and deadlines come in between (eventhub.go:251, 335).
THEOREM HubAnswersFirst == HSpec => []HubAnswerIsFirst
<1>1. HInit => HubInv
  BY HubTypesBegin DEF HInit, HubInv, CallRight, Began, Polled, Answered
<1>2. HubInv /\ [HNext]_hvars => HubInv'
  BY HubTypesStep, HubCallsStep DEF HubInv
<1>3. HubInv => HubAnswerIsFirst
  BY DEF HubInv, CallRight, Answered, Waited, HubAnswerIsFirst
<1>4. QED
  BY <1>1, <1>2, <1>3, PTL DEF HSpec
-----------------------------------------------------------------------------
(* Progress.  What EveryCallReturns rests on, besides fairness: a call whose     *)
(* deadline has passed has a way on, and what it does brings it nearer to its    *)
(* return.                                                                       *)

\* How far a call of Kafka has come since it read a message.
KafkaPlace(place) ==
  IF place = "opened" THEN 1
  ELSE IF place = "committing" THEN 2
  ELSE IF place = "using" THEN 3
  ELSE IF place = "leaving" THEN 4
  ELSE IF place = "closed" THEN 5 ELSE 6

\* Only a call that is under way has a deadline, and once that has passed it can go
\* on: the guards of Track, WriteFails, ReadFails, CloseClient and Untrack.
KafkaNeverStuck ==
  \A p \in expired :
    \/ at[p] \in {"opened", "leaving", "closed"}
    \/ at[p] = "using" /\ ~Reads(p)
    \/ at[p] \in {"using", "committing"} /\ Reads(p)

\* No reader is beyond the topic.
ReadersBounded == \A p \in Proc : next[p] \in Nat /\ next[p] <= Len(topic)

\* A call returns, or reads another message, or goes on from there; but a rebalance
\* sends a reader of a group back.
KafkaGoesOn(p) ==
  \/ at'[p] = "idle"
  \/ next'[p] > next[p]
  \/ next'[p] = next[p] /\ KafkaPlace(at'[p]) > KafkaPlace(at[p])
  \/ Group /\ assigned # p /\ assigned' = p /\ at'[p] = at[p]

KafkaMoves ==
  \A p \in Proc : at[p] # "idle" => KafkaGoesOn(p) \/ UNCHANGED <<at[p], next[p]>>

\* A deadline belongs to a call, and commits are those of readers.
KafkaProgressInv ==
  /\ AnswerInv
  /\ \A p \in expired : at[p] # "idle"
  /\ \A p \in Proc : at[p] = "committing" => Reads(p)

\* Only a call has a deadline, and only a call with a reader commits.
LEMMA KafkaProgressStep ==
  KafkaProgressInv /\ [KNext]_kvars => /\ \A p \in expired' : at'[p] # "idle"
                                       /\ \A p \in Proc : at'[p] = "committing" => Reads(p)'
<1> SUFFICES ASSUME KafkaProgressInv, [KNext]_kvars
             PROVE  /\ \A p \in expired' : at'[p] # "idle"
                    /\ \A p \in Proc : at'[p] = "committing" => Reads(p)'
  OBVIOUS
<1> USE DEF KafkaProgressInv, AnswerInv, KTypeOK, Reads, Goto
<1>1. CASE UNCHANGED kvars
  BY <1>1 DEF kvars
<1>2. CASE Close \/ \E p \in Proc : Assign(p) \/ Expire(p)
  BY <1>2 DEF Close, Assign, Expire
<1>3. CASE \E p \in Proc : (\E s \in Step : Execute(p, s)) \/ Track(p) \/ Write(p) \/ WriteFails(p)
  BY <1>3 DEF Execute, Track, Write, WriteFails
<1>4. CASE \E p \in Proc : Fetch(p) \/ Commit(p)
  BY <1>4 DEF Fetch, Commit, Judge
<1>5. CASE \E p \in Proc : ReadFails(p) \/ CloseClient(p) \/ Untrack(p)
  BY <1>5 DEF ReadFails, CloseClient, Untrack, Forget
<1> QED BY <1>1, <1>2, <1>3, <1>4, <1>5 DEF KNext, CallStep

\* Every step of Kafka is one of the moves.
LEMMA KafkaStepMoves == KafkaProgressInv /\ KNext => KafkaMoves
<1> SUFFICES ASSUME KafkaProgressInv, KNext, NEW p \in Proc, at[p] # "idle"
             PROVE  KafkaGoesOn(p) \/ UNCHANGED <<at[p], next[p]>>
  BY DEF KafkaMoves
<1>1. /\ KTypeOK /\ at[p] \in Place /\ next[p] \in Nat /\ next[p] <= Len(topic)
      /\ at[p] = "committing" => Group
  BY DEF KafkaProgressInv, AnswerInv, KTypeOK, WithinTopic, Committing
<1> USE DEF Goto, KafkaGoesOn
<1>2. CASE Close \/ \E q \in Proc : Expire(q)
  BY <1>2 DEF Close, Expire
<1>3. ASSUME NEW q \in Proc, Assign(q)
      PROVE  KafkaGoesOn(p) \/ UNCHANGED <<at[p], next[p]>>
  BY <1>1, <1>3 DEF Assign, KTypeOK
<1>4. ASSUME NEW q \in Proc \ {p}, (\E s \in Step : Execute(q, s)) \/ CallStep(q)
      PROVE  UNCHANGED <<at[p], next[p]>>
  BY <1>1, <1>4 DEF Execute, CallStep, Track, Write, WriteFails, Fetch, Commit, Judge, ReadFails,
                    CloseClient, Untrack, Forget, KTypeOK
<1>5. CASE \E s \in Step : Execute(p, s)
  BY <1>5 DEF Execute
<1>6. CASE Track(p) \/ Write(p) \/ WriteFails(p) \/ ReadFails(p) \/ CloseClient(p) \/ Untrack(p)
  BY <1>1, <1>6 DEF Track, Write, WriteFails, ReadFails, CloseClient, Untrack, KTypeOK, KafkaPlace
<1>7. CASE Fetch(p)
  BY <1>1, <1>7 DEF Fetch, KTypeOK
<1>8. CASE Commit(p)
  BY <1>1, <1>8 DEF Commit, Judge, KTypeOK, KafkaPlace
<1> QED BY <1>2, <1>3, <1>4, <1>5, <1>6, <1>7, <1>8 DEF KNext, CallStep

\* A call of Kafka whose deadline has passed is under way and has a way on; and a
\* call goes on towards its return, message by message where it reads, of which there
\* are no more than the topic has, but for rebalances (Execute; kafka.go:411).
THEOREM KafkaCallsGoOn == KSpec => [](KafkaNeverStuck /\ ReadersBounded) /\ [][KafkaMoves]_kvars
<1>1. KInit => AnswerInv
  BY TypesBegin
  DEF KInit, AnswerInv, Committing, WithinTopic, StillLooking, AnswerIsFirstMatch, Offsets
<1>2. KInit => KafkaProgressInv
  BY <1>1 DEF KInit, KafkaProgressInv
<1>3. AnswerInv /\ [KNext]_kvars => AnswerInv'
  BY TypesStep, CommittingStep, WithinStep, AnswersStep DEF AnswerInv, Answers
<1>4. KafkaProgressInv /\ [KNext]_kvars => KafkaProgressInv'
  BY <1>3, KafkaProgressStep DEF KafkaProgressInv
<1>5. KafkaProgressInv => KafkaNeverStuck /\ ReadersBounded
  BY DEF KafkaProgressInv, AnswerInv, KTypeOK, WithinTopic, Place, KafkaNeverStuck, ReadersBounded
<1>6. KafkaProgressInv /\ [KNext]_kvars => [KafkaMoves]_kvars
  BY KafkaStepMoves
<1> QED BY <1>2, <1>4, <1>5, <1>6, PTL DEF KSpec

\* How far a call of Event Hubs has come with one partition.
HubPlace(place) ==
  IF place = "polling" THEN 1
  ELSE IF place = "receiving" THEN 2
  ELSE IF place \in {"sending", "leaving"} THEN 3 ELSE 4

\* Only a call that is under way has a deadline, and once that has passed it can go
\* on: the guards of Send, TimeOut, OpenReceiver, ReceiveNothing and CloseConsumer,
\* which have a partition to send to and one to receive from.
HubNeverStuck ==
  \A p \in expired :
    \/ at[p] = "sending" /\ (sender[p] # "closed" => Partition # {})
    \/ at[p] \in {"polling", "receiving"} /\ Current(p) \in todo[p]
    \/ at[p] = "leaving"

\* A call is done with a partition, or goes on with it; a waitFor polls again, but
\* only until its deadline.
HubGoesOn(p) ==
  \/ todo'[p] # todo[p] /\ todo'[p] \subseteq todo[p]
  \/ todo'[p] = todo[p] /\ HubPlace(at'[p]) > HubPlace(at[p])
  \/ todo'[p] = todo[p] /\ step[p].action = "waitFor" /\ at[p] = "receiving" /\ at'[p] = "polling"

HubMoves ==
  \A p \in Proc : at[p] # "idle" =>
    /\ HubGoesOn(p) \/ UNCHANGED <<at[p], todo[p]>>
    /\ at'[p] = "receiving" /\ at[p] # "receiving" /\ step[p].action = "waitFor" => p \notin expired

\* A deadline belongs to a call.
HubProgressInv == HubInv /\ \A p \in expired : at[p] # "idle"

\* Only a call has a deadline.
LEMMA HubExpiredStep ==
  HubProgressInv /\ [HNext]_hvars => \A p \in expired' : at'[p] # "idle"
<1> SUFFICES ASSUME HubProgressInv, [HNext]_hvars PROVE \A p \in expired' : at'[p] # "idle"
  OBVIOUS
<1> USE DEF HubProgressInv, HubInv, HTypeOK, Goto
<1>1. CASE UNCHANGED hvars
  BY <1>1 DEF hvars
<1>2. CASE Connect \/ CloseProducer \/ \E p \in Proc : TimeoutPasses(p) \/ ContextEnds(p)
  BY <1>2 DEF Connect, CloseProducer, TimeoutPasses, ContextEnds
<1>3. CASE \E p \in Proc, s \in Step : Publish(p, s) \/ OpenConsumer(p, s)
  BY <1>3 DEF Publish, OpenConsumer, Begin
<1>4. CASE \E p \in Proc : Send(p) \/ CloseConsumer(p)
  BY <1>4 DEF Send, CloseConsumer, Return
<1>5. CASE \E p \in Proc : OpenReceiver(p) \/ ReceiveFails(p) \/ TimeOut(p)
  BY <1>5 DEF OpenReceiver, ReceiveFails, TimeOut
<1>6. ASSUME NEW p \in Proc, Receive(p) \/ ReceiveNothing(p) PROVE \A q \in expired' : at'[q] # "idle"
  <2>1. /\ expired' = expired
        /\ \/ at' = [at EXCEPT ![p] = "leaving"]
           \/ at' = [at EXCEPT ![p] = "polling"]
    BY <1>6 DEF Receive, ReceiveNothing, PollEnds
  <2> QED BY <2>1
<1> QED BY <1>1, <1>2, <1>3, <1>4, <1>5, <1>6 DEF HNext, HubStep

\* Every step of Event Hubs is one of the moves.
LEMMA HubStepMoves == HubProgressInv /\ HNext => HubMoves
<1> SUFFICES ASSUME HubProgressInv, HNext, NEW p \in Proc, at[p] # "idle"
             PROVE  /\ HubGoesOn(p) \/ UNCHANGED <<at[p], todo[p]>>
                    /\ at'[p] = "receiving" /\ at[p] # "receiving" /\ step[p].action = "waitFor"
                         => p \notin expired
  BY DEF HubMoves
<1> DEFINE Goal == /\ HubGoesOn(p) \/ UNCHANGED <<at[p], todo[p]>>
                   /\ at'[p] = "receiving" /\ at[p] # "receiving" /\ step[p].action = "waitFor"
                        => p \notin expired
<1>1. HTypeOK /\ Began(p)
  BY DEF HubProgressInv, HubInv, CallRight
<1>2. ASSUME UNCHANGED <<at[p], todo[p]>> PROVE Goal
  BY <1>2
<1>3. ASSUME Connect \/ CloseProducer \/ \E q \in Proc : TimeoutPasses(q) \/ ContextEnds(q)
      PROVE  Goal
  BY <1>2, <1>3 DEF Connect, CloseProducer, TimeoutPasses, ContextEnds
<1>4. ASSUME NEW q \in Proc \ {p}, (\E s \in Step : Publish(q, s) \/ OpenConsumer(q, s)) \/ HubStep(q)
      PROVE  Goal
  BY <1>1, <1>2, <1>4, OthersStand
<1>5. ASSUME \E s \in Step : Publish(p, s) \/ OpenConsumer(p, s)
      PROVE  Goal
  BY <1>5 DEF Publish, OpenConsumer, Begin
<1>6. ASSUME Send(p) \/ OpenReceiver(p) \/ TimeOut(p)
      PROVE  Goal
  BY <1>1, <1>6 DEF Send, Return, OpenReceiver, TimeOut, Goto, HubGoesOn, HubPlace, HTypeOK
<1>7. ASSUME CloseConsumer(p)
      PROVE  Goal
  <2>1. at[p] = "leaving" /\ at'[p] = "idle" /\ todo'[p] = {}
    BY <1>1, <1>7 DEF CloseConsumer, Return, Goto, HTypeOK
  <2>2. todo'[p] # todo[p] => HubGoesOn(p)
    BY <2>1 DEF HubGoesOn
  <2>3. todo'[p] = todo[p] => HubGoesOn(p)
    BY <2>1 DEF HubGoesOn, HubPlace
  <2> QED BY <2>1, <2>2, <2>3
<1>8. ASSUME Receive(p) \/ ReceiveNothing(p)
      PROVE  Goal
  <2> DEFINE rest == IF step[p].action = "waitFor" THEN todo[p] ELSE todo[p] \ {Current(p)}
  <2>1. /\ at[p] = "receiving" /\ todo'[p] = rest
        /\ at'[p] = "leaving" \/ at'[p] = "polling"
    BY <1>1, <1>8 DEF Receive, ReceiveNothing, PollEnds, Goto, HTypeOK
  <2>2. Current(p) \in todo[p]
    BY <1>1, <2>1, CurrentIs DEF Began
  <2>3. CASE step[p].action = "waitFor"
    BY <2>1, <2>3 DEF HubGoesOn, HubPlace
  <2>4. CASE step[p].action # "waitFor"
    BY <2>1, <2>2, <2>4 DEF HubGoesOn
  <2> QED BY <2>1, <2>3, <2>4
<1>9. ASSUME ReceiveFails(p)
      PROVE  Goal
  BY <1>1, <1>9 DEF ReceiveFails, Goto, HubGoesOn, HubPlace, HTypeOK
<1> HIDE DEF Goal
<1>10. ASSUME HubStep(p) PROVE Goal
  BY <1>6, <1>7, <1>8, <1>9, <1>10, Zenon DEF HubStep
<1>11. Goal
  BY <1>3, <1>4, <1>5, <1>10, Zenon DEF HNext
<1> QED BY <1>11 DEF Goal

\* A call of Event Hubs whose deadline has passed is under way and has a way on; and a
\* call goes on towards its return, partition by partition, but for the polls of a
\* waitFor, of which none begins after its deadline (executeWaitFor, executeClear;
\* eventhub.go:235).
THEOREM HubCallsGoOn == HSpec => []HubNeverStuck /\ [][HubMoves]_hvars
<1>1. HInit => HubProgressInv
  BY HubTypesBegin DEF HInit, HubProgressInv, HubInv, CallRight, Began, Polled, Answered
<1>2. HubInv /\ [HNext]_hvars => HubInv'
  BY HubTypesStep, HubCallsStep DEF HubInv
<1>3. HubProgressInv /\ [HNext]_hvars => HubProgressInv'
  BY <1>2, HubExpiredStep DEF HubProgressInv
<1>4. HubProgressInv => HubNeverStuck
  <2> SUFFICES ASSUME HubProgressInv, NEW p \in expired
               PROVE  \/ at[p] = "sending" /\ (sender[p] # "closed" => Partition # {})
                      \/ at[p] \in {"polling", "receiving"} /\ Current(p) \in todo[p]
                      \/ at[p] = "leaving"
    BY DEF HubNeverStuck
  <2>1. /\ HTypeOK /\ p \in Proc /\ Began(p)
        /\ at[p] \in {"sending", "polling", "receiving", "leaving"}
    BY DEF HubProgressInv, HubInv, CallRight, HTypeOK
  <2>2. Partition # {}
    BY EventHubAssumption
  <2>3. at[p] \in {"polling", "receiving"} => Current(p) \in todo[p]
    BY <2>1, CurrentIs DEF Began
  <2> QED BY <2>1, <2>2, <2>3
<1>5. HubProgressInv /\ [HNext]_hvars => [HubMoves]_hvars
  BY HubStepMoves
<1> QED BY <1>1, <1>3, <1>4, <1>5, PTL DEF HSpec
=============================================================================
