-------------------------- MODULE SelectionProofs --------------------------
(***************************************************************************)
(* What is selected is what was asked for, the sort keeps the names and    *)
(* puts dependencies first, and each reporter has each result: proofs, for *)
(* every suite, command and configuration, of the invariants of Selection  *)
(* and Reporting.                                                          *)
(***************************************************************************)
EXTENDS Reporting, RunOrder, FiniteSetTheorems, WellFoundedInduction, TLAPS

-----------------------------------------------------------------------------
(* The walk of topoSortTests.  What is marked is what is placed and what is on   *)
(* the stack; a frame waits for the one above it.                                *)

WalkTyped ==
  /\ \A i \in DOMAIN tests : tests[i].depends \in Seq(STRING)
  /\ left \subseteq DOMAIN tests
  /\ sorted \in Seq(ToSet(tests))
  /\ frames \in Seq([td : ToSet(tests), next : Nat \ {0}])

Marked ==
  /\ \A i \in DOMAIN sorted : sorted[i].name \in visited
  /\ \A k \in DOMAIN frames : frames[k].td.name \in visited
  /\ \A n \in visited : \/ \E i \in DOMAIN sorted : sorted[i].name = n
                        \/ \E k \in DOMAIN frames : frames[k].td.name = n
  /\ \A i \in DOMAIN tests \ left : tests[i].name \in visited

Distinct ==
  /\ \A i, j \in DOMAIN sorted : sorted[i].name = sorted[j].name => i = j
  /\ \A k, l \in DOMAIN frames : frames[k].td.name = frames[l].td.name => k = l
  /\ \A k \in DOMAIN frames : \A i \in DOMAIN sorted : frames[k].td.name # sorted[i].name

\* The dependency before `next' of a frame is what the frame above it is for.
Stacked ==
  \A k \in DOMAIN frames : k + 1 \in DOMAIN frames =>
    /\ frames[k].next - 1 \in DOMAIN frames[k].td.depends
    /\ frames[k].td.depends[frames[k].next - 1] = frames[k + 1].td.name

Looked ==
  \A k \in DOMAIN frames : \A j \in DOMAIN frames[k].td.depends :
    j < frames[k].next /\ frames[k].td.depends[j] \in NamesOf(tests)
      => frames[k].td.depends[j] \in visited

Placed ==
  Acyclic => \A i \in DOMAIN sorted : \A d \in ToSet(sorted[i].depends) \cap NamesOf(tests) :
               \E j \in 1..i - 1 : sorted[j].name = d

WalkInv == WalkTyped /\ Marked /\ Distinct /\ Stacked /\ Looked /\ Placed

\* A name of a sequence of definitions is that of one of them.
LEMMA InNamesOf ==
  ASSUME NEW defs, NEW n
  PROVE  n \in NamesOf(defs) <=> \E i \in DOMAIN defs : defs[i].name = n
BY DEF NamesOf

\* An element of a sequence is in the set that the sequence is over.
LEMMA InSeq ==
  ASSUME NEW S, NEW s \in Seq(S)
  PROVE  \A k \in DOMAIN s : k \in Nat \ {0} /\ s[k] \in S
OBVIOUS

\* The frames and the lists of dependencies have their types.
LEMMA FrameTyped ==
  ASSUME WalkTyped
  PROVE  \A k \in DOMAIN frames :
           /\ frames[k].td \in ToSet(tests)
           /\ frames[k].next \in Nat \ {0}
           /\ DOMAIN frames[k].td.depends \subseteq Nat \ {0}
<1>1. \A k \in DOMAIN frames : frames[k] \in [td : ToSet(tests), next : Nat \ {0}]
  BY InSeq DEF WalkTyped
<1>2. \A td \in ToSet(tests) : td.depends \in Seq(STRING)
  BY DEF WalkTyped, ToSet
<1>3. \A td \in ToSet(tests) : DOMAIN td.depends \subseteq Nat \ {0}
  BY <1>2, InSeq
<1> QED BY <1>1, <1>3

\* What is derived from the tests stays while they do.
LEMMA SameTests ==
  ASSUME UNCHANGED tests
  PROVE  /\ NamesOf(tests)' = NamesOf(tests)
         /\ ToSet(tests)' = ToSet(tests)
         /\ Acyclic' <=> Acyclic
BY DEF NamesOf, ToSet, Acyclic, DependsOn

\* The walk begins with nothing visited.
LEMMA BeginInv ==
  ASSUME \A i \in DOMAIN tests : tests[i].depends \in Seq(STRING), Begin, UNCHANGED tests
  PROVE  WalkInv'
BY DEF Begin, WalkInv, WalkTyped, Marked, Distinct, Stacked, Looked, Placed, NamesOf

\* A call of visit for a definition that is not marked: the frames below keep
\* their definitions, and the one below it looks at the next dependency now.
LEMMA PushInv ==
  ASSUME WalkInv, NEW td \in ToSet(tests), td.name \notin visited,
         NEW n \in Nat, DOMAIN frames = 1..n,
         WalkTyped', DOMAIN frames' = 1..n + 1,
         frames'[n + 1].td = td, frames'[n + 1].next = 1,
         \A k \in 1..n : frames'[k].td = frames[k].td,
         \A k \in 1..n - 1 : frames'[k].next = frames[k].next,
         n # 0 => /\ frames'[n].next = frames[n].next + 1
                  /\ frames[n].next \in DOMAIN frames[n].td.depends
                  /\ frames[n].td.depends[frames[n].next] = td.name,
         visited' = visited \cup {td.name},
         left' \subseteq left,
         \A i \in left \ left' : tests[i].name = td.name,
         tests' = tests, sorted' = sorted
  PROVE  WalkInv'
<1> USE DEF WalkInv
<1>1. \A k \in 1..n : /\ frames[k].td \in ToSet(tests)
                    /\ frames[k].next \in Nat \ {0}
                    /\ DOMAIN frames[k].td.depends \subseteq Nat \ {0}
  BY FrameTyped
<1>3. Marked'
  BY DEF Marked
<1>4. Distinct'
  <2>1. \A k, l \in 1..n + 1 : frames'[k].td.name = frames'[l].td.name => k = l
    <3>1. \A k \in 1..n : frames'[k].td.name \in visited /\ (k # n + 1)
      BY DEF Marked
    <3>2. \A k, l \in 1..n : frames'[k].td.name = frames'[l].td.name => k = l
      BY DEF Distinct
    <3> QED BY <3>1, <3>2
  <2>2. \A k \in 1..n + 1 : \A i \in DOMAIN sorted : frames'[k].td.name # sorted[i].name
    <3>1. \A k \in 1..n : \A i \in DOMAIN sorted : frames'[k].td.name # sorted[i].name
      BY DEF Distinct
    <3>2. \A i \in DOMAIN sorted : frames'[n + 1].td.name # sorted[i].name
      BY DEF Marked
    <3> QED BY <3>1, <3>2
  <2> QED BY <2>1, <2>2 DEF Distinct
<1>5. Stacked'
  <2> SUFFICES ASSUME NEW k \in 1..n
               PROVE  /\ frames'[k].next - 1 \in DOMAIN frames'[k].td.depends
                      /\ frames'[k].td.depends[frames'[k].next - 1] = frames'[k + 1].td.name
    BY DEF Stacked
  <2>1. CASE k = n
    <3>1. frames'[n].next - 1 = frames[n].next
      BY <2>1, <1>1
    <3> QED BY <2>1, <3>1
  <2>2. CASE k # n
    <3>1. k \in 1..n - 1 /\ k + 1 \in 1..n
      BY <2>2
    <3> QED BY <3>1 DEF Stacked
  <2> QED BY <2>1, <2>2
<1>6. Looked'
  <2> SUFFICES ASSUME NEW k \in 1..n + 1, NEW j \in DOMAIN frames'[k].td.depends,
                      j < frames'[k].next, frames'[k].td.depends[j] \in NamesOf(tests)
               PROVE  frames'[k].td.depends[j] \in visited'
    BY SameTests DEF Looked
  <2>1. j \in Nat \ {0}
    <3>1. td.depends \in Seq(STRING)
      BY DEF ToSet, WalkTyped
    <3>2. DOMAIN td.depends \subseteq Nat \ {0}
      BY <3>1, InSeq
    <3>3. CASE k = n + 1
      BY <3>2, <3>3
    <3>4. CASE k \in 1..n
      BY <3>4, <1>1
    <3> QED BY <3>3, <3>4
  <2>2. k \in 1..n
    BY <2>1
  <2>3. CASE j < frames[k].next
    BY <2>2, <2>3 DEF Looked
  <2>4. CASE ~(j < frames[k].next)
    BY <2>1, <2>2, <2>4, <1>1
  <2> QED BY <2>3, <2>4
<1>7. Placed'
  BY SameTests DEF Placed
<1> QED BY <1>3, <1>4, <1>5, <1>6, <1>7

\* A dependency that is marked, or that the index does not know, is passed over.
LEMMA PassInv ==
  ASSUME WalkInv,
         NEW n \in Nat \ {0}, DOMAIN frames = 1..n,
         WalkTyped', DOMAIN frames' = 1..n,
         \A k \in 1..n : frames'[k].td = frames[k].td,
         \A k \in 1..n - 1 : frames'[k].next = frames[k].next,
         frames'[n].next = frames[n].next + 1,
         frames[n].td.depends[frames[n].next] \in NamesOf(tests)
           => frames[n].td.depends[frames[n].next] \in visited,
         visited' = visited, left' = left, tests' = tests, sorted' = sorted
  PROVE  WalkInv'
<1> USE DEF WalkInv
<1>1. \A k \in 1..n : /\ frames[k].td \in ToSet(tests)
                    /\ frames[k].next \in Nat \ {0}
                    /\ DOMAIN frames[k].td.depends \subseteq Nat \ {0}
  BY FrameTyped
<1>3. Marked' /\ Distinct'
  BY DEF Marked, Distinct
<1>4. Stacked'
  BY DEF Stacked
<1>5. Looked'
  <2> SUFFICES ASSUME NEW k \in 1..n, NEW j \in DOMAIN frames[k].td.depends,
                      j < frames'[k].next, frames[k].td.depends[j] \in NamesOf(tests)
               PROVE  frames[k].td.depends[j] \in visited
    BY SameTests DEF Looked
  <2>1. j \in Nat
    BY <1>1
  <2>2. CASE j < frames[k].next
    BY <2>2 DEF Looked
  <2>3. CASE ~(j < frames[k].next)
    BY <2>1, <2>3, <1>1
  <2> QED BY <2>2, <2>3
<1>6. Placed'
  BY SameTests DEF Placed
<1> QED BY <1>3, <1>4, <1>5, <1>6
\* A call that returns: what it is for is placed after all that it depends on.  A
\* dependency on the stack closes a cycle.
LEMMA PopInv ==
  ASSUME WalkInv,
         NEW n \in Nat \ {0}, DOMAIN frames = 1..n,
         NEW m \in Nat, DOMAIN sorted = 1..m,
         WalkTyped', DOMAIN frames' = 1..n - 1,
         \A k \in 1..n - 1 : frames'[k] = frames[k],
         frames[n].next \notin DOMAIN frames[n].td.depends,
         DOMAIN sorted' = 1..m + 1,
         \A i \in 1..m : sorted'[i] = sorted[i],
         sorted'[m + 1] = frames[n].td,
         visited' = visited, left' = left, tests' = tests
  PROVE  WalkInv'
<1> USE DEF WalkInv
<1>1. \A k \in 1..n : /\ frames[k].td \in ToSet(tests)
                    /\ frames[k].next \in Nat \ {0}
                    /\ DOMAIN frames[k].td.depends \subseteq Nat \ {0}
  BY FrameTyped
<1>3. Marked'
  <2>1. \A x \in visited' : \/ \E i \in DOMAIN sorted' : sorted'[i].name = x
                          \/ \E k \in DOMAIN frames' : frames'[k].td.name = x
    <3> SUFFICES ASSUME NEW x \in visited,
                        \A i \in 1..m + 1 : sorted'[i].name # x
                 PROVE  \E k \in 1..n - 1 : frames'[k].td.name = x
      OBVIOUS
    <3>1. \A i \in 1..m : sorted[i].name # x
      OBVIOUS
    <3>2. PICK k \in 1..n : frames[k].td.name = x
      BY <3>1 DEF Marked
    <3>3. k # n
      BY <3>2
    <3> QED BY <3>2, <3>3
  <2>2. \A i \in DOMAIN sorted' : sorted'[i].name \in visited'
    BY DEF Marked
  <2> QED BY <2>1, <2>2 DEF Marked
<1>4. Distinct'
  <2>1. \A i, j \in 1..m + 1 : sorted'[i].name = sorted'[j].name => i = j
    <3>1. \A i \in 1..m : sorted'[i].name # sorted'[m + 1].name
      BY DEF Distinct
    <3>2. \A i, j \in 1..m : sorted'[i].name = sorted'[j].name => i = j
      BY DEF Distinct
    <3> QED BY <3>1, <3>2
  <2>2. \A k, l \in 1..n - 1 : frames'[k].td.name = frames'[l].td.name => k = l
    BY DEF Distinct
  <2>3. \A k \in 1..n - 1 : \A i \in 1..m + 1 : frames'[k].td.name # sorted'[i].name
    <3>1. \A k \in 1..n - 1 : \A i \in 1..m : frames[k].td.name # sorted[i].name
      BY DEF Distinct
    <3>2. \A k \in 1..n - 1 : frames[k].td.name # frames[n].td.name
      BY DEF Distinct
    <3> QED BY <3>1, <3>2
  <2> QED BY <2>1, <2>2, <2>3 DEF Distinct
<1>5. Stacked'
  <2>1. \A k \in 1..n - 1 : k \in 1..n
    OBVIOUS
  <2> QED BY <2>1 DEF Stacked
<1>6. Looked'
  BY SameTests DEF Looked
<1>7. Placed'
  <2> SUFFICES ASSUME Acyclic, NEW i \in 1..m + 1,
                      NEW d \in ToSet(sorted'[i].depends), d \in NamesOf(tests)
               PROVE  \E j \in 1..i - 1 : sorted'[j].name = d
    BY SameTests DEF Placed
  <2>1. CASE i # m + 1
    <3>1. i \in 1..m /\ \A j \in 1..i - 1 : j \in 1..m
      BY <2>1
    <3> QED BY <3>1 DEF Placed
  <2>2. CASE i = m + 1
    <3>1. PICK x \in DOMAIN frames[n].td.depends : frames[n].td.depends[x] = d
      BY <2>2 DEF ToSet
    <3>2. d \in visited
      <4>1. x \in Nat \ {0} /\ frames[n].next \in Nat \ {0}
        BY <1>1
      <4>2. CASE x < frames[n].next
        BY <3>1, <4>2 DEF Looked
      <4>3. CASE ~(x < frames[n].next)
        \* The list has no gap below x.
        <5>1. frames[n].td.depends \in Seq(STRING)
          BY <1>1 DEF WalkTyped, ToSet
        <5>2. DOMAIN frames[n].td.depends = 1..Len(frames[n].td.depends) /\ Len(frames[n].td.depends) \in Nat
          BY <5>1
        <5> QED BY <4>1, <4>3, <5>2
      <4> QED BY <4>2, <4>3
    <3>3. ASSUME NEW k \in 1..n, frames[k].td.name = d PROVE FALSE
      <4> DEFINE S == {frames[l].td.name : l \in k..n}
      <4>1. S \in (SUBSET NamesOf(tests)) \ {{}}
        <5>1. \A l \in k..n : frames[l].td.name \in NamesOf(tests)
          <6>1. \A l \in 1..n : frames[l].td.name \in NamesOf(tests)
            BY <1>1, InNamesOf DEF ToSet
          <6> QED BY <6>1
        <5>2. k \in k..n
          OBVIOUS
        <5>3. frames[k].td.name \in S
          BY <5>2
        <5>4. S \subseteq NamesOf(tests)
          BY <5>1
        <5> HIDE DEF S
        <5> QED BY <5>3, <5>4
      <4>2. PICK a \in S : \A b \in S : ~DependsOn(a, b)
        BY <4>1 DEF Acyclic
      <4>3. PICK l \in k..n : frames[l].td.name = a
        OBVIOUS
      <4>4. \A b \in ToSet(frames[l].td.depends) : DependsOn(a, b)
        BY <1>1, <4>3 DEF DependsOn, ToSet
      <4>5. CASE l = n
        <5>1. d \in ToSet(frames[l].td.depends)
          BY <3>1, <4>5 DEF ToSet
        <5>2. d \in S
          BY <3>3
        <5> QED BY <4>2, <4>4, <5>1, <5>2
      <4>6. CASE l # n
        <5>1. l \in 1..n - 1 /\ l + 1 \in k..n
          BY <4>6
        <5>2. frames[l + 1].td.name \in ToSet(frames[l].td.depends)
          <6>1. l \in DOMAIN frames /\ l + 1 \in DOMAIN frames
            BY <5>1
          <6> QED BY <6>1 DEF Stacked, ToSet
        <5>3. frames[l + 1].td.name \in S
          BY <5>1
        <5> QED BY <4>2, <4>4, <5>2, <5>3
      <4> QED BY <4>5, <4>6
    <3>4. PICK j \in 1..m : sorted[j].name = d
      BY <3>2, <3>3 DEF Marked
    <3> QED BY <2>2, <3>4
  <2> QED BY <2>1, <2>2
<1> QED BY <1>3, <1>4, <1>5, <1>6, <1>7

\* A sequence is empty when its length is 0.
LEMMA SeqFacts ==
  ASSUME NEW S, NEW s \in Seq(S)
  PROVE  /\ Len(s) \in Nat
         /\ DOMAIN s = 1..Len(s)
         /\ s # << >> <=> Len(s) # 0
OBVIOUS

\* A sequence without its last element: the stack after a return.
LEMMA SeqFront ==
  ASSUME NEW S, NEW s \in Seq(S), s # << >>
  PROVE  /\ SubSeq(s, 1, Len(s) - 1) \in Seq(S)
         /\ DOMAIN SubSeq(s, 1, Len(s) - 1) = 1..Len(s) - 1
         /\ Len(SubSeq(s, 1, Len(s) - 1)) = Len(s) - 1
         /\ \A k \in 1..Len(s) - 1 : SubSeq(s, 1, Len(s) - 1)[k] = s[k]
<1> DEFINE front == SubSeq(s, 1, Len(s) - 1)
<1>1. Len(s) \in Nat \ {0}
  BY SeqFacts
<1>2. front \in Seq(S) /\ Len(front) = Len(s) - 1
  <2>1. Len(front) = Len(s) - 1
    <3>1. \A n \in Nat : Len(SubSeq(s, 1, n)) = n
      OBVIOUS
    <3>2. Len(s) - 1 \in Nat
      BY <1>1
    <3> QED BY <3>1, <3>2
  <2>2. front \in Seq(S)
    OBVIOUS
  <2> QED BY <2>1, <2>2
<1>3. \A k \in 1..Len(s) - 1 : front[k] = s[k]
  BY <1>1
<1>4. DOMAIN front = 1..Len(s) - 1
  BY <1>2, SeqFacts
<1> QED BY <1>2, <1>3, <1>4

\* A sequence with an element more: the stack after a call.
LEMMA SeqAppend ==
  ASSUME NEW S, NEW s \in Seq(S), NEW e \in S
  PROVE  /\ Append(s, e) \in Seq(S)
         /\ DOMAIN Append(s, e) = 1..Len(s) + 1
         /\ Append(s, e)[Len(s) + 1] = e
         /\ \A k \in 1..Len(s) : Append(s, e)[k] = s[k]
OBVIOUS

\* The frames below the top and the top, one dependency further.
LEMMA NextDependency ==
  ASSUME WalkTyped, frames # << >>,
         NEW n, n = Len(frames),
         NEW callers, callers = Append(Outer, [Top EXCEPT !.next = @ + 1])
  PROVE  /\ callers \in Seq([td : ToSet(tests), next : Nat \ {0}])
         /\ n \in Nat \ {0} /\ DOMAIN frames = 1..n /\ Len(callers) = n /\ DOMAIN callers = 1..n
         /\ \A k \in 1..n : callers[k].td = frames[k].td
         /\ \A k \in 1..n - 1 : callers[k].next = frames[k].next
         /\ callers[n].next = frames[n].next + 1
<1> DEFINE F == [td : ToSet(tests), next : Nat \ {0}]
<1>1. frames \in Seq(F) /\ n \in Nat \ {0} /\ DOMAIN frames = 1..n
  BY SeqFacts DEF WalkTyped
<1>2. Top \in F /\ Top = frames[n]
  <2>1. n \in DOMAIN frames
    BY <1>1
  <2> QED BY <1>1, <2>1, InSeq DEF Top
<1>3. [Top EXCEPT !.next = @ + 1] \in F
  BY <1>2
<1>4. Outer \in Seq(F) /\ Len(Outer) = n - 1 /\ \A k \in 1..n - 1 : Outer[k] = frames[k]
  BY <1>1, SeqFront DEF Outer
<1>5. /\ callers \in Seq(F)
      /\ DOMAIN callers = 1..n
      /\ callers[n] = [Top EXCEPT !.next = @ + 1]
      /\ \A k \in 1..n - 1 : callers[k] = frames[k]
  <2>1. Len(Outer) + 1 = n
    BY <1>1, <1>4
  <2> QED BY <1>3, <1>4, <2>1, SeqAppend
<1>6. Len(callers) = n
  BY <1>1, <1>5, SeqFacts
<1>7. callers[n].td = frames[n].td /\ callers[n].next = frames[n].next + 1
  BY <1>2, <1>5
<1> QED BY <1>1, <1>5, <1>6, <1>7

\* The walk enters the next test of the list.
LEMMA VisitTestInv ==
  ASSUME WalkInv, VisitTest, tests' = tests
  PROVE  WalkInv'
<1> DEFINE F == [td : ToSet(tests), next : Nat \ {0}]
<1>1. WalkTyped
  BY DEF WalkInv
<1>2. PICK i \in left : left' = left \ {i} /\ Visit(tests[i], << >>)
  BY DEF VisitTest
<1>3. tests[i] \in ToSet(tests) /\ sorted' = sorted /\ frames = << >> /\ DOMAIN frames = 1..0
  BY <1>1 DEF VisitTest, WalkTyped, ToSet
<1>4. CASE tests[i].name \in visited
  <2>1. frames' = frames /\ visited' = visited
    BY <1>3, <1>4, <1>2 DEF Visit
  <2>2. WalkTyped'
    BY <1>1, <1>2, <1>3, <2>1, SameTests DEF WalkTyped
  <2>3. Marked' /\ Distinct' /\ Stacked'
    BY <1>2, <1>3, <1>4, <2>1 DEF WalkInv, Marked, Distinct, Stacked
  <2>4. Looked' /\ Placed'
    BY <1>3, <2>1, SameTests DEF WalkInv, Looked, Placed
  <2> QED BY <2>2, <2>3, <2>4 DEF WalkInv
<1>5. CASE tests[i].name \notin visited
  <2>1. frames' = Append(<< >>, [td |-> tests[i], next |-> 1]) /\ visited' = visited \cup {tests[i].name}
    BY <1>5, <1>2 DEF Visit
  <2>2. [td |-> tests[i], next |-> 1] \in F /\ << >> \in Seq(F) /\ Len(<< >>) = 0
    BY <1>3
  <2>3. frames' \in Seq(F) /\ DOMAIN frames' = 1..0 + 1 /\ frames'[0 + 1] = [td |-> tests[i], next |-> 1]
    BY <2>1, <2>2, SeqAppend
  <2>4. WalkTyped'
    BY <1>1, <1>2, <1>3, <2>3, SameTests DEF WalkTyped
  <2>5. frames'[0 + 1].td = tests[i] /\ frames'[0 + 1].next = 1
    BY <2>3
  <2>6. /\ left' \subseteq left
        /\ \A j \in left \ left' : tests[j].name = tests[i].name
        /\ \A k \in 1..0 : frames'[k].td = frames[k].td
        /\ \A k \in 1..0 - 1 : frames'[k].next = frames[k].next
    BY <1>2
  <2>7. 0 \in Nat
    OBVIOUS
  <2> HIDE DEF F
  <2> QED BY <1>3, <1>5, <2>1, <2>3, <2>4, <2>5, <2>6, <2>7, PushInv
<1> QED BY <1>4, <1>5

\* The walk enters, or passes, the next dependency.
LEMMA VisitDependencyInv ==
  ASSUME WalkInv, VisitDependency, tests' = tests
  PROVE  WalkInv'
<1> DEFINE F == [td : ToSet(tests), next : Nat \ {0}]
           n == Len(frames)
           d == frames[n].td.depends[frames[n].next]
           callers == Append(Outer, [Top EXCEPT !.next = @ + 1])
<1>1. WalkTyped /\ frames # << >>
  BY DEF WalkInv, VisitDependency
<1>2. /\ callers \in Seq(F)
      /\ n \in Nat \ {0} /\ DOMAIN frames = 1..n /\ Len(callers) = n /\ DOMAIN callers = 1..n
      /\ \A k \in 1..n : callers[k].td = frames[k].td
      /\ \A k \in 1..n - 1 : callers[k].next = frames[k].next
      /\ callers[n].next = frames[n].next + 1
  BY <1>1, NextDependency
<1>3. /\ frames[n].next \in DOMAIN frames[n].td.depends
      /\ left' = left /\ sorted' = sorted
  BY DEF VisitDependency, Top
<1>4. IF d \in NamesOf(tests)
      THEN \E i \in DOMAIN tests : IsIndexed(d, i) /\ Visit(tests[i], callers)
      ELSE frames' = callers /\ UNCHANGED visited
  BY DEF VisitDependency, Top
<1> HIDE DEF callers
<1>5. ASSUME frames' = callers, visited' = visited, d \in NamesOf(tests) => d \in visited
      PROVE  WalkInv'
  <2>1. WalkTyped'
    BY <1>1, <1>2, <1>3, <1>5, SameTests DEF WalkTyped
  <2>2. /\ DOMAIN frames' = 1..n
        /\ \A k \in 1..n : frames'[k].td = frames[k].td
        /\ \A k \in 1..n - 1 : frames'[k].next = frames[k].next
        /\ frames'[n].next = frames[n].next + 1
    BY <1>2, <1>5
  <2>3. n \in Nat \ {0} /\ DOMAIN frames = 1..n
    BY <1>2
  <2> HIDE DEF n
  <2> QED BY <1>3, <1>5, <2>1, <2>2, <2>3, PassInv
<1>6. CASE d \notin NamesOf(tests)
  BY <1>4, <1>5, <1>6
<1>7. CASE d \in NamesOf(tests)
  <2>1. PICK i \in DOMAIN tests : tests[i].name = d /\ Visit(tests[i], callers)
    BY <1>4, <1>7 DEF IsIndexed
  <2>2. CASE d \in visited
    BY <1>5, <2>1, <2>2 DEF Visit
  <2>3. CASE d \notin visited
    <3> DEFINE td == tests[i]
    <3>1. frames' = Append(callers, [td |-> td, next |-> 1]) /\ visited' = visited \cup {td.name}
      BY <2>1, <2>3 DEF Visit
    <3>2. td \in ToSet(tests)
      BY DEF ToSet
    <3>3. [td |-> td, next |-> 1] \in F
      BY <3>2
    <3>4. /\ frames' \in Seq(F)
          /\ DOMAIN frames' = 1..n + 1
          /\ frames'[n + 1] = [td |-> td, next |-> 1]
          /\ \A k \in 1..n : frames'[k] = callers[k]
      BY <1>2, <3>1, <3>3, SeqAppend
    <3>5. WalkTyped'
      BY <1>1, <1>3, <3>4, SameTests DEF WalkTyped
    <3>6. frames'[n + 1].td = td /\ frames'[n + 1].next = 1
      BY <3>4
    <3>7. /\ \A k \in 1..n : frames'[k].td = frames[k].td
          /\ \A k \in 1..n - 1 : frames'[k].next = frames[k].next
          /\ frames'[n].next = frames[n].next + 1
      <4>1. n \in 1..n /\ \A k \in 1..n - 1 : k \in 1..n
        BY <1>2
      <4> QED BY <1>2, <3>4, <4>1
    <3>8. left' \subseteq left /\ \A j \in left \ left' : tests[j].name = td.name
      BY <1>3
    <3>9. td.name = d /\ td.name \notin visited /\ n \in Nat
      BY <2>1, <2>3, <1>2
    <3> HIDE DEF F, n, td
    <3> QED BY <1>2, <1>3, <3>1, <3>2, <3>4, <3>5, <3>6, <3>7, <3>8, <3>9, PushInv
  <2> QED BY <2>2, <2>3
<1> QED BY <1>6, <1>7

\* The walk leaves a test whose dependencies are all placed.
LEMMA ReturnInv ==
  ASSUME WalkInv, Return, tests' = tests
  PROVE  WalkInv'
<1> DEFINE F == [td : ToSet(tests), next : Nat \ {0}]
           n == Len(frames)
           m == Len(sorted)
<1>1. WalkTyped /\ frames # << >>
  BY DEF WalkInv, Return
<1>2. /\ frames \in Seq(F) /\ n \in Nat \ {0} /\ DOMAIN frames = 1..n
      /\ sorted \in Seq(ToSet(tests)) /\ m \in Nat /\ DOMAIN sorted = 1..m
  BY <1>1, SeqFacts DEF WalkTyped
<1>3. frames[n].td \in ToSet(tests)
  BY <1>1, <1>2, FrameTyped
<1>4. frames' \in Seq(F) /\ DOMAIN frames' = 1..n - 1 /\ \A k \in 1..n - 1 : frames'[k] = frames[k]
  BY <1>1, <1>2, SeqFront DEF Return, Outer
<1>5. /\ frames[n].next \notin DOMAIN frames[n].td.depends
      /\ sorted' = Append(sorted, frames[n].td)
      /\ visited' = visited /\ left' = left
  BY DEF Return, Top
<1>6. /\ sorted' \in Seq(ToSet(tests))
      /\ DOMAIN sorted' = 1..m + 1
      /\ sorted'[m + 1] = frames[n].td
      /\ \A i \in 1..m : sorted'[i] = sorted[i]
  BY <1>2, <1>3, <1>5, SeqAppend
<1>7. WalkTyped'
  BY <1>1, <1>4, <1>5, <1>6, SameTests DEF WalkTyped
<1> HIDE DEF F, n, m
<1> QED BY <1>2, <1>4, <1>5, <1>6, <1>7, PopInv

\* Every step of the walk keeps its invariant.
LEMMA WalkStep ==
  ASSUME WalkInv, Walk
  PROVE  WalkInv'
BY VisitTestInv, VisitDependencyInv, ReturnInv DEF Walk
-----------------------------------------------------------------------------
(* What a command makes of its input.                                           *)

\* The phases in which the tests are selected, being sorted, and sorted.
Ordered == {"sorted", "running", "complete", "flushed"}
Sorting == {"sorting"} \cup Ordered
Chosen == {"selected"} \cup Sorting

loadedConfig == Load(config, command.env, Processes[input.process])

\* A definition of the file at each position whose definition is valid and matches.
IsSelected(i) ==
  /\ i \in DOMAIN files /\ files[i].document # Unreadable
  /\ Matches(ParseFile(files[i])) /\ IsValid(ParseFile(files[i]))

SelectedInv ==
  /\ \A i \in DOMAIN tests : IsSelected(i) /\ tests[i] = ParseFile(files[i])
  /\ \A i \in DOMAIN files : IsSelected(i) => i \in DOMAIN tests

SelectionInv ==
  /\ \E group \in DOMAIN Inputs : input \in Inputs[group]
  /\ phase \notin {"start", "failed"} =>
       /\ \A p \in DOMAIN files : files[p] \in ToSet(input.tree)
       /\ command.who # "list" => loadedConfig.ok /\ cfg = Overridden(loadedConfig, command.flags)
  /\ phase \in Chosen => command.who # "list" /\ SelectedInv
  /\ phase \in Sorting => WalkInv
  /\ phase \in Ordered => IsWalked

\* The dependencies of a definition are those its document lists.
LEMMA DependsOfFile ==
  ASSUME NEW file
  PROVE  ParseFile(file).depends = Given(file.document, "depends", << >>)
BY DEF ParseFile

\* What each file is parsed to has a list of dependencies.
LEMMA DependsTyped ==
  ASSUME SelectionInv, phase \in Chosen
  PROVE  \A i \in DOMAIN tests : tests[i].depends \in Seq(STRING)
<1> SUFFICES ASSUME NEW i \in DOMAIN tests
             PROVE  tests[i].depends \in Seq(STRING)
  OBVIOUS
<1>1. PICK group \in DOMAIN Inputs : input \in Inputs[group]
  BY DEF SelectionInv
<1>2. i \in DOMAIN files /\ tests[i] = ParseFile(files[i]) /\ files[i] \in ToSet(input.tree)
  BY DEF SelectionInv, SelectedInv, IsSelected, Chosen, Sorting, Ordered
<1>3. "depends" \in DOMAIN files[i].document => files[i].document["depends"] \in Seq(STRING)
  BY <1>1, <1>2, SelectionAssumption DEF ToSet
<1>4. tests[i].depends = Given(files[i].document, "depends", << >>)
  BY <1>2, DependsOfFile
<1>5. << >> \in Seq(STRING)
  OBVIOUS
<1> QED BY <1>3, <1>4, <1>5 DEF Given

\* A target finds files of the tree only.
LEMMA FoundInTree ==
  ASSUME NEW loaded
  PROVE  \A p \in DOMAIN Found(loaded).files : Found(loaded).files[p] \in ToSet(input.tree)
<1>1. ASSUME NEW targets
      PROVE  LET all == DiscoverAll(input.tree, targets).files
             IN \A p \in DOMAIN all : all[p] \in ToSet(input.tree)
  BY DEF DiscoverAll, ToSet
<1>2. ASSUME NEW dir
      PROVE  LET all == Discover(input.tree, dir)
             IN \A p \in DOMAIN all : all[p] \in ToSet(input.tree)
  BY DEF Discover, Kept, ToSet
<1> QED BY <1>1, <1>2 DEF Found

\* The command and the discovered files are what the invariant says.
LEMMA PrepareInv ==
  ASSUME SelectionInv, Prepare
  PROVE  SelectionInv'
<1> DEFINE loaded == loadedConfig
<1>1. /\ phase = "start" /\ input' = input
      /\ \/ phase' = "failed"
         \/ /\ phase' = "found" /\ files' = Found(loaded).files
            /\ command.who # "list" => loaded.ok
            /\ cfg' = IF loaded.ok THEN Overridden(loaded, command.flags) ELSE Refused
  BY DEF Prepare, loadedConfig
<1>2. loadedConfig' = loadedConfig /\ command' = command
  BY <1>1 DEF loadedConfig, command, config
<1>3. CASE phase' = "failed"
  BY <1>1, <1>3 DEF SelectionInv, Chosen, Sorting, Ordered
<1>4. CASE phase' = "found"
  <2>1. \A p \in DOMAIN files' : files'[p] \in ToSet(input.tree)
    BY <1>1, <1>4, FoundInTree
  <2>2. command.who # "list" => loadedConfig.ok /\ cfg' = Overridden(loadedConfig, command.flags)
    BY <1>1, <1>4
  <2>3. phase' \notin Chosen \cup Sorting \cup Ordered
    BY <1>4 DEF Chosen, Sorting, Ordered
  <2> HIDE DEF loaded
  <2> QED BY <1>1, <1>2, <2>1, <2>2, <2>3 DEF SelectionInv
<1> QED BY <1>1, <1>3, <1>4

\* Loading, filtering and failed-only hand the walk a selection.
LEMMA LoadAndFilterInv ==
  ASSUME SelectionInv, LoadAndFilter
  PROVE  SelectionInv'
<1>1. /\ phase = "found" /\ phase' \in {"listed", "selected"}
      /\ command.who = "list" => phase' = "listed"
      /\ input' = input /\ cfg' = cfg /\ files' = files
  BY DEF LoadAndFilter
<1>2. loadedConfig' = loadedConfig /\ command' = command
  BY <1>1 DEF loadedConfig, command, config
<1>3. command.who \in {"run", "library", "list"}
  BY SelectionAssumption DEF SelectionInv, command
<1>4. phase' = "selected" => SelectedInv'
  <2> SUFFICES ASSUME phase' = "selected"
               PROVE  SelectedInv'
    OBVIOUS
  <2>1. \/ tests' = Kept(Kept(Parsed, Matches), IsValid)
        \/ tests' = Kept(Kept(Parsed, IsValid), Matches)
    BY <1>1, <1>3 DEF LoadAndFilter
  <2>2. /\ DOMAIN Parsed = {i \in DOMAIN files : files[i].document # Unreadable}
        /\ \A i \in DOMAIN Parsed : Parsed[i] = ParseFile(files[i])
    BY DEF Parsed
  <2>3. /\ \A i \in DOMAIN tests' : IsSelected(i) /\ tests'[i] = ParseFile(files[i])
        /\ \A i \in DOMAIN files : IsSelected(i) => i \in DOMAIN tests'
    BY <2>1, <2>2 DEF Kept, IsSelected
  <2>4. \A i : IsSelected(i)' <=> IsSelected(i)
    BY <1>1, <1>2 DEF IsSelected, Matches, MatchesNames, MatchesTags, MatchesGrep, MatchesPriority, criteria
  <2> QED BY <1>1, <2>3, <2>4 DEF SelectedInv
<1>5. phase' \in Chosen <=> phase' = "selected"
  BY <1>1 DEF Chosen, Sorting, Ordered
<1>6. phase' \notin Sorting /\ phase' \notin Ordered
  BY <1>1 DEF Sorting, Ordered
<1> QED BY <1>1, <1>2, <1>4, <1>5, <1>6 DEF SelectionInv

\* The walk is not disturbed by what leaves its state alone.
LEMMA WalkKept ==
  ASSUME WalkInv, UNCHANGED <<tests, walkVars>>
  PROVE  WalkInv'
<1>1. tests' = tests /\ left' = left /\ visited' = visited /\ frames' = frames /\ sorted' = sorted
  BY DEF walkVars
<1>2. WalkTyped'
  BY <1>1, SameTests DEF WalkInv, WalkTyped
<1>3. Marked' /\ Distinct' /\ Stacked'
  BY <1>1 DEF WalkInv, Marked, Distinct, Stacked
<1>4. Looked' /\ Placed'
  BY <1>1, SameTests DEF WalkInv, Looked, Placed
<1> QED BY <1>2, <1>3, <1>4 DEF WalkInv

\* What was given, found and loaded stays.
LEMMA SelectedKept ==
  ASSUME SelectionInv, UNCHANGED <<input, cfg, files, tests>>
  PROVE  /\ \E group \in DOMAIN Inputs : input' \in Inputs[group]
         /\ command' = command
         /\ phase \notin {"start", "failed"} =>
              /\ \A p \in DOMAIN files' : files'[p] \in ToSet(input'.tree)
              /\ command.who # "list" =>
                   loadedConfig'.ok /\ cfg' = Overridden(loadedConfig', command'.flags)
         /\ phase \in Chosen => command.who # "list" /\ SelectedInv'
<1>1. loadedConfig' = loadedConfig /\ command' = command
  BY DEF loadedConfig, command, config
<1>2. \A i : IsSelected(i)' <=> IsSelected(i)
  BY <1>1 DEF IsSelected, Matches, MatchesNames, MatchesTags, MatchesGrep, MatchesPriority, criteria
<1>3. SelectedInv => SelectedInv'
  BY <1>2 DEF SelectedInv
<1> QED BY <1>1, <1>3 DEF SelectionInv

\* The sort keeps the invariant, its beginning and its end included.
LEMMA SortInv ==
  ASSUME SelectionInv, Sort
  PROVE  SelectionInv'
<1>1. UNCHANGED <<input, cfg, files, tests>>
  BY DEF Sort, BeginSort, SortStep, EndSort, Walk
<1>2. phase \in Chosen /\ phase \notin {"start", "failed"} /\ phase' \in Sorting /\ phase' \notin {"start", "failed"}
  BY DEF Sort, BeginSort, SortStep, EndSort, Chosen, Sorting, Ordered
<1>3. WalkInv' /\ (phase' \in Ordered => IsWalked')
  <2>1. CASE BeginSort
    <3>1. Begin /\ phase' = "sorting" /\ tests' = tests
      BY <2>1 DEF BeginSort
    <3>2. WalkInv'
      BY <1>2, <3>1, DependsTyped, BeginInv
    <3> QED BY <3>1, <3>2 DEF Ordered
  <2>2. CASE SortStep
    <3>1. WalkInv /\ Walk /\ phase' = "sorting"
      BY <2>2 DEF SortStep, SelectionInv, Sorting
    <3> QED BY <3>1, WalkStep DEF Ordered
  <2>3. CASE EndSort
    <3>1. WalkInv /\ UNCHANGED <<tests, walkVars>> /\ IsWalked
      BY <2>3 DEF EndSort, SelectionInv, Sorting
    <3> QED BY <3>1, WalkKept DEF IsWalked, walkVars
  <2> QED BY <2>1, <2>2, <2>3 DEF Sort
<1> QED BY <1>1, <1>2, <1>3, SelectedKept DEF SelectionInv, Chosen

\* The steps of a suite leave what is selected alone.
LEMMA SelectionKept ==
  ASSUME SelectionInv, UNCHANGED <<input, cfg, files, tests, walkVars>>,
         \/ phase' = phase
         \/ phase \in Ordered /\ phase' \in Ordered \cup {"found"}
  PROVE  SelectionInv'
<1>1. /\ phase' \notin {"start", "failed"} => phase \notin {"start", "failed"}
      /\ phase' \in Chosen => phase \in Chosen
      /\ phase' \in Sorting => phase \in Sorting
      /\ phase' \in Ordered => phase \in Ordered
  BY DEF Chosen, Sorting, Ordered
<1>2. phase' \in Sorting => WalkInv'
  BY <1>1, WalkKept DEF SelectionInv
<1>3. phase' \in Ordered => IsWalked'
  BY <1>1 DEF SelectionInv, IsWalked, walkVars
<1> QED BY <1>1, <1>2, <1>3, SelectedKept DEF SelectionInv

\* Every step keeps the invariant of the selection.
LEMMA SelectionStep ==
  ASSUME SelectionInv, [Next]_vars
  PROVE  SelectionInv'
<1>1. CASE Choose
  BY <1>1, PrepareInv, LoadAndFilterInv, SortInv DEF Choose
<1>2. CASE StartSuite \/ EndSuite \/ Flush \/ Rerun
  BY <1>2, SelectionKept DEF StartSuite, EndSuite, Flush, Rerun, Ordered
<1>3. ASSUME NEW n \in Names,
             Skip(n) \/ (\E status \in {"passed", "failed"} : Run(n, status))
               \/ Read(n) \/ AppendFailure(n) \/ Report(n)
      PROVE  SelectionInv'
  <2>1. UNCHANGED <<input, cfg, files, phase, tests, walkVars>>
    BY <1>3 DEF Skip, Run, Read, AppendFailure, Report, selectionVars
  <2> QED BY <2>1, SelectionKept
<1>4. CASE UNCHANGED vars
  BY <1>4, SelectionKept DEF vars, selectionVars
<1> QED BY <1>1, <1>2, <1>3, <1>4 DEF Next, Ended

\* Before the command nothing is selected.
LEMMA SelectionInit == RInit => SelectionInv
BY DEF RInit, Init, SelectionInv, Chosen, Sorting, Ordered

\* The invariant of the selection and of its walk holds in every state.
THEOREM SelectionInvariant == Spec => []SelectionInv
<1>1. SelectionInv /\ [Next]_vars => SelectionInv'
  BY SelectionStep
<1> QED BY SelectionInit, <1>1, PTL DEF Spec

-----------------------------------------------------------------------------
(* What follows for the order of a suite.                                       *)

\* The sort keeps the names of the tests and repeats none.
LEMMA NamesKept ==
  ASSUME WalkInv, IsWalked
  PROVE  NamesOf(sorted) = NamesOf(tests)
<1>1. ASSUME NEW n \in NamesOf(sorted) PROVE n \in NamesOf(tests)
  <2>1. PICK i \in DOMAIN sorted : sorted[i].name = n
    BY <1>1, InNamesOf
  <2>2. sorted[i] \in ToSet(tests)
    BY InSeq DEF WalkInv, WalkTyped
  <2> QED BY <2>1, <2>2, InNamesOf DEF ToSet
<1>2. ASSUME NEW n \in NamesOf(tests) PROVE n \in NamesOf(sorted)
  <2>1. PICK i \in DOMAIN tests : tests[i].name = n
    BY <1>2, InNamesOf
  <2>2. n \in visited
    BY <2>1 DEF WalkInv, Marked, IsWalked
  <2>3. DOMAIN frames = {}
    BY DEF IsWalked
  <2> QED BY <2>2, <2>3, InNamesOf DEF WalkInv, Marked
<1> QED BY <1>1, <1>2

\* The run order has the names of exactly the valid definitions that match, once
\* each (orchestrator.go, topoSortTests; loadAndFilter in run.go).
THEOREM SelectionSameNames == Spec => []SameNames
<1>1. SelectionInv => SameNames
  <2> SUFFICES ASSUME SelectionInv, phase = "sorted"
               PROVE  /\ NamesOf(sorted) = {td.name : td \in {d \in ToSet(Parsed) : IsValid(d) /\ Asked(d)}}
                      /\ \A i, j \in DOMAIN sorted : sorted[i].name = sorted[j].name => i = j
    BY Zenon DEF SameNames
  <2>1. WalkInv /\ IsWalked /\ SelectedInv
    BY DEF SelectionInv, Chosen, Sorting, Ordered
  <2>2. ASSUME NEW d
        PROVE  Asked(d) <=> Matches(d)
    <3>1. MatchesNames(d) <=> criteria.names = {} \/ d.name \in criteria.names
      BY DEF MatchesNames
    <3>2. MatchesTags(d) <=> criteria.tags = {} \/ d.tags \cap criteria.tags # {}
      BY DEF MatchesTags
    <3>3. MatchesGrep(d) <=> criteria.grep = {"*"} \/ d.name \in criteria.grep
      BY DEF MatchesGrep
    <3>4. MatchesPriority(d) <=> criteria.priority = "" \/ d.priority = criteria.priority
      BY Zenon DEF MatchesPriority
    <3> QED BY <3>1, <3>2, <3>3, <3>4, Zenon DEF Asked, Matches
  <2>3. /\ DOMAIN Parsed = {i \in DOMAIN files : files[i].document # Unreadable}
        /\ \A i \in DOMAIN Parsed : Parsed[i] = ParseFile(files[i])
    BY DEF Parsed
  <2>4. NamesOf(tests) = {td.name : td \in {d \in ToSet(Parsed) : IsValid(d) /\ Asked(d)}}
    <3>1. ASSUME NEW n \in NamesOf(tests)
          PROVE  \E td \in ToSet(Parsed) : IsValid(td) /\ Asked(td) /\ td.name = n
      <4>1. PICK i \in DOMAIN tests : tests[i].name = n
        BY InNamesOf
      <4>2. i \in DOMAIN Parsed /\ tests[i] = Parsed[i] /\ IsValid(Parsed[i]) /\ Asked(Parsed[i])
        BY <2>1, <2>2, <2>3 DEF SelectedInv, IsSelected
      <4> QED BY <4>1, <4>2 DEF ToSet
    <3>2. ASSUME NEW td \in ToSet(Parsed), IsValid(td) /\ Asked(td)
          PROVE  td.name \in NamesOf(tests)
      <4>1. PICK i \in DOMAIN Parsed : Parsed[i] = td
        BY DEF ToSet
      <4>2. IsSelected(i)
        BY <2>2, <2>3, <3>2, <4>1 DEF IsSelected
      <4>3. i \in DOMAIN tests /\ tests[i] = td
        BY <2>1, <2>3, <4>1, <4>2 DEF SelectedInv, IsSelected
      <4> QED BY <4>3, InNamesOf
    <3> QED BY <3>1, <3>2
  <2>5. \A i, j \in DOMAIN sorted : sorted[i].name = sorted[j].name => i = j
    BY <2>1 DEF WalkInv, Distinct
  <2>6. NamesOf(sorted) = NamesOf(tests)
    BY <2>1, NamesKept
  <2> QED BY <2>4, <2>5, <2>6
<1> QED BY <1>1, SelectionInvariant, PTL

\* Dependencies that are part of an acyclic suite come first (topoSortTests).
THEOREM SelectionDependenciesFirst == Spec => []DependenciesFirst
<1>1. SelectionInv => DependenciesFirst
  <2> SUFFICES ASSUME SelectionInv, phase = "sorted", Acyclic,
                      NEW i \in DOMAIN sorted, NEW j \in DOMAIN sorted,
                      sorted[j].name \in ToSet(sorted[i].depends)
               PROVE  j < i
    BY DEF DependenciesFirst, Respects
  <2>1. WalkInv /\ IsWalked
    BY DEF SelectionInv, Sorting, Ordered
  <2>2. sorted[j].name \in NamesOf(tests)
    BY <2>1, NamesKept, InNamesOf
  <2>3. sorted \in Seq(ToSet(tests))
    BY <2>1 DEF WalkInv, WalkTyped
  <2>4. Len(sorted) \in Nat /\ DOMAIN sorted = 1..Len(sorted)
    BY <2>3, SeqFacts
  <2>5. PICK l \in 1..i - 1 : sorted[l].name = sorted[j].name
    BY <2>1, <2>2 DEF WalkInv, Placed
  <2>6. l \in DOMAIN sorted /\ l < i
    BY <2>4
  <2>7. l = j
    BY <2>1, <2>5, <2>6 DEF WalkInv, Distinct
  <2> QED BY <2>6, <2>7
<1> QED BY <1>1, SelectionInvariant, PTL

\* The retries of a definition are those of its document, or -1.
LEMMA RetriesOfFile ==
  ASSUME NEW file
  PROVE  /\ ParseFile(file).retries = Given(file.document, "retries", -1)
         /\ ParseFile(file).source = file.path
BY DEF ParseFile, RetriesGiven

\* A configuration that loads has the defaults of its file, completed.
LEMMA LoadedDefaults ==
  ASSUME NEW file, NEW envName, NEW process, Load(file, envName, process).ok
  PROVE  /\ Load(file, envName, process).defaults = ApplyDefaults(file.defaults)
         /\ "defaults" \in DOMAIN Load(file, envName, process)
<1>1. Refused.ok = FALSE
  BY DEF Refused
<1> QED BY <1>1 DEF Load

\* The flag for retries goes before the configuration.
LEMMA RetriesOfConfig ==
  ASSUME loadedConfig.ok
  PROVE  Overridden(loadedConfig, command.flags).defaults.retries =
           IF command.flags.retries >= 0 THEN command.flags.retries ELSE config.defaults.retries
<1> DEFINE level == ResolveLevel(config.declared)
<1>1. /\ loadedConfig.defaults = ApplyDefaults(config.defaults)
      /\ "defaults" \in DOMAIN loadedConfig
  BY LoadedDefaults DEF loadedConfig
<1>2. /\ ApplyDefaults(config.defaults).retries = config.defaults.retries
      /\ DOMAIN ApplyDefaults(config.defaults) = {"timeout", "retryDelay", "parallel", "retries", "strictResolve"}
  BY DEF ApplyDefaults
<1> QED BY <1>1, <1>2 DEF Overridden, Override, OverrideRetries

\* Every test of the run order is retried as its file, the command or the
\* configuration says, in this order (parser.go, run.go, runner.go).
THEOREM SelectionRetriesAsAsked == Spec => []RetriesAsAsked
<1>1. SelectionInv => RetriesAsAsked
  <2> SUFFICES ASSUME SelectionInv, phase = "sorted", NEW td \in ToSet(sorted)
               PROVE  \E file \in ToSet(files) :
                        LET own == Given(file.document, "retries", -1)
                        IN /\ file.path = td.source
                           /\ RetriesOf(td) = IF own >= 0 THEN own
                                              ELSE IF command.flags.retries >= 0 THEN command.flags.retries
                                              ELSE config.defaults.retries
    BY DEF RetriesAsAsked
  <2>1. WalkInv /\ SelectedInv /\ loadedConfig.ok /\ cfg = Overridden(loadedConfig, command.flags)
    BY DEF SelectionInv, Chosen, Sorting, Ordered
  <2>2. td \in ToSet(tests)
    BY <2>1, InSeq DEF WalkInv, WalkTyped, ToSet
  <2>3. PICK i \in DOMAIN tests : td = tests[i]
    BY <2>2 DEF ToSet
  <2>4. i \in DOMAIN files /\ td = ParseFile(files[i])
    BY <2>1, <2>3 DEF SelectedInv, IsSelected
  <2>5. files[i] \in ToSet(files)
    BY <2>4 DEF ToSet
  <2>6. files[i].path = td.source /\ td.retries = Given(files[i].document, "retries", -1)
    BY <2>4, RetriesOfFile
  <2>7. cfg.defaults.retries =
          IF command.flags.retries >= 0 THEN command.flags.retries ELSE config.defaults.retries
    BY <2>1, RetriesOfConfig
  <2> QED BY <2>5, <2>6, <2>7 DEF RetriesOf
<1> QED BY <1>1, SelectionInvariant, PTL
-----------------------------------------------------------------------------
(* The reporters.  While a suite runs, the entries of a reporter are the results *)
(* of the runs before and those for which a test has called it already.          *)

Started == {"running", "complete", "flushed"}
Statuses == {"passed", "failed"}

ReportTyped ==
  /\ results \in Seq(ToSet(results))
  /\ DOMAIN entries = Reporters
  /\ \A k \in Reporters : entries[k] \in Seq(ToSet(entries[k]))

\* Where the goroutine of a test is, with what it has reported and its outcome.
StageOf(n) ==
  /\ pending[n] \subseteq Reporters
  /\ \/ at[n] = "waiting" /\ pending[n] = Reporters /\ Outcome(n) = "none"
     \/ at[n] \in {"reading", "appending"} /\ pending[n] = Reporters /\ Outcome(n) = "failed"
     \/ at[n] = "reporting" /\ Outcome(n) \in Statuses
     \/ at[n] = "done" /\ Outcome(n) = "skipped"
     \/ at[n] = "done" /\ Outcome(n) \in Statuses /\ pending[n] = {}

Stages ==
  phase \in Started =>
    /\ results # << >>
    /\ DOMAIN at = Names /\ DOMAIN pending = Names /\ DOMAIN Last(results) = Names
    /\ \A n \in Names : StageOf(n)
    /\ phase # "running" => \A n \in Names : at[n] = "done"

\* The entries of reporter k that say that n had this status.
Shown(k, n, status) == {i \in DOMAIN entries[k] : entries[k][i] = <<n, status>>}

\* The runs in which it had, and in which k was told.
Told(k, n, status) ==
  {r \in DOMAIN results : /\ n \in DOMAIN results[r] /\ results[r][n] = status
                          /\ phase \in Started /\ r = Len(results) => k \notin pending[n]}

Tallied ==
  \A k \in Reporters :
    /\ \A i \in DOMAIN entries[k] :
         /\ entries[k][i] = <<entries[k][i][1], entries[k][i][2]>>
         /\ entries[k][i][2] \in Statuses
    /\ \A n : \A status \in Statuses :
         Cardinality(Shown(k, n, status)) = Cardinality(Told(k, n, status))

Rendered ==
  phase = "flushed" =>
    documents = [k \in Reporters |-> Document(command.reporters[k], entries[k])]

ReportInv == ReportTyped /\ Stages /\ Tallied /\ Rendered

\* A sequence is one over its own elements.
LEMMA OwnSeq ==
  ASSUME NEW S, NEW s \in Seq(S)
  PROVE  s \in Seq(ToSet(s))
<1>1. Len(s) \in Nat /\ DOMAIN s = 1..Len(s) /\ \A i \in 1..Len(s) : s[i] \in ToSet(s)
  BY DEF ToSet
<1> QED BY <1>1

\* It stays so with one element more.
LEMMA OwnAppend ==
  ASSUME NEW s, s \in Seq(ToSet(s)), NEW e
  PROVE  /\ Append(s, e) \in Seq(ToSet(Append(s, e)))
         /\ Len(Append(s, e)) = Len(s) + 1 /\ Len(s) \in Nat
         /\ DOMAIN s = 1..Len(s) /\ DOMAIN Append(s, e) = 1..Len(s) + 1
         /\ Append(s, e)[Len(s) + 1] = e
         /\ \A k \in 1..Len(s) : Append(s, e)[k] = s[k]
<1> DEFINE S == ToSet(s) \cup {e}
<1>1. s \in Seq(S) /\ e \in S
  OBVIOUS
<1> HIDE DEF S
<1>2. Append(s, e) \in Seq(S) /\ Len(Append(s, e)) = Len(s) + 1
  BY <1>1
<1>3. Append(s, e) \in Seq(ToSet(Append(s, e)))
  BY <1>2, OwnSeq
<1>4. Len(s) \in Nat /\ DOMAIN s = 1..Len(s)
  BY <1>1, SeqFacts
<1>5. /\ DOMAIN Append(s, e) = 1..Len(s) + 1
      /\ Append(s, e)[Len(s) + 1] = e
      /\ \A k \in 1..Len(s) : Append(s, e)[k] = s[k]
  BY <1>1, SeqAppend
<1> QED BY <1>2, <1>3, <1>4, <1>5

\* It stays so with one element replaced.
LEMMA OwnExcept ==
  ASSUME NEW s, s \in Seq(ToSet(s)), NEW i \in DOMAIN s, NEW e
  PROVE  /\ [s EXCEPT ![i] = e] \in Seq(ToSet([s EXCEPT ![i] = e]))
         /\ Len([s EXCEPT ![i] = e]) = Len(s)
<1> DEFINE S == ToSet(s) \cup {e}
           t == [s EXCEPT ![i] = e]
<1>1. s \in Seq(S) /\ e \in S
  OBVIOUS
<1> HIDE DEF S
<1>2. Len(s) \in Nat /\ DOMAIN s = 1..Len(s) /\ \A k \in 1..Len(s) : s[k] \in S
  BY <1>1
<1>3. t \in [1..Len(s) -> S]
  BY <1>1, <1>2
<1>4. t \in Seq(S) /\ Len(t) = Len(s)
  BY <1>2, <1>3
<1> QED BY <1>4, OwnSeq

\* Where the command and the order stay, so do the reporters and the names.
LEMMA SameCommand ==
  ASSUME input' = input, sorted' = sorted
  PROVE  command' = command /\ Reporters' = Reporters /\ Names' = Names
BY DEF command, Reporters, Names, NamesOf

\* Before the suite nothing is reported.
LEMMA ReportInit == RInit => ReportInv
<1> SUFFICES ASSUME RInit PROVE ReportInv
  OBVIOUS
<1>1. phase = "start" /\ results = << >> /\ entries = [k \in Reporters |-> << >>]
  BY DEF RInit, Init
<1>2. ReportTyped
  BY <1>1 DEF ReportTyped
<1>3. \A k \in Reporters : \A n, status : Shown(k, n, status) = {} /\ Told(k, n, status) = {}
  BY <1>1 DEF Shown, Told
<1>4. Tallied
  BY <1>1, <1>3 DEF Tallied
<1> QED BY <1>1, <1>2, <1>4 DEF ReportInv, Stages, Rendered, Started

\* What a step must keep for the tallies of a reporter.
LEMMA TalliesKept ==
  ASSUME ReportInv, NEW k \in Reporters,
         entries'[k] = entries[k],
         \A n : \A status \in Statuses : Told(k, n, status)' = Told(k, n, status)
  PROVE  /\ \A i \in DOMAIN entries'[k] :
              /\ entries'[k][i] = <<entries'[k][i][1], entries'[k][i][2]>>
              /\ entries'[k][i][2] \in Statuses
         /\ \A n : \A status \in Statuses :
              Cardinality(Shown(k, n, status)') = Cardinality(Told(k, n, status)')
<1>1. \A n, status : Shown(k, n, status)' = Shown(k, n, status)
  BY DEF Shown
<1> QED BY <1>1 DEF ReportInv, Tallied

\* A step between the runs, or at the end of one.
LEMMA ReportIdle ==
  ASSUME ReportInv, UNCHANGED <<at, pending, seen, failedTests, entries, results, input>>,
         phase' \in Started => phase \in Started /\ sorted' = sorted,
         phase \in Started /\ phase' \notin Started => \A n \in Names : at[n] = "done",
         phase' \in Started \ {"running"} => \A n \in Names : at[n] = "done",
         Rendered'
  PROVE  ReportInv'
<1>1. command' = command /\ Reporters' = Reporters
  BY DEF command, Reporters
<1>2. ReportTyped'
  BY <1>1 DEF ReportInv, ReportTyped
<1>3. Stages'
  <2> SUFFICES ASSUME phase' \in Started
               PROVE  Stages'
    BY DEF Stages
  <2>1. Names' = Names /\ Stages /\ phase \in Started
    BY SameCommand DEF ReportInv
  <2>2. \A n : StageOf(n)' <=> StageOf(n)
    BY <1>1 DEF StageOf, Outcome
  <2> QED BY <2>1, <2>2 DEF Stages
<1>4. \A k \in Reporters : \A n : \A status \in Statuses : Told(k, n, status)' = Told(k, n, status)
  <2> SUFFICES ASSUME NEW k \in Reporters, NEW n, NEW status \in Statuses, NEW r \in DOMAIN results,
                      n \in DOMAIN results[r], results[r][n] = status
               PROVE  (phase' \in Started /\ r = Len(results) => k \notin pending[n])
                        <=> (phase \in Started /\ r = Len(results) => k \notin pending[n])
    BY DEF Told
  <2>1. CASE phase \in Started /\ phase' \notin Started /\ r = Len(results)
    <3>1. n \in Names /\ StageOf(n) /\ at[n] = "done"
      BY <2>1 DEF ReportInv, Stages, Last
    <3>2. Outcome(n) = status
      BY <2>1 DEF Outcome, Last
    <3>3. pending[n] = {}
      BY <3>1, <3>2 DEF StageOf, Statuses
    <3> QED BY <3>3
  <2> QED BY <2>1
<1>5. Tallied'
  <2>1. \A k \in Reporters : entries'[k] = entries[k]
    OBVIOUS
  <2> QED BY <1>1, <1>4, <2>1, TalliesKept DEF Tallied
<1> QED BY <1>2, <1>3, <1>5 DEF ReportInv

\* The start of the suite reaches the reporters before any test.
LEMMA StartSuiteInv ==
  ASSUME ReportInv, StartSuite
  PROVE  ReportInv'
<1> DEFINE row == [n \in Names |-> "none"]
<1>1. /\ phase = "sorted" /\ phase' = "running"
      /\ at' = [n \in Names |-> "waiting"] /\ pending' = [n \in Names |-> Reporters]
      /\ results' = Append(results, row)
      /\ input' = input /\ sorted' = sorted /\ entries' = entries
  BY DEF StartSuite, walkVars
<1>2. command' = command /\ Reporters' = Reporters /\ Names' = Names
  BY <1>1, SameCommand
<1>3. /\ results' \in Seq(ToSet(results'))
      /\ Len(results') = Len(results) + 1 /\ Len(results) \in Nat
      /\ DOMAIN results = 1..Len(results) /\ DOMAIN results' = 1..Len(results) + 1
      /\ results'[Len(results) + 1] = row
      /\ \A r \in 1..Len(results) : results'[r] = results[r]
  BY <1>1, OwnAppend DEF ReportInv, ReportTyped
<1>4. ReportTyped'
  BY <1>1, <1>2, <1>3 DEF ReportInv, ReportTyped
<1>5. Stages'
  <2>1. Last(results') = row /\ results' # << >>
    BY <1>3 DEF Last
  <2>2. \A n \in Names : StageOf(n)'
    BY <1>1, <1>2, <2>1 DEF StageOf, Outcome
  <2> QED BY <1>1, <1>2, <2>1, <2>2 DEF Stages
<1>6. \A k \in Reporters : \A n : \A status \in Statuses : Told(k, n, status)' = Told(k, n, status)
  <2> SUFFICES ASSUME NEW k \in Reporters, NEW n, NEW status \in Statuses
               PROVE  Told(k, n, status)' = Told(k, n, status)
    OBVIOUS
  <2>1. Told(k, n, status) = {r \in 1..Len(results) : n \in DOMAIN results[r] /\ results[r][n] = status}
    BY <1>1, <1>3 DEF Told, Started
  <2>2. ASSUME NEW r \in 1..Len(results) + 1
        PROVE  r \in Told(k, n, status)' <=>
                 r \in 1..Len(results) /\ n \in DOMAIN results[r] /\ results[r][n] = status
    <3>1. CASE r = Len(results) + 1
      <4>1. n \in DOMAIN results'[r] => results'[r][n] = "none"
        BY <1>3, <3>1
      <4>2. r \notin 1..Len(results) /\ status # "none"
        BY <1>3, <3>1 DEF Statuses
      <4> QED BY <4>1, <4>2 DEF Told
    <3>2. CASE r # Len(results) + 1
      <4>1. r \in 1..Len(results) /\ r # Len(results') /\ results'[r] = results[r] /\ r \in DOMAIN results'
        BY <1>3, <3>2
      <4> QED BY <4>1 DEF Told
    <3> QED BY <3>1, <3>2
  <2>3. Told(k, n, status)' \subseteq 1..Len(results) + 1
    BY <1>3 DEF Told
  <2>4. 1..Len(results) \subseteq 1..Len(results) + 1
    BY <1>3
  <2> QED BY <2>1, <2>2, <2>3, <2>4
<1>7. Tallied'
  <2>1. \A k \in Reporters : entries'[k] = entries[k]
    BY <1>1
  <2> QED BY <1>2, <1>6, <2>1, TalliesKept DEF Tallied
<1> QED BY <1>1, <1>4, <1>5, <1>7 DEF ReportInv, Rendered

\* The outcome of a test is set.
LEMMA OutcomeSet ==
  ASSUME ReportInv, phase \in Started, NEW n \in Names, NEW status,
         results' = [results EXCEPT ![Len(results)][n] = status]
  PROVE  /\ results' \in Seq(ToSet(results')) /\ Len(results') = Len(results)
         /\ \A r \in DOMAIN results : r # Len(results) => results'[r] = results[r]
         /\ DOMAIN results'[Len(results)] = Names
         /\ results'[Len(results)][n] = status
         /\ \A x \in Names : x # n => results'[Len(results)][x] = results[Len(results)][x]
<1> DEFINE L == Len(results)
           row == [results[L] EXCEPT ![n] = status]
<1>1. L \in DOMAIN results /\ DOMAIN results[L] = Names /\ results \in Seq(ToSet(results))
  BY SeqFacts DEF ReportInv, ReportTyped, Stages, Last
<1>2. results' = [results EXCEPT ![L] = row]
  OBVIOUS
<1>3. DOMAIN row = Names /\ row[n] = status /\ \A x \in Names : x # n => row[x] = results[L][x]
  BY <1>1
<1> HIDE DEF row
<1>4. results' \in Seq(ToSet(results')) /\ Len(results') = L
  <2> DEFINE t == [results EXCEPT ![L] = row]
  <2>1. t \in Seq(ToSet(t)) /\ Len(t) = L
    BY <1>1, OwnExcept
  <2> QED BY <1>2, <2>1
<1>5. results'[L] = row /\ \A r \in DOMAIN results : r # L => results'[r] = results[r]
  BY <1>1, <1>2
<1> QED BY <1>3, <1>4, <1>5

\* A step of one goroutine that calls no reporter.
LEMMA StageInv ==
  ASSUME ReportInv, phase = "running", phase' = phase, NEW n \in Names,
         NEW stage, at' = [at EXCEPT ![n] = stage],
         UNCHANGED <<pending, entries, input, sorted>>,
         results' \in Seq(ToSet(results')), Len(results') = Len(results),
         \A r \in DOMAIN results : r # Len(results) => results'[r] = results[r],
         DOMAIN results'[Len(results)] = Names,
         \A x \in Names : x # n => results'[Len(results)][x] = results[Len(results)][x],
         pending[n] = Reporters,
         StageOf(n)'
  PROVE  ReportInv'
<1> DEFINE L == Len(results)
<1>1. command' = command /\ Reporters' = Reporters /\ Names' = Names
  BY SameCommand
<1>2. /\ L \in Nat \ {0} /\ DOMAIN results = 1..L /\ L \in 1..L
      /\ DOMAIN at = Names /\ DOMAIN pending = Names /\ DOMAIN results[L] = Names
  BY SeqFacts DEF ReportInv, ReportTyped, Stages, Started, Last
<1>3. Len(results') = L /\ DOMAIN results' = 1..L
  BY SeqFacts
<1>5. ReportTyped'
  BY <1>1, <1>3 DEF ReportInv, ReportTyped
<1>6. Stages'
  <2>1. Last(results') = results'[L] /\ results' # << >>
    BY <1>2, <1>3 DEF Last
  <2>2. ASSUME NEW x \in Names, x # n PROVE StageOf(x)'
    <3>1. Outcome(x)' = Outcome(x) /\ at'[x] = at[x] /\ pending'[x] = pending[x]
      BY <1>2, <2>1, <2>2 DEF Outcome, Last
    <3>2. StageOf(x)
      BY DEF ReportInv, Stages, Started
    <3> QED BY <1>1, <3>1, <3>2 DEF StageOf
  <2>3. DOMAIN at' = Names /\ DOMAIN pending' = Names
    BY <1>2
  <2> QED BY <1>1, <2>1, <2>2, <2>3 DEF Stages
<1>7. \A k \in Reporters : \A x : \A s \in Statuses : Told(k, x, s)' = Told(k, x, s)
  <2> SUFFICES ASSUME NEW k \in Reporters, NEW x, NEW s \in Statuses
               PROVE  Told(k, x, s)' = Told(k, x, s)
    OBVIOUS
  <2>1. /\ Told(k, x, s) = {r \in 1..L : x \in DOMAIN results[r] /\ results[r][x] = s
                                          /\ (r = L => k \notin pending[x])}
        /\ Told(k, x, s)' = {r \in 1..L : x \in DOMAIN results'[r] /\ results'[r][x] = s
                                           /\ (r = L => k \notin pending[x])}
    BY <1>2, <1>3 DEF Told, Started
  <2>2. \A r \in 1..L : r # L => results'[r] = results[r]
    BY <1>2
  <2>3. x # n => (x \in DOMAIN results'[L] <=> x \in DOMAIN results[L])
                   /\ (x \in Names => results'[L][x] = results[L][x])
    BY <1>2
  <2>4. x = n => k \in pending[x]
    OBVIOUS
  <2> QED BY <1>2, <2>1, <2>2, <2>3, <2>4
<1>8. Tallied'
  <2>1. \A k \in Reporters : entries'[k] = entries[k]
    OBVIOUS
  <2> QED BY <1>1, <1>7, <2>1, TalliesKept DEF Tallied
<1>9. Rendered'
  BY DEF Rendered
<1> QED BY <1>5, <1>6, <1>8, <1>9 DEF ReportInv

\* A test that is skipped is reported and listed.
LEMMA SkipInv ==
  ASSUME ReportInv, NEW n \in Names, Skip(n)
  PROVE  ReportInv'
<1>1. /\ phase = "running" /\ at[n] = "waiting" /\ at' = [at EXCEPT ![n] = "done"]
      /\ results' = [results EXCEPT ![Len(results)][n] = "skipped"]
      /\ UNCHANGED <<phase, pending, entries, input, sorted>>
  BY DEF Skip, selectionVars, walkVars
<1>2. phase \in Started /\ n \in DOMAIN at /\ StageOf(n)
  BY <1>1 DEF ReportInv, Stages, Started
<1>3. /\ results' \in Seq(ToSet(results')) /\ Len(results') = Len(results)
      /\ \A r \in DOMAIN results : r # Len(results) => results'[r] = results[r]
      /\ DOMAIN results'[Len(results)] = Names
      /\ results'[Len(results)][n] = "skipped"
      /\ \A x \in Names : x # n => results'[Len(results)][x] = results[Len(results)][x]
  BY <1>1, <1>2, OutcomeSet
<1>4. pending[n] = Reporters
  BY <1>1, <1>2 DEF StageOf
<1>5. StageOf(n)'
  <2>1. Outcome(n)' = "skipped" /\ at'[n] = "done" /\ pending'[n] = Reporters'
    BY <1>1, <1>2, <1>3, <1>4, SameCommand DEF Outcome, Last
  <2> QED BY <2>1 DEF StageOf
<1> QED BY <1>1, <1>3, <1>4, <1>5, StageInv

\* A test that is run is reported and listed.
LEMMA RunInv ==
  ASSUME ReportInv, NEW n \in Names, NEW status \in Statuses, Run(n, status)
  PROVE  ReportInv'
<1> DEFINE stage == IF status = "failed" THEN "reading" ELSE "reporting"
<1>1. /\ phase = "running" /\ at[n] = "waiting" /\ at' = [at EXCEPT ![n] = stage]
      /\ results' = [results EXCEPT ![Len(results)][n] = status]
      /\ UNCHANGED <<phase, pending, entries, input, sorted>>
  BY DEF Run, selectionVars, walkVars
<1>2. phase \in Started /\ n \in DOMAIN at /\ StageOf(n)
  BY <1>1 DEF ReportInv, Stages, Started
<1>3. /\ results' \in Seq(ToSet(results')) /\ Len(results') = Len(results)
      /\ \A r \in DOMAIN results : r # Len(results) => results'[r] = results[r]
      /\ DOMAIN results'[Len(results)] = Names
      /\ results'[Len(results)][n] = status
      /\ \A x \in Names : x # n => results'[Len(results)][x] = results[Len(results)][x]
  BY <1>1, <1>2, OutcomeSet
<1>4. pending[n] = Reporters
  BY <1>1, <1>2 DEF StageOf
<1>5. StageOf(n)'
  <2>1. Outcome(n)' = status /\ at'[n] = stage /\ pending'[n] = Reporters'
    BY <1>1, <1>2, <1>3, <1>4, SameCommand DEF Outcome, Last
  <2> QED BY <2>1 DEF StageOf, Statuses
<1> HIDE DEF stage
<1> QED BY <1>1, <1>3, <1>4, <1>5, StageInv

\* The console reads its list and writes it back.
LEMMA ConsoleInv ==
  ASSUME ReportInv, NEW n \in Names, Read(n) \/ AppendFailure(n)
  PROVE  ReportInv'
<1>1. PICK stage : /\ stage \in {"appending", "reporting"}
                   /\ phase = "running" /\ at[n] \in {"reading", "appending"}
                   /\ at' = [at EXCEPT ![n] = stage]
                   /\ results' = results
                   /\ UNCHANGED <<phase, pending, entries, input, sorted>>
  BY DEF Read, AppendFailure, selectionVars, walkVars
<1>2. /\ phase \in Started /\ n \in DOMAIN at /\ StageOf(n)
      /\ results \in Seq(ToSet(results)) /\ DOMAIN Last(results) = Names
  BY <1>1 DEF ReportInv, ReportTyped, Stages, Started
<1>3. pending[n] = Reporters /\ Outcome(n) = "failed"
  BY <1>1, <1>2 DEF StageOf
<1>4. StageOf(n)'
  <2>1. Outcome(n)' = "failed" /\ at'[n] = stage /\ pending'[n] = Reporters'
    BY <1>1, <1>2, <1>3, SameCommand DEF Outcome
  <2> QED BY <1>1, <2>1 DEF StageOf, Statuses
<1>5. DOMAIN results'[Len(results)] = Names
  BY <1>1, <1>2 DEF Last
<1> QED BY <1>1, <1>2, <1>3, <1>4, <1>5, StageInv
\* Where the list is longer by e, v has the same positions, and e has one more.
LEMMA Positions ==
  ASSUME NEW s, NEW t, NEW m \in Nat, NEW e,
         t[m + 1] = e, \A i \in 1..m : t[i] = s[i]
  PROVE  /\ \A v : v # e => {i \in 1..m + 1 : t[i] = v} = {i \in 1..m : s[i] = v}
         /\ {i \in 1..m + 1 : t[i] = e} = {i \in 1..m : s[i] = e} \cup {m + 1}
<1>1. 1..m + 1 = (1..m) \cup {m + 1} /\ m + 1 \notin 1..m
  OBVIOUS
<1> QED BY <1>1

\* A reporter is called: one entry more, and one run more in which it was told.
LEMMA ReportInvariant ==
  ASSUME ReportInv, NEW n \in Names, Report(n)
  PROVE  ReportInv'
<1> DEFINE L == Len(results)
<1>1. /\ phase = "running" /\ phase' = phase /\ at[n] = "reporting"
      /\ UNCHANGED <<input, sorted, results, documents>>
  BY DEF Report, selectionVars, walkVars
<1>2. command' = command /\ Reporters' = Reporters /\ Names' = Names /\ \A x : Outcome(x)' = Outcome(x)
  BY <1>1, SameCommand DEF Outcome
<1>3. /\ phase \in Started /\ DOMAIN at = Names /\ DOMAIN pending = Names
      /\ \A x \in Names : StageOf(x)
      /\ Outcome(n) \in Statuses /\ pending[n] \subseteq Reporters
  BY <1>1 DEF ReportInv, Stages, Started, StageOf
<1>4. /\ L \in Nat \ {0} /\ DOMAIN results = 1..L /\ L \in 1..L
      /\ DOMAIN results[L] = Names /\ Outcome(n) = results[L][n]
  BY <1>3, SeqFacts DEF ReportInv, ReportTyped, Stages, Last, Outcome
<1>5. CASE pending[n] = {} /\ at' = [at EXCEPT ![n] = "done"] /\ UNCHANGED <<pending, entries>>
  <2>1. ReportTyped'
    BY <1>1, <1>2, <1>5 DEF ReportInv, ReportTyped
  <2>2. ASSUME NEW x \in Names PROVE StageOf(x)'
    BY <1>2, <1>3, <1>5 DEF StageOf
  <2>3. Stages'
    BY <1>1, <1>2, <1>3, <1>5, <2>2 DEF ReportInv, Stages
  <2>4. \A k \in Reporters : \A x : \A s \in Statuses : Told(k, x, s)' = Told(k, x, s)
    BY <1>1, <1>5 DEF Told
  <2>5. Tallied'
    <3>1. \A k \in Reporters : entries'[k] = entries[k]
      BY <1>5
    <3> QED BY <1>2, <2>4, <3>1, TalliesKept DEF Tallied
  <2> QED BY <1>1, <2>1, <2>3, <2>5 DEF ReportInv, Rendered
<1>6. ASSUME NEW k \in pending[n],
             entries' = [entries EXCEPT ![k] = Append(@, <<n, Outcome(n)>>)],
             pending' = [pending EXCEPT ![n] = @ \ {k}], at' = at
      PROVE  ReportInv'
  <2> DEFINE e == <<n, Outcome(n)>>
             m == Len(entries[k])
  <2>1. /\ k \in Reporters /\ DOMAIN entries = Reporters
        /\ entries'[k] = Append(entries[k], e)
        /\ \A j \in Reporters : j # k => entries'[j] = entries[j]
        /\ DOMAIN entries' = Reporters
    BY <1>3, <1>6 DEF ReportInv, ReportTyped
  <2>2. /\ entries'[k] \in Seq(ToSet(entries'[k]))
        /\ m \in Nat /\ DOMAIN entries[k] = 1..m /\ DOMAIN entries'[k] = 1..m + 1
        /\ entries'[k][m + 1] = e
        /\ \A i \in 1..m : entries'[k][i] = entries[k][i]
    BY <2>1, OwnAppend DEF ReportInv, ReportTyped
  <2>3. /\ pending'[n] = pending[n] \ {k}
        /\ \A x \in Names : x # n => pending'[x] = pending[x]
        /\ DOMAIN pending' = Names
    BY <1>3, <1>6
  <2>4. ReportTyped'
    <3>1. \A j \in Reporters : entries'[j] \in Seq(ToSet(entries'[j]))
      BY <2>1, <2>2 DEF ReportInv, ReportTyped
    <3> QED BY <1>1, <1>2, <2>1, <3>1 DEF ReportInv, ReportTyped
  <2>5. Stages'
    <3>1. ASSUME NEW x \in Names PROVE StageOf(x)'
      <4>1. CASE x = n
        BY <1>1, <1>2, <1>3, <1>6, <2>3, <4>1 DEF StageOf
      <4>2. CASE x # n
        BY <1>2, <1>3, <1>6, <2>3, <4>2 DEF StageOf
      <4> QED BY <4>1, <4>2
    <3> QED BY <1>1, <1>2, <1>3, <1>6, <2>3, <3>1 DEF ReportInv, Stages
  <2>6. ASSUME NEW j \in Reporters, NEW x, NEW s \in Statuses
        PROVE  /\ Told(j, x, s) = {r \in 1..L : x \in DOMAIN results[r] /\ results[r][x] = s
                                                /\ (r = L => j \notin pending[x])}
               /\ Told(j, x, s)' = {r \in 1..L : x \in DOMAIN results[r] /\ results[r][x] = s
                                                 /\ (r = L => j \notin pending'[x])}
    BY <1>1, <1>3, <1>4 DEF Told, Started
  <2>7. ASSUME NEW j \in Reporters, NEW x, NEW s \in Statuses, j # k \/ x # n \/ s # Outcome(n)
        PROVE  Told(j, x, s)' = Told(j, x, s)
    <3>1. x \in DOMAIN results[L] /\ results[L][x] = s => (j \notin pending'[x] <=> j \notin pending[x])
      BY <1>4, <2>3, <2>7
    <3>2. {r \in 1..L : x \in DOMAIN results[r] /\ results[r][x] = s /\ (r = L => j \notin pending'[x])}
            = {r \in 1..L : x \in DOMAIN results[r] /\ results[r][x] = s /\ (r = L => j \notin pending[x])}
      BY <3>1
    <3>3. /\ Told(j, x, s) = {r \in 1..L : x \in DOMAIN results[r] /\ results[r][x] = s
                                            /\ (r = L => j \notin pending[x])}
          /\ Told(j, x, s)' = {r \in 1..L : x \in DOMAIN results[r] /\ results[r][x] = s
                                             /\ (r = L => j \notin pending'[x])}
      BY <2>6
    <3> QED BY <3>2, <3>3, Zenon
  <2>8. ASSUME NEW x, NEW s \in Statuses, x # n \/ s # Outcome(n)
        PROVE  Cardinality(Shown(k, x, s)') = Cardinality(Told(k, x, s)')
    <3>1. e # <<x, s>>
      BY <2>8
    <3>2. Shown(k, x, s)' = Shown(k, x, s)
      <4> DEFINE v == <<x, s>>
      <4> HIDE DEF e, m, v
      <4>1. v # e
        BY <3>1 DEF v
      <4>2. {i \in 1..m + 1 : entries'[k][i] = v} = {i \in 1..m : entries[k][i] = v}
        BY <2>2, <4>1, Positions
      <4> QED BY <2>2, <4>2 DEF Shown, v
    <3>3. Told(k, x, s)' = Told(k, x, s)
      BY <2>1, <2>7, <2>8
    <3> QED BY <2>1, <3>2, <3>3 DEF ReportInv, Tallied
  <2>9. Cardinality(Shown(k, n, Outcome(n))') = Cardinality(Told(k, n, Outcome(n))')
    <3> DEFINE A == Shown(k, n, Outcome(n))
               B == Told(k, n, Outcome(n))
    <3>1. /\ A = {i \in 1..m : entries[k][i] = e} /\ A' = {i \in 1..m + 1 : entries'[k][i] = e}
      BY <1>2, <2>2 DEF Shown
    <3>2. A' = A \cup {m + 1} /\ m + 1 \notin A /\ A \in SUBSET (1..m)
      <4> HIDE DEF A, e, m
      <4>1. {i \in 1..m + 1 : entries'[k][i] = e} = {i \in 1..m : entries[k][i] = e} \cup {m + 1}
        BY <2>2, Positions
      <4> QED BY <2>2, <3>1, <4>1
    <3>3. B' = B \cup {L} /\ L \notin B /\ B \in SUBSET (1..L)
      <4>1. k \notin pending'[n] /\ k \in pending[n] /\ n \in DOMAIN results[L] /\ results[L][n] = Outcome(n)
        BY <1>4, <1>6, <2>3
      <4>2. /\ B = {r \in 1..L : n \in DOMAIN results[r] /\ results[r][n] = Outcome(n)
                                   /\ (r = L => k \notin pending[n])}
            /\ B' = {r \in 1..L : n \in DOMAIN results[r] /\ results[r][n] = Outcome(n)
                                    /\ (r = L => k \notin pending'[n])}
        BY <1>2, <1>3, <2>1, <2>6
      <4> HIDE DEF B
      <4> QED BY <1>4, <4>1, <4>2
    <3>4. Cardinality(A) = Cardinality(B)
      BY <1>3, <2>1 DEF ReportInv, Tallied
    <3> HIDE DEF A, B
    <3>5. IsFiniteSet(A) /\ IsFiniteSet(B)
      <4>1. IsFiniteSet(1..m) /\ IsFiniteSet(1..L)
        <5>1. m \in Int /\ L \in Int /\ 1 \in Int
          BY <1>4, <2>2
        <5> HIDE DEF m, L
        <5> QED BY <5>1, FS_Interval
      <4> QED BY <3>2, <3>3, <4>1, FS_Subset
    <3>6. Cardinality(A') = Cardinality(A) + 1 /\ Cardinality(B') = Cardinality(B) + 1
      BY <3>2, <3>3, <3>5, FS_AddElement
    <3>7. Cardinality(A') = Cardinality(B')
      BY <3>4, <3>6
    <3> QED BY <1>2, <3>7 DEF A, B
  <2>10. Tallied'
    <3>1. ASSUME NEW j \in Reporters, j # k
          PROVE  /\ \A i \in DOMAIN entries'[j] :
                      /\ entries'[j][i] = <<entries'[j][i][1], entries'[j][i][2]>>
                      /\ entries'[j][i][2] \in Statuses
                 /\ \A x : \A s \in Statuses :
                      Cardinality(Shown(j, x, s)') = Cardinality(Told(j, x, s)')
      <4>1. \A x : \A s \in Statuses : Told(j, x, s)' = Told(j, x, s)
        BY <2>7, <3>1
      <4>2. entries'[j] = entries[j]
        BY <2>1, <3>1
      <4> QED BY <4>1, <4>2, TalliesKept
    <3>2. \A i \in DOMAIN entries'[k] :
            /\ entries'[k][i] = <<entries'[k][i][1], entries'[k][i][2]>>
            /\ entries'[k][i][2] \in Statuses
      <4>1. \A i \in 1..m : /\ entries[k][i] = <<entries[k][i][1], entries[k][i][2]>>
                            /\ entries[k][i][2] \in Statuses
        BY <2>1, <2>2 DEF ReportInv, Tallied
      <4>2. e = <<e[1], e[2]>> /\ e[2] \in Statuses
        BY <1>3
      <4> HIDE DEF e
      <4> QED BY <2>2, <4>1, <4>2
    <3>3. \A x : \A s \in Statuses : Cardinality(Shown(k, x, s)') = Cardinality(Told(k, x, s)')
      <4> SUFFICES ASSUME NEW x, NEW s \in Statuses
                   PROVE  Cardinality(Shown(k, x, s)') = Cardinality(Told(k, x, s)')
        OBVIOUS
      <4>1. CASE x = n /\ s = Outcome(n)
        BY <1>2, <2>9, <4>1
      <4>2. CASE ~(x = n /\ s = Outcome(n))
        BY <2>8, <4>2
      <4> QED BY <4>1, <4>2
    <3> QED BY <1>2, <3>1, <3>2, <3>3 DEF Tallied
  <2> QED BY <1>1, <2>4, <2>5, <2>10 DEF ReportInv, Rendered
<1> QED BY <1>5, <1>6 DEF Report

\* Every step keeps the invariant of the reporters.
LEMMA ReportStep ==
  ASSUME ReportInv, [Next]_vars
  PROVE  ReportInv'
<1>1. CASE Choose
  <2>1. /\ phase \notin Started /\ phase' \notin Started
        /\ UNCHANGED <<at, pending, seen, failedTests, entries, results, input>>
    BY <1>1 DEF Choose, Prepare, LoadAndFilter, Sort, BeginSort, SortStep, EndSort, Started, reportVars
  <2>2. Rendered'
    BY <2>1 DEF Rendered, Started
  <2> QED BY <2>1, <2>2, ReportIdle DEF Started
<1>2. CASE StartSuite
  BY <1>2, StartSuiteInv
<1>3. CASE EndSuite
  <2>1. /\ phase = "running" /\ phase' = "complete" /\ sorted' = sorted
        /\ \A n \in Names : at[n] = "done"
        /\ UNCHANGED <<at, pending, seen, failedTests, entries, results, input>>
    BY <1>3 DEF EndSuite, walkVars
  <2>2. Rendered'
    BY <2>1 DEF Rendered
  <2> QED BY <2>1, <2>2, ReportIdle DEF Started
<1>4. CASE Flush
  <2>1. /\ phase = "complete" /\ phase' = "flushed" /\ sorted' = sorted
        /\ UNCHANGED <<at, pending, seen, failedTests, entries, results, input>>
        /\ documents' = [k \in Reporters |-> Document(command.reporters[k], entries[k])]
    BY <1>4 DEF Flush, walkVars
  <2>2. \A n \in Names : at[n] = "done"
    BY <2>1 DEF ReportInv, Stages, Started
  <2>3. Rendered'
    <3>1. command' = command /\ Reporters' = Reporters /\ Names' = Names /\ \A n : Outcome(n)' = Outcome(n)
      BY <2>1, SameCommand DEF Outcome
    <3>2. \A s : Count(s)' = Count(s)
      BY <3>1 DEF Count
    <3>3. \A kind, list : Document(kind, list)' = Document(kind, list)
      BY <3>1, <3>2 DEF Document, JSONDocument, CountedDocument
    <3> QED BY <2>1, <3>1, <3>3 DEF Rendered
  <2> QED BY <2>1, <2>2, <2>3, ReportIdle DEF Started
<1>5. CASE Rerun
  <2>1. /\ phase = "flushed" /\ phase' = "found"
        /\ UNCHANGED <<at, pending, seen, failedTests, entries, results, input>>
    BY <1>5 DEF Rerun, reportVars
  <2>2. \A n \in Names : at[n] = "done"
    BY <2>1 DEF ReportInv, Stages, Started
  <2>3. Rendered'
    BY <2>1 DEF Rendered
  <2> QED BY <2>1, <2>2, <2>3, ReportIdle DEF Started
<1>6. ASSUME NEW n \in Names,
             Skip(n) \/ (\E status \in {"passed", "failed"} : Run(n, status))
               \/ Read(n) \/ AppendFailure(n) \/ Report(n)
      PROVE  ReportInv'
  BY <1>6, SkipInv, RunInv, ConsoleInv, ReportInvariant DEF Statuses
<1>7. CASE UNCHANGED vars
  <2>1. /\ phase' = phase /\ sorted' = sorted /\ documents' = documents
        /\ UNCHANGED <<at, pending, seen, failedTests, entries, results, input>>
    BY <1>7 DEF vars, selectionVars, reportVars, walkVars
  <2>2. Rendered'
    <3>1. command' = command /\ Reporters' = Reporters /\ Names' = Names /\ \A n : Outcome(n)' = Outcome(n)
      BY <2>1, SameCommand DEF Outcome
    <3>2. \A s : Count(s)' = Count(s)
      BY <3>1 DEF Count
    <3>3. \A kind, list : Document(kind, list)' = Document(kind, list)
      BY <3>1, <3>2 DEF Document, JSONDocument, CountedDocument
    <3> QED BY <2>1, <3>1, <3>3 DEF ReportInv, Rendered
  <2>3. phase' \in Started \ {"running"} => \A n \in Names : at[n] = "done"
    BY <2>1 DEF ReportInv, Stages
  <2> QED BY <2>1, <2>2, <2>3, ReportIdle
<1> QED BY <1>1, <1>2, <1>3, <1>4, <1>5, <1>6, <1>7 DEF Next, Ended

\* What the reporters were told is what was run, in every state.
THEOREM ReportInvariance == Spec => []ReportInv
<1>1. ReportInv /\ [Next]_vars => ReportInv'
  BY ReportStep
<1> QED BY ReportInit, <1>1, PTL DEF Spec

\* Sets that correspond one to one have the same size.
LEMMA SameSize ==
  ASSUME NEW S, NEW T, IsFiniteSet(S), NEW f \in [S -> T],
         \A a, b \in S : f[a] = f[b] => a = b,
         \A t \in T : \E a \in S : f[a] = t
  PROVE  Cardinality(S) = Cardinality(T)
<1>1. f \in Injection(S, T) /\ f \in Surjection(S, T)
  BY DEF Injection, Surjection, IsInjective
<1>2. ExistsBijection(S, T)
  BY <1>1 DEF ExistsBijection, Bijection
<1> QED BY <1>2, FS_Bijection

\* What has been told when the documents are written is all that was run.
LEMMA AllTold ==
  ASSUME ReportInv, phase = "flushed", NEW k \in Reporters, NEW n, NEW status \in Statuses
  PROVE  Told(k, n, status) = {r \in DOMAIN results : n \in DOMAIN results[r] /\ results[r][n] = status}
<1> SUFFICES ASSUME n \in DOMAIN results[Len(results)], results[Len(results)][n] = status
             PROVE  k \notin pending[n]
  BY DEF Told
<1>1. n \in Names /\ StageOf(n) /\ at[n] = "done" /\ Outcome(n) = status
  BY DEF ReportInv, Stages, Started, Last, Outcome
<1> QED BY <1>1 DEF StageOf, Statuses

\* In a first run the entries are the tests that ran, each with its status.
LEMMA FirstRun ==
  ASSUME ReportInv, phase = "flushed", Len(results) = 1, NEW k \in Reporters
  PROVE  /\ \A i \in DOMAIN entries[k] :
              entries[k][i][1] \in Names /\ Outcome(entries[k][i][1]) = entries[k][i][2]
         /\ \A i, j \in DOMAIN entries[k] : entries[k][i][1] = entries[k][j][1] => i = j
         /\ \A n \in Names : Outcome(n) \in Statuses => \E i \in DOMAIN entries[k] : entries[k][i][1] = n
<1> DEFINE list == entries[k]
           m == Len(list)
<1>1. DOMAIN results = 1..1 /\ Last(results) = results[1] /\ DOMAIN results[1] = Names
  BY SeqFacts DEF ReportInv, ReportTyped, Stages, Started, Last
<1>2. m \in Nat /\ DOMAIN list = 1..m
  BY SeqFacts DEF ReportInv, ReportTyped
<1>3. ASSUME NEW n, NEW status \in Statuses
      PROVE  /\ Told(k, n, status) = {r \in {1} : n \in Names /\ Outcome(n) = status}
             /\ IsFiniteSet(Shown(k, n, status))
             /\ Cardinality(Shown(k, n, status)) = Cardinality(Told(k, n, status))
  <2>1. Told(k, n, status) = {r \in {1} : n \in Names /\ Outcome(n) = status}
    BY <1>1, AllTold DEF Outcome
  <2>2. IsFiniteSet(1..m)
    <3> HIDE DEF m
    <3> QED BY <1>2, FS_Interval
  <2>3. Shown(k, n, status) \in SUBSET (1..m)
    BY <1>2 DEF Shown
  <2>4. IsFiniteSet(Shown(k, n, status))
    BY <2>2, <2>3, FS_Subset
  <2> QED BY <2>1, <2>4 DEF ReportInv, Tallied
<1>4. ASSUME NEW i \in DOMAIN list
      PROVE  /\ list[i][2] \in Statuses /\ i \in Shown(k, list[i][1], list[i][2])
  BY DEF ReportInv, Tallied, Shown
<1>5. ASSUME NEW i \in DOMAIN list
      PROVE  list[i][1] \in Names /\ Outcome(list[i][1]) = list[i][2]
  <2> DEFINE A == Shown(k, list[i][1], list[i][2])
             B == Told(k, list[i][1], list[i][2])
  <2>1. i \in A /\ IsFiniteSet(A) /\ Cardinality(A) = Cardinality(B)
    BY <1>3, <1>4, <1>5
  <2>2. B # {}
    BY <2>1, FS_EmptySet
  <2> QED BY <1>3, <1>4, <1>5, <2>2
<1>6. ASSUME NEW i \in DOMAIN list, NEW j \in DOMAIN list, list[i][1] = list[j][1]
      PROVE  i = j
  <2> DEFINE A == Shown(k, list[i][1], list[i][2])
             B == Told(k, list[i][1], list[i][2])
  <2>1. list[i][2] = list[j][2]
    BY <1>5, <1>6
  <2>2. i \in A /\ j \in A /\ IsFiniteSet(A) /\ Cardinality(A) = Cardinality(B)
    BY <1>3, <1>4, <1>6, <2>1
  <2>3. B = {1}
    BY <1>3, <1>4, <1>5
  <2>4. Cardinality(A) = 1
    BY <2>2, <2>3, FS_Singleton
  <2>5. \E x : A = {x}
    BY <2>2, <2>4, FS_Singleton
  <2> QED BY <2>2, <2>5
<1>7. ASSUME NEW n \in Names, Outcome(n) \in Statuses
      PROVE  \E i \in DOMAIN list : list[i][1] = n
  <2> DEFINE A == Shown(k, n, Outcome(n))
             B == Told(k, n, Outcome(n))
  <2>1. B = {1} /\ IsFiniteSet(A) /\ Cardinality(A) = Cardinality(B)
    BY <1>3, <1>7
  <2>2. A # {}
    BY <2>1, FS_EmptySet, FS_Singleton
  <2> QED BY <2>2 DEF Shown
<1> QED BY <1>5, <1>6, <1>7

\* The tests of a sorted selection can be counted.
LEMMA NamesFinite ==
  ASSUME SelectionInv, phase \in Ordered
  PROVE  IsFiniteSet(Names)
<1>1. sorted \in Seq(ToSet(tests))
  BY DEF SelectionInv, Sorting, WalkInv, WalkTyped
<1>2. Len(sorted) \in Nat /\ DOMAIN sorted = 1..Len(sorted)
  BY <1>1, SeqFacts
<1>3. IsFiniteSet(DOMAIN sorted)
  BY <1>2, FS_Interval
<1> DEFINE f == [i \in DOMAIN sorted |-> sorted[i].name]
<1>4. f \in Surjection(DOMAIN sorted, Names)
  BY DEF Surjection, Names, NamesOf
<1> QED BY <1>3, <1>4, FS_Surjection

\* In a first run the numbers of a document are those of the suite.
LEMMA FirstNumbers ==
  ASSUME ReportInv, SelectionInv, phase = "flushed", Len(results) = 1, NEW k \in Reporters
  PROVE  /\ \A s \in Statuses : Cardinality({i \in DOMAIN entries[k] : entries[k][i][2] = s}) = Count(s)
         /\ Len(entries[k]) = Cardinality(Names) - Count("skipped")
         /\ Cardinality({i \in DOMAIN entries[k] : entries[k][i][2] = "skipped"}) = 0
         /\ Len(entries[k]) \in Nat
<1> DEFINE list == entries[k]
           m == Len(list)
           Ran == {n \in Names : Outcome(n) \in Statuses}
<1>1. m \in Nat /\ DOMAIN list = 1..m
  BY SeqFacts DEF ReportInv, ReportTyped
<1>2. IsFiniteSet(DOMAIN list) /\ Cardinality(DOMAIN list) = m
  <2> HIDE DEF m, list
  <2>1. IsFiniteSet(1..m) /\ Cardinality(1..m) = m
    BY <1>1, FS_Interval
  <2> QED BY <1>1, <2>1
<1>3. /\ \A i \in DOMAIN list : list[i][1] \in Names /\ Outcome(list[i][1]) = list[i][2]
      /\ \A i \in DOMAIN list : list[i][2] \in Statuses
      /\ \A i, j \in DOMAIN list : list[i][1] = list[j][1] => i = j
      /\ \A n \in Names : Outcome(n) \in Statuses => \E i \in DOMAIN list : list[i][1] = n
  BY FirstRun DEF ReportInv, Tallied
<1>4. IsFiniteSet(Names)
  BY NamesFinite DEF Ordered
<1> HIDE DEF m, list
<1>5. ASSUME NEW s \in Statuses
      PROVE  Cardinality({i \in DOMAIN list : list[i][2] = s}) = Count(s)
  <2> DEFINE S == {i \in DOMAIN list : list[i][2] = s}
             T == {n \in Names : Outcome(n) = s}
             f == [i \in S |-> list[i][1]]
  <2>1. IsFiniteSet(S)
    BY <1>2, FS_Subset
  <2>2. f \in [S -> T]
    BY <1>3
  <2>3. \A a, b \in S : f[a] = f[b] => a = b
    BY <1>3
  <2>4. \A t \in T : \E a \in S : f[a] = t
    BY <1>3
  <2> HIDE DEF S, T, f
  <2>5. Cardinality(S) = Cardinality(T)
    BY <2>1, <2>2, <2>3, <2>4, SameSize
  <2> QED BY <2>5 DEF S, T, Count
<1>6. m = Cardinality(Ran)
  <2> DEFINE S == DOMAIN list
             f == [i \in S |-> list[i][1]]
  <2>1. f \in [S -> Ran]
    BY <1>3
  <2>2. \A a, b \in S : f[a] = f[b] => a = b
    BY <1>3
  <2>3. \A t \in Ran : \E a \in S : f[a] = t
    BY <1>3
  <2> HIDE DEF S, f, Ran
  <2>4. IsFiniteSet(S)
    BY <1>2 DEF S
  <2>5. Cardinality(S) = Cardinality(Ran)
    BY <2>1, <2>2, <2>3, <2>4, SameSize
  <2> QED BY <1>2, <2>5 DEF S
<1>7. Cardinality(Ran) = Cardinality(Names) - Count("skipped")
  <2> DEFINE Skipped == {n \in Names : Outcome(n) = "skipped"}
  <2>1. \A n \in Names : Outcome(n) \in Statuses <=> Outcome(n) # "skipped"
    <3> SUFFICES ASSUME NEW n \in Names
                 PROVE  Outcome(n) \in Statuses <=> Outcome(n) # "skipped"
      OBVIOUS
    <3>1. StageOf(n) /\ at[n] = "done"
      BY DEF ReportInv, Stages, Started
    <3> QED BY <3>1 DEF StageOf, Statuses
  <2>2. Ran = Names \ Skipped /\ Names \cap Skipped = Skipped
    BY <2>1
  <2>3. Cardinality(Names \ Skipped) = Cardinality(Names) - Cardinality(Names \cap Skipped)
    BY <1>4, FS_Difference
  <2> QED BY <2>2, <2>3 DEF Count
<1>8. {i \in DOMAIN list : list[i][2] = "skipped"} = {}
  BY <1>3 DEF Statuses
<1> QED BY <1>1, <1>5, <1>6, <1>7, <1>8, FS_EmptySet DEF list, m

\* Every reporter has each result of each run once, and no other; in a first run
\* its numbers are those of the suite (json.go, junit.go, html.go).
THEOREM ReportingComplete == Spec => []EachResultReported
<1>1. ReportInv /\ SelectionInv => EachResultReported
  <2> SUFFICES ASSUME ReportInv, SelectionInv, phase = "flushed", NEW k \in Reporters,
                      NEW document, document = documents[k], NEW list, list = document.tests
               PROVE  /\ \A n \in Names : \A status \in {"passed", "failed"} :
                           Cardinality({i \in DOMAIN list : list[i] = <<n, status>>}) =
                             Cardinality({r \in DOMAIN results : n \in DOMAIN results[r] /\ results[r][n] = status})
                      /\ \A i \in DOMAIN list : list[i][2] # "skipped"
                      /\ Len(results) = 1 =>
                           /\ document.passed = Count("passed") /\ document.failed = Count("failed")
                           /\ document.total - document.skipped = Len(list)
    <3>1. phase = "flushed" /\ ReportInv => DOMAIN documents = Reporters
      BY DEF ReportInv, Rendered
    <3> QED BY <3>1, Zenon DEF EachResultReported
  <2>1. document = Document(command.reporters[k], entries[k])
    BY DEF ReportInv, Rendered
  <2>2. \/ document = JSONDocument(entries[k])
        \/ document = CountedDocument(entries[k])
    BY <2>1 DEF Document
  <2>3. list = entries[k]
    BY <2>2 DEF JSONDocument, CountedDocument
  <2>4. ASSUME NEW n, NEW status \in {"passed", "failed"}
        PROVE  Cardinality({i \in DOMAIN list : list[i] = <<n, status>>})
                 = Cardinality({r \in DOMAIN results : n \in DOMAIN results[r] /\ results[r][n] = status})
    <3>1. Cardinality(Shown(k, n, status)) = Cardinality(Told(k, n, status))
      BY DEF ReportInv, Tallied, Statuses
    <3>2. Told(k, n, status) = {r \in DOMAIN results : n \in DOMAIN results[r] /\ results[r][n] = status}
      BY AllTold DEF Statuses
    <3> QED BY <2>3, <3>1, <3>2 DEF Shown
  <2>5. \A i \in DOMAIN list : list[i][2] # "skipped"
    BY <2>3 DEF ReportInv, Tallied, Statuses
  <2>6. ASSUME Len(results) = 1
        PROVE  /\ document.passed = Count("passed") /\ document.failed = Count("failed")
               /\ document.total - document.skipped = Len(list)
    <3>1. /\ Cardinality({i \in DOMAIN list : list[i][2] = "passed"}) = Count("passed")
          /\ Cardinality({i \in DOMAIN list : list[i][2] = "failed"}) = Count("failed")
          /\ Len(list) = Cardinality(Names) - Count("skipped")
          /\ Cardinality({i \in DOMAIN list : list[i][2] = "skipped"}) = 0
          /\ Len(list) \in Nat
      BY <2>3, <2>6, FirstNumbers DEF Statuses
    <3>2. CASE document = JSONDocument(entries[k])
      BY <2>3, <3>1, <3>2 DEF JSONDocument
    <3>3. CASE document = CountedDocument(entries[k])
      <4>1. document = CountedDocument(list)
        BY <2>3, <3>3
      <4>2. /\ document.passed = Cardinality({i \in DOMAIN list : list[i][2] = "passed"})
            /\ document.failed = Cardinality({i \in DOMAIN list : list[i][2] = "failed"})
            /\ document.total = Len(list)
            /\ document.skipped = Cardinality({i \in DOMAIN list : list[i][2] = "skipped"})
        BY <4>1 DEF CountedDocument
      <4> QED BY <3>1, <4>2
    <3> QED BY <2>2, <3>2, <3>3
  <2> QED BY <2>4, <2>5, <2>6
<1> QED BY <1>1, SelectionInvariant, ReportInvariance, PTL

-----------------------------------------------------------------------------
(* The sort ends, cycles or not.                                                *)

\* The positions of the files found are numbers with a bound.
FilesBounded == \E n \in Nat : DOMAIN files \subseteq 1..n

\* A call of visit looks at no dependency behind the last.
StackBounded ==
  \A k \in DOMAIN frames : frames[k].next <= Len(frames[k].td.depends) + 1

\* What the sort goes through is finite: the definitions that the loop has not
\* reached, the names that are marked, those that are placed, and the dependencies
\* of the definition at hand.
SortBounded ==
  phase = "sorting" =>
    /\ IsFiniteSet(DOMAIN tests) /\ left \subseteq DOMAIN tests
    /\ IsFiniteSet(NamesOf(tests)) /\ NamesOf(sorted) \subseteq visited /\ visited \subseteq NamesOf(tests)
    /\ StackBounded

\* The loop goes on, a name is marked, a definition is placed, or the call on top
\* looks at its next dependency.
WalkGoesOn ==
  \/ left' \subseteq left /\ left' # left
  \/ left' = left /\ visited \subseteq visited' /\ visited' # visited
  \/ /\ left' = left /\ visited' = visited
     /\ NamesOf(sorted) \subseteq NamesOf(sorted)' /\ NamesOf(sorted)' # NamesOf(sorted)
  \/ /\ left' = left /\ visited' = visited /\ sorted' = sorted
     /\ Len(frames') = Len(frames) /\ Top.td' = Top.td /\ Top.next' = Top.next + 1

SortMoves == phase = "sorting" => UNCHANGED tests /\ (WalkGoesOn \/ phase' = "sorted")

\* The guards of the walk: the loop has a first definition, the index has an entry
\* for a name that is known, and a call that has looked at all returns.
CanWalk ==
  \/ frames = << >> /\ \E i \in left : \A j \in left : i <= j
  \/ /\ frames # << >> /\ Top.next \in DOMAIN Top.td.depends
     /\ Top.td.depends[Top.next] \in NamesOf(tests) =>
          \E i \in DOMAIN tests : IsIndexed(Top.td.depends[Top.next], i)
  \/ frames # << >> /\ Top.next \notin DOMAIN Top.td.depends

SortNeverStuck == phase = "sorting" => IsWalked \/ CanWalk

\* A list of files that a target finds has the positions of the tree, and those of
\* several targets have as many for each.
LEMMA FoundBounded ==
  ASSUME SelectionInv, NEW loaded
  PROVE  \E n \in Nat : DOMAIN Found(loaded).files \subseteq 1..n
<1>1. IsSequence(input.tree) /\ IsSequence(command.targets)
  BY SelectionAssumption DEF SelectionInv, command
<1>2. Len(input.tree) \in Nat /\ DOMAIN input.tree = 1..Len(input.tree) /\ Len(command.targets) \in Nat
  BY <1>1, SeqFacts DEF IsSequence
<1>3. ASSUME NEW targets, Len(targets) \in Nat
      PROVE  \E n \in Nat : DOMAIN DiscoverAll(input.tree, targets).files \subseteq 1..n
  <2>1. Len(targets) * Len(input.tree) \in Nat
    BY <1>2, <1>3
  <2>2. DOMAIN DiscoverAll(input.tree, targets).files \subseteq 1..(Len(targets) * Len(input.tree))
    BY DEF DiscoverAll
  <2> QED BY <2>1, <2>2
<1>4. ASSUME NEW dir
      PROVE  DOMAIN Discover(input.tree, dir) \subseteq 1..Len(input.tree)
  BY <1>2 DEF Discover, Kept
<1>5. CASE command.who = "run"
  <2> DEFINE targets == IF command.targets # << >> THEN command.targets
                        ELSE <<[kind |-> "dir", dir |-> TestDir(loaded)]>>
  <2>1. Len(targets) \in Nat
    <3>1. Len(<<[kind |-> "dir", dir |-> TestDir(loaded)]>>) = 1
      OBVIOUS
    <3> QED BY <1>2, <3>1
  <2>2. Found(loaded) = DiscoverAll(input.tree, targets)
    BY <1>5 DEF Found
  <2> HIDE DEF targets
  <2> QED BY <1>3, <2>1, <2>2
<1>6. CASE command.who # "run"
  BY <1>2, <1>4, <1>6 DEF Found
<1> QED BY <1>5, <1>6

\* Only Prepare finds files.
LEMMA FilesStep ==
  ASSUME SelectionInv, FilesBounded, [Next]_vars
  PROVE  FilesBounded'
<1>1. CASE Prepare
  BY <1>1, FoundBounded DEF Prepare, FilesBounded
<1>2. CASE ~Prepare
  <2>1. UNCHANGED files
    BY <1>2 DEF Next, Choose, LoadAndFilter, Sort, BeginSort, SortStep, EndSort, StartSuite, EndSuite,
       Flush, Rerun, Skip, Run, Read, AppendFailure, Report, Ended, vars, selectionVars
  <2> QED BY <2>1 DEF FilesBounded
<1> QED BY <1>1, <1>2

\* A set of positions has a least one, and below a bound a greatest one.
LEMMA LeastPosition ==
  ASSUME NEW S \in SUBSET Nat, S # {}
  PROVE  \E m \in S : \A k \in S : m <= k
<1>1. PICK m \in S : \A k \in S : ~(<<k, m>> \in OpToRel(<, Nat))
  BY NatLessThanWellFounded, WFMin, Zenon
<1>2. \A k \in S : ~(k < m)
  BY <1>1 DEF OpToRel
<1> QED BY <1>2

\* Position n - k counts down from the bound.
LEMMA GreatestPosition ==
  ASSUME NEW n \in Nat, NEW S \in SUBSET (1..n), S # {}
  PROVE  \E m \in S : \A k \in S : k <= m
<1> DEFINE T == {n - k : k \in S}
<1>1. T \in SUBSET Nat /\ T # {}
  <2>1. PICK k \in S : TRUE
    OBVIOUS
  <2>2. n - k \in T
    OBVIOUS
  <2>3. \A j \in S : n - j \in Nat
    OBVIOUS
  <2> QED BY <2>2, <2>3
<1>2. PICK m \in T : \A k \in T : m <= k
  <2> HIDE DEF T
  <2> QED BY <1>1, LeastPosition
<1>3. PICK i \in S : m = n - i
  BY <1>2
<1>4. \A k \in S : n - i <= n - k
  BY <1>2, <1>3
<1>5. \A k \in S : k <= i
  BY <1>4
<1> QED BY <1>5

\* The tests are at positions of files.
LEMMA TestsBounded ==
  ASSUME SelectionInv, FilesBounded, phase \in Chosen
  PROVE  \E n \in Nat : DOMAIN tests \subseteq 1..n
BY DEF SelectionInv, SelectedInv, IsSelected, FilesBounded

\* There are finitely many definitions, and names of them.
LEMMA TestsFinite ==
  ASSUME SelectionInv, FilesBounded, phase \in Chosen
  PROVE  IsFiniteSet(DOMAIN tests) /\ IsFiniteSet(NamesOf(tests))
<1>1. PICK n \in Nat : DOMAIN tests \subseteq 1..n
  BY TestsBounded
<1>2. IsFiniteSet(DOMAIN tests)
  <2>1. IsFiniteSet(1..n)
    BY FS_Interval
  <2> QED BY <1>1, <2>1, FS_Subset
<1> DEFINE f == [i \in DOMAIN tests |-> tests[i].name]
<1>3. f \in Surjection(DOMAIN tests, NamesOf(tests))
  BY DEF Surjection, NamesOf
<1> HIDE DEF f
<1> QED BY <1>2, <1>3, FS_Surjection

\* What is marked is a name of a definition, and what is placed is marked.
LEMMA MarkedNames ==
  ASSUME WalkInv
  PROVE  NamesOf(sorted) \subseteq visited /\ visited \subseteq NamesOf(tests)
<1>1. \A i \in DOMAIN sorted : sorted[i] \in ToSet(tests)
  BY InSeq DEF WalkInv, WalkTyped
<1>2. \A k \in DOMAIN frames : frames[k].td \in ToSet(tests)
  BY FrameTyped DEF WalkInv
<1>3. \A td \in ToSet(tests) : td.name \in NamesOf(tests)
  BY DEF ToSet, NamesOf
<1>4. NamesOf(sorted) \subseteq visited
  BY DEF NamesOf, WalkInv, Marked
<1>5. visited \subseteq NamesOf(tests)
  BY <1>1, <1>2, <1>3 DEF WalkInv, Marked
<1> QED BY <1>4, <1>5

\* The loop over the dependencies: a call of visit, or the next dependency.
LEMMA VisitDependencyGoesOn ==
  ASSUME WalkInv, StackBounded, VisitDependency, UNCHANGED tests
  PROVE  WalkGoesOn /\ StackBounded'
<1> DEFINE n == Len(frames)
           d == Top.td.depends[Top.next]
           callers == Append(Outer, [Top EXCEPT !.next = @ + 1])
           F == [td : ToSet(tests), next : Nat \ {0}]
<1>1. WalkTyped /\ frames # << >> /\ Top.next \in DOMAIN Top.td.depends
      /\ left' = left /\ sorted' = sorted
  BY DEF WalkInv, VisitDependency
<1>2. /\ callers \in Seq(F)
      /\ n \in Nat \ {0} /\ DOMAIN frames = 1..n /\ Len(callers) = n /\ DOMAIN callers = 1..n
      /\ \A k \in 1..n : callers[k].td = frames[k].td
      /\ \A k \in 1..n - 1 : callers[k].next = frames[k].next
      /\ callers[n].next = frames[n].next + 1
  BY <1>1, NextDependency
<1>3. IF d \in NamesOf(tests)
      THEN \E i \in DOMAIN tests : IsIndexed(d, i) /\ Visit(tests[i], callers)
      ELSE frames' = callers /\ UNCHANGED visited
  BY DEF VisitDependency
<1> HIDE DEF callers
<1>4. \A k \in 1..n : callers[k].next <= Len(callers[k].td.depends) + 1
  <2> HIDE DEF n
  <2>1. Top.td.depends \in Seq(STRING)
    <3>1. n \in DOMAIN frames /\ Top = frames[n]
      BY <1>2 DEF Top, n
    <3>2. Top.td \in ToSet(tests)
      BY <1>1, <3>1, FrameTyped
    <3> QED BY <1>1, <3>2 DEF WalkTyped, ToSet
  <2>2. frames[n].next \in 1..Len(frames[n].td.depends) /\ Len(frames[n].td.depends) \in Nat
    BY <1>1, <2>1, SeqFacts DEF Top, n
  <2>3. callers[n].next <= Len(callers[n].td.depends) + 1
    <3>1. callers[n].td = frames[n].td
      BY <1>2
    <3> QED BY <1>2, <2>2, <3>1
  <2>4. ASSUME NEW k \in 1..n - 1
        PROVE  callers[k].next <= Len(callers[k].td.depends) + 1
    <3>1. k \in 1..n
      BY <1>2
    <3> QED BY <1>2, <3>1 DEF StackBounded
  <2>5. \A k \in 1..n : k = n \/ k \in 1..n - 1
    BY <1>2
  <2> QED BY <2>3, <2>4, <2>5
<1>5. CASE frames' = callers /\ visited' = visited
  <2>1. StackBounded'
    BY <1>2, <1>4, <1>5 DEF StackBounded
  <2>2. Top.td' = Top.td /\ Top.next' = Top.next + 1 /\ Len(frames') = n
    <3>1. Top = frames[n] /\ Top' = callers[n]
      BY <1>2, <1>5 DEF Top
    <3> QED BY <1>2, <1>5, <3>1
  <2> QED BY <1>1, <1>5, <2>1, <2>2 DEF WalkGoesOn
<1>6. ASSUME NEW i \in DOMAIN tests, tests[i].name \notin visited, Visit(tests[i], callers)
      PROVE  WalkGoesOn /\ StackBounded'
  <2> DEFINE e == [td |-> tests[i], next |-> 1]
  <2>1. frames' = Append(callers, e) /\ visited' = visited \cup {tests[i].name}
    BY <1>6 DEF Visit
  <2>2. e \in F /\ tests[i].depends \in Seq(STRING)
    BY <1>1 DEF WalkTyped, ToSet
  <2>3. /\ DOMAIN frames' = 1..n + 1 /\ frames'[n + 1] = e
        /\ \A k \in 1..n : frames'[k] = callers[k]
    <3> HIDE DEF e, F
    <3> QED BY <1>2, <2>1, <2>2, SeqAppend
  <2>4. e.next <= Len(e.td.depends) + 1
    <3>1. Len(tests[i].depends) \in Nat
      BY <2>2, SeqFacts
    <3> QED BY <3>1
  <2>5. \A k \in 1..n + 1 : k = n + 1 \/ k \in 1..n
    BY <1>2
  <2>6. StackBounded'
    <3> HIDE DEF e
    <3> QED BY <1>4, <2>3, <2>4, <2>5 DEF StackBounded
  <2> QED BY <1>1, <1>6, <2>1, <2>6 DEF WalkGoesOn
<1>7. QED
  BY <1>3, <1>5, <1>6 DEF Visit

\* Each step of the walk goes on, and its calls stay within their lists.
LEMMA WalkForward ==
  ASSUME WalkInv, StackBounded, Walk
  PROVE  WalkGoesOn /\ StackBounded'
<1>1. UNCHANGED tests
  BY DEF Walk
<1>2. CASE VisitTest
  <2>1. PICK i \in left : left' = left \ {i} /\ Visit(tests[i], << >>)
    BY <1>2 DEF VisitTest
  <2>2. StackBounded'
    <3>1. CASE frames' = << >>
      BY <3>1 DEF StackBounded
    <3>2. CASE frames' = Append(<< >>, [td |-> tests[i], next |-> 1])
      <4>1. tests[i].depends \in Seq(STRING)
        BY <2>1 DEF WalkInv, WalkTyped
      <4>2. Len(tests[i].depends) \in Nat
        BY <4>1, SeqFacts
      <4>3. DOMAIN frames' = 1..1 /\ frames'[1].td = tests[i] /\ frames'[1].next = 1
        BY <3>2
      <4> QED BY <4>2, <4>3 DEF StackBounded
    <3> QED BY <2>1, <3>1, <3>2 DEF Visit
  <2>3. left' \subseteq left /\ left' # left
    BY <2>1
  <2> QED BY <2>2, <2>3 DEF WalkGoesOn
<1>3. CASE VisitDependency
  BY <1>1, <1>3, VisitDependencyGoesOn
<1>4. CASE Return
  <2> DEFINE n == Len(frames)
             F == [td : ToSet(tests), next : Nat \ {0}]
  <2>1. /\ frames \in Seq(F) /\ n \in Nat \ {0} /\ DOMAIN frames = 1..n
        /\ sorted \in Seq(ToSet(tests)) /\ Len(sorted) \in Nat /\ DOMAIN sorted = 1..Len(sorted)
    BY <1>4, SeqFacts DEF Return, WalkInv, WalkTyped
  <2>2. DOMAIN frames' = 1..n - 1 /\ \A k \in 1..n - 1 : frames'[k] = frames[k]
    BY <1>4, <2>1, SeqFront DEF Return, Outer
  <2>3. StackBounded'
    <3>1. \A k \in 1..n - 1 : k \in 1..n
      BY <2>1
    <3> HIDE DEF n
    <3> QED BY <2>1, <2>2, <3>1 DEF StackBounded
  <2>4. Top.td \in ToSet(tests) /\ \A i \in DOMAIN sorted : Top.td.name # sorted[i].name
    <3>1. n \in DOMAIN frames
      BY <2>1
    <3> QED BY <3>1, FrameTyped DEF Top, WalkInv, Distinct
  <2>5. /\ DOMAIN sorted' = 1..Len(sorted) + 1 /\ sorted'[Len(sorted) + 1] = Top.td
        /\ \A i \in 1..Len(sorted) : sorted'[i] = sorted[i]
    BY <1>4, <2>1, <2>4, SeqAppend DEF Return
  <2>6. NamesOf(sorted) \subseteq NamesOf(sorted)'
    BY <2>1, <2>5 DEF NamesOf
  <2>7. Top.td.name \in NamesOf(sorted)' /\ Top.td.name \notin NamesOf(sorted)
    <3>1. Len(sorted) + 1 \in DOMAIN sorted'
      BY <2>1, <2>5
    <3> QED BY <2>4, <2>5, <3>1 DEF NamesOf
  <2> QED BY <1>4, <2>3, <2>6, <2>7 DEF Return, WalkGoesOn
<1> QED BY <1>2, <1>3, <1>4 DEF Walk

\* While the sort is under way its calls stay within their lists.
LEMMA StackStep ==
  ASSUME SelectionInv, [Next]_vars, phase = "sorting" => StackBounded
  PROVE  /\ phase' = "sorting" => StackBounded'
         /\ [SortMoves]_vars
<1>1. CASE BeginSort
  BY <1>1 DEF BeginSort, Begin, StackBounded, SortMoves
<1>2. CASE SortStep
  <2>1. WalkInv /\ phase = "sorting" /\ Walk
    BY <1>2 DEF SortStep, SelectionInv, Sorting
  <2> QED BY <1>2, <2>1, WalkForward DEF SortMoves, Walk
<1>3. CASE EndSort
  BY <1>3 DEF EndSort, SortMoves
<1>4. CASE UNCHANGED vars
  BY <1>4 DEF vars, selectionVars, walkVars, StackBounded
<1>5. CASE Next /\ ~Sort /\ ~UNCHANGED vars
  <2>1. phase # "sorting" /\ phase' # "sorting"
    BY <1>5 DEF Next, Choose, Prepare, LoadAndFilter, StartSuite, EndSuite,
       Flush, Rerun, Skip, Run, Read, AppendFailure, Report, Ended, selectionVars
  <2> QED BY <2>1 DEF SortMoves
<1> QED BY <1>1, <1>2, <1>3, <1>4, <1>5 DEF Sort

\* What the two theorems add to SelectionInv.
LEMMA SortProgress == Spec => [](FilesBounded /\ (phase = "sorting" => StackBounded))
<1> DEFINE Inv == FilesBounded /\ (phase = "sorting" => StackBounded)
<1>1. RInit => Inv
  <2>1. DOMAIN << >> = {}
    OBVIOUS
  <2> QED BY <2>1 DEF RInit, Init, FilesBounded
<1>2. SelectionInv /\ Inv /\ [Next]_vars => Inv'
  BY FilesStep, StackStep
<1> QED BY <1>1, <1>2, SelectionInvariant, PTL DEF Spec

\* The sort ends, whatever the suite, cycles included: it goes through finitely many
\* definitions, marks and places each name at most once and looks at each
\* dependency of a call once (orchestrator.go, topoSortTests).
THEOREM SortMovesForward == Spec => []SortBounded /\ [][SortMoves]_vars
<1> DEFINE Inv == FilesBounded /\ (phase = "sorting" => StackBounded)
<1>1. SelectionInv /\ Inv => SortBounded
  <2> SUFFICES ASSUME SelectionInv, Inv, phase = "sorting" PROVE SortBounded
    BY DEF SortBounded
  <2>1. WalkInv /\ phase \in Chosen
    BY DEF SelectionInv, Sorting, Chosen
  <2> QED BY <2>1, TestsFinite, MarkedNames DEF SortBounded, WalkInv, WalkTyped
<1>2. SelectionInv /\ Inv /\ [Next]_vars => [SortMoves]_vars
  BY StackStep
<1>3. Spec => []Inv
  BY SortProgress
<1>4. Spec => [][Next]_vars
  BY PTL DEF Spec
<1> HIDE DEF Inv
<1> QED BY <1>1, <1>2, <1>3, <1>4, SelectionInvariant, PTL

\* Until all definitions are placed the sort can go on: the loop has a next
\* definition, and the index one for each name that is known (topoSortTests).
THEOREM SortIsNeverStuck == Spec => []SortNeverStuck
<1> DEFINE Inv == FilesBounded /\ (phase = "sorting" => StackBounded)
<1>1. SelectionInv /\ Inv => SortNeverStuck
  <2> SUFFICES ASSUME SelectionInv, FilesBounded, phase = "sorting", ~IsWalked PROVE CanWalk
    BY DEF SortNeverStuck
  <2>1. WalkInv /\ phase \in Chosen
    BY DEF SelectionInv, Sorting, Chosen
  <2>2. PICK n \in Nat : DOMAIN tests \subseteq 1..n
    BY <2>1, TestsBounded
  <2>3. CASE frames = << >>
    <3>1. left # {} /\ left \subseteq DOMAIN tests
      BY <2>1, <2>3 DEF IsWalked, WalkInv, WalkTyped
    <3>2. left \in SUBSET Nat
      BY <2>2, <3>1
    <3> QED BY <2>3, <3>1, <3>2, LeastPosition DEF CanWalk
  <2>4. CASE frames # << >>
    <3> DEFINE d == Top.td.depends[Top.next]
    <3>1. ASSUME d \in NamesOf(tests)
          PROVE  \E i \in DOMAIN tests : IsIndexed(d, i)
      <4> DEFINE S == {i \in DOMAIN tests : tests[i].name = d}
      <4>1. S \in SUBSET (1..n) /\ S # {}
        BY <2>2, <3>1, InNamesOf
      <4>2. PICK m \in S : \A k \in S : k <= m
        <5> HIDE DEF S
        <5> QED BY <4>1, GreatestPosition
      <4> QED BY <4>2 DEF IsIndexed
    <3> QED BY <2>4, <3>1 DEF CanWalk
  <2> QED BY <2>3, <2>4
<1>2. Spec => []Inv
  BY SortProgress
<1> HIDE DEF Inv
<1> QED BY <1>1, <1>2, SelectionInvariant, PTL
-----------------------------------------------------------------------------
(* What the orchestrator begins with.                                           *)

\* The names in run order, and the dependencies of the definition of each.
NameOrder == [i \in DOMAIN sorted |-> sorted[i].name]
DependsIn == [n \in Names |-> sorted[CHOOSE i \in DOMAIN sorted : sorted[i].name = n].depends]

\* The assumptions of Orchestrator, for the suite that is sorted.
SuiteHanded ==
  phase = "sorted" =>
    /\ IsFiniteSet(Names)
    /\ IsRunOrder(NameOrder, Names)
    /\ DependsIn \in [Names -> Seq(STRING)]
    /\ Acyclic => IsTopological(NameOrder, DependsIn)

\* What Orchestrator assumes of a suite is what the sort makes of each selection:
\* finitely many names, all of them once in the order, and a list of dependencies
\* for each; and unless there is a cycle it is sorted (topoSortTests).
THEOREM SuiteHandedOver == Spec => []SuiteHanded
<1>1. SelectionInv /\ DependenciesFirst => SuiteHanded
  <2> SUFFICES ASSUME SelectionInv, DependenciesFirst, phase = "sorted"
               PROVE  /\ IsFiniteSet(Names)
                      /\ IsRunOrder(NameOrder, Names)
                      /\ DependsIn \in [Names -> Seq(STRING)]
                      /\ Acyclic => IsTopological(NameOrder, DependsIn)
    BY DEF SuiteHanded
  <2>1. WalkInv /\ phase \in Ordered
    BY DEF SelectionInv, Sorting, Ordered
  <2>2. /\ sorted \in Seq(ToSet(tests))
        /\ \A i, j \in DOMAIN sorted : sorted[i].name = sorted[j].name => i = j
    BY <2>1 DEF WalkInv, WalkTyped, Distinct
  <2>3. Len(sorted) \in Nat /\ DOMAIN sorted = 1..Len(sorted)
    BY <2>2, SeqFacts
  <2>4. \A n : n \in Names <=> \E i \in DOMAIN sorted : sorted[i].name = n
    BY InNamesOf DEF Names
  <2>5. /\ DOMAIN NameOrder = DOMAIN sorted
        /\ \A i \in DOMAIN sorted : NameOrder[i] = sorted[i].name
    BY DEF NameOrder
  <2>6. IsFiniteSet(Names)
    BY <2>1, NamesFinite
  <2>7. IsRunOrder(NameOrder, Names)
    <3>1. NameOrder \in [1..Len(sorted) -> Names]
      BY <2>3, <2>4 DEF NameOrder
    <3>2. NameOrder \in Seq(Names)
      BY <2>3, <3>1
    <3> QED BY <2>2, <2>4, <2>5, <3>2 DEF IsRunOrder
  <2>8. \A i \in DOMAIN sorted : DependsIn[sorted[i].name] = sorted[i].depends
    <3> SUFFICES ASSUME NEW i \in DOMAIN sorted
                 PROVE  DependsIn[sorted[i].name] = sorted[i].depends
      OBVIOUS
    <3> DEFINE k == CHOOSE j \in DOMAIN sorted : sorted[j].name = sorted[i].name
    <3>1. k \in DOMAIN sorted /\ sorted[k].name = sorted[i].name
      OBVIOUS
    <3>2. k = i
      BY <2>2, <3>1
    <3>3. DependsIn[sorted[i].name] = sorted[k].depends
      BY <2>4 DEF DependsIn
    <3> QED BY <3>2, <3>3
  <2>9. \A i \in DOMAIN sorted : sorted[i].depends \in Seq(STRING)
    <3> SUFFICES ASSUME NEW i \in DOMAIN sorted PROVE sorted[i].depends \in Seq(STRING)
      OBVIOUS
    <3>1. sorted[i] \in ToSet(tests)
      BY <2>2, InSeq
    <3>2. \A j \in DOMAIN tests : tests[j].depends \in Seq(STRING)
      BY <2>1 DEF WalkInv, WalkTyped
    <3> QED BY <3>1, <3>2 DEF ToSet
  <2>10. DependsIn \in [Names -> Seq(STRING)]
    <3>1. DependsIn = [n \in Names |-> DependsIn[n]]
      BY DEF DependsIn
    <3>2. \A n \in Names : DependsIn[n] \in Seq(STRING)
      BY <2>4, <2>8, <2>9
    <3> HIDE DEF DependsIn
    <3> QED BY <3>1, <3>2
  <2>11. ASSUME Acyclic
         PROVE  IsTopological(NameOrder, DependsIn)
    <3> SUFFICES ASSUME NEW i \in DOMAIN sorted, NEW j \in DOMAIN sorted,
                        NEW k \in DOMAIN sorted[i].depends,
                        sorted[i].depends[k] = sorted[j].name
                 PROVE  j < i
      BY <2>5, <2>8 DEF IsTopological
    <3>1. sorted[j].name \in ToSet(sorted[i].depends)
      BY DEF ToSet
    <3> QED BY <2>11, <3>1 DEF DependenciesFirst, Respects
  <2> QED BY <2>6, <2>7, <2>10, <2>11
<1> QED BY <1>1, SelectionInvariant, SelectionDependenciesFirst, PTL
=============================================================================
