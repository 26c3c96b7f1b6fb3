--------------------------- MODULE MigrationProofs ---------------------------
(***************************************************************************)
(* A migration to tryve/v2 changes the behaviour of no file, wherever it   *)
(* is cut, for any number of files and commands and any declarations: on   *)
(* the one condition that the rules are sound, which TLC checks of the     *)
(* samples of MigrationCases.                                              *)
(***************************************************************************)
EXTENDS Migration, AssertionRules, TLAPS

-----------------------------------------------------------------------------
(* The levels *)

\* A pin is a declaration; a file that is pinned runs at the level it was pinned
\* to, whatever the suite's, when that level is not a mixture.
LEMMA PinnedLevel ==
  ASSUME NEW suite \in {Legacy, Modern}, NEW s
  PROVE  /\ IsDeclaration(PinnedTo(suite))
         /\ IsPinned(PinnedTo(suite))
         /\ PinnedTo(suite) # Broken
         /\ LevelOfTest(s, PinnedTo(suite)) = [ok |-> TRUE, level |-> suite]
<1> DEFINE none == [a \in {} |-> "v1"]
           v == IF suite = Areas THEN "v2" ELSE "v1"
<1>1. PinnedTo(suite) = [version |-> v, override |-> none]
  BY DEF PinnedTo, Undeclared, APIVersion
<1>2. DOMAIN none = {} /\ none = [a \in DOMAIN none |-> none[a]]
  OBVIOUS
<1>3. {a \in Areas : a \in ParseAPIVersion(v)} = suite
  BY DEF ParseAPIVersion, Legacy, Modern
<1>4. ResolveLevel([version |-> v, override |-> none]) = [ok |-> TRUE, level |-> suite]
  <2>1. {a \in Areas : a \in ParseAPIVersion(IF a \in DOMAIN none THEN none[a] ELSE v)} = suite
    BY <1>2, <1>3
  <2> HIDE DEF none
  <2>2. KnownVersion(v) /\ \A a \in DOMAIN none : a \in Areas /\ KnownVersion(none[a])
    BY <1>2 DEF KnownVersion
  <2>3. QED
    BY <2>1, <2>2 DEF ResolveLevel
<1>5. v # "broken" /\ v # "absent" /\ v # "null"
  OBVIOUS
<1> HIDE DEF none, v
<1>6. QED
  BY <1>1, <1>2, <1>4, <1>5 DEF IsDeclaration, IsPinned, Broken, LevelOfTest

\* A configuration that is raised to tryve/v2, as a whole or from one without a
\* block of areas, loses no area and gains only those of the target.
LEMMA RaisedLevel ==
  ASSUME NEW d, IsDeclaration(d), ResolveLevel(d).ok,
         NEW areas \in SUBSET Areas, areas = {} \/ DOMAIN d.override = {}
  PROVE  /\ IsDeclaration(Raised(d, "v2", areas))
         /\ ResolveLevel(d).level \subseteq ResolveLevel(Raised(d, "v2", areas)).level
         /\ ResolveLevel(Raised(d, "v2", areas)).level \subseteq Areas
         /\ ResolveLevel(Raised(d, "v2", areas)).level \ ResolveLevel(d).level
              \subseteq TargetMode("v2", areas)
<1> DEFINE v == d.version
           o == d.override
           Raises(w, block) == {a \in Areas : a \in ParseAPIVersion(IF a \in DOMAIN block THEN block[a] ELSE w)}
<1>1. d = [version |-> v, override |-> o] /\ o = [a \in DOMAIN o |-> o[a]]
  BY DEF IsDeclaration
<1>2. KnownVersion(v) /\ (\A a \in DOMAIN o : a \in Areas /\ KnownVersion(o[a]))
      /\ ResolveLevel(d).level = Raises(v, o)
  BY <1>1 DEF ResolveLevel
<1>3. CASE areas = {}
  <2>1. Raised(d, "v2", areas) = [version |-> "v2", override |-> o]
    BY <1>1, <1>3 DEF Raised
  <2>2. ResolveLevel([version |-> "v2", override |-> o]).level = Raises("v2", o)
    BY <1>2 DEF ResolveLevel, KnownVersion
  <2>3. Raises(v, o) \subseteq Raises("v2", o)
    BY DEF ParseAPIVersion, Modern, Legacy
  <2>4. TargetMode("v2", areas) = Areas
    BY <1>3 DEF TargetMode, ParseAPIVersion, Modern
  <2>5. Raises("v2", o) \subseteq Areas
    OBVIOUS
  <2> HIDE DEF v, o, Raises
  <2>6. QED
    BY <1>1, <1>2, <2>1, <2>2, <2>3, <2>4, <2>5 DEF IsDeclaration
<1>4. CASE areas # {}
  <2> DEFINE block == [a \in areas |-> "v2"]
  <2>0. DOMAIN o = {}
    BY <1>4
  <2>1. Raised(d, "v2", areas) = [version |-> v, override |-> block]
    BY <1>1, <1>4 DEF Raised
  <2>2. ResolveLevel([version |-> v, override |-> block]).level = Raises(v, block)
    BY <1>2 DEF ResolveLevel, KnownVersion
  <2>3. Raises(v, o) = {a \in Areas : a \in ParseAPIVersion(v)}
    BY <2>0
  <2>4. Raises(v, block) = {a \in Areas : a \in areas \/ a \in ParseAPIVersion(v)}
    BY DEF ParseAPIVersion, Modern, Legacy
  <2>5. TargetMode("v2", areas) = areas
    BY <1>4 DEF TargetMode, ParseAPIVersion, Modern
  <2>6. IsDeclaration([version |-> v, override |-> block])
    BY DEF IsDeclaration
  <2> HIDE DEF v, o, Raises, block
  <2>7. QED
    BY <1>2, <2>1, <2>2, <2>3, <2>4, <2>5, <2>6
<1>5. QED
  BY <1>3, <1>4

\* Sound rules that find nothing of the areas by which two levels differ mean that
\* a file behaves alike at both: the areas are adopted one after another.
LEMMA AlikeWithoutFindings ==
  ASSUME RulesSound, NEW c \in Content, Known(c),
         NEW old \in SUBSET Areas, NEW new \in SUBSET Areas, old \subseteq new,
         \A finding \in Findings[c] : finding.area \notin new \ old
  PROVE  Does[c][old] = Does[c][new]
<1> DEFINE more == new \ old
           first == old \cup (more \cap {"assertions"})
           second == first \cup (more \cap {"interpolation"})
           third == second \cup (more \cap {"execution"})
           fourth == third \cup (more \cap {"adapters"})
<1>1. ASSUME NEW level \in SUBSET Areas, NEW area \in Areas, area \notin level
      PROVE  Does[c][level] = Does[c][level \cup (more \cap {area})]
  <2>1. CASE area \in more
    <3>1. ~ \E finding \in Findings[c] : finding.area = area
      BY <2>1
    <3>2. level \in SUBSET (Areas \ {area}) /\ level \cup (more \cap {area}) = level \cup {area}
      BY <1>1, <2>1
    <3>3. Does[c][level] = Does[c][level \cup {area}]
      BY <3>1, <3>2 DEF RulesSound
    <3>4. QED
      BY <3>2, <3>3
  <2>2. CASE area \notin more
    <3>1. level \cup (more \cap {area}) = level
      BY <2>2
    <3>2. QED
      BY <3>1
  <2>3. QED
    BY <2>1, <2>2
<1>2. fourth = new
  BY DEF Areas
<1>3. first \in SUBSET Areas /\ second \in SUBSET Areas /\ third \in SUBSET Areas
  OBVIOUS
<1>4. Does[c][old] = Does[c][first]
  <2>1. CASE "assertions" \in old
    BY <2>1
  <2>2. CASE "assertions" \notin old
    BY <1>1, <2>2 DEF Areas
  <2>3. QED
    BY <2>1, <2>2
<1>5. Does[c][first] = Does[c][second]
  <2>1. CASE "interpolation" \in first
    <3>1. second = first
      BY <2>1
    <3>2. QED
      BY <3>1
  <2>2. CASE "interpolation" \notin first
    BY <1>1, <1>3, <2>2 DEF Areas
  <2>3. QED
    BY <2>1, <2>2
<1>6. Does[c][second] = Does[c][third]
  <2>1. CASE "execution" \in second
    <3>1. third = second
      BY <2>1
    <3>2. QED
      BY <3>1
  <2>2. CASE "execution" \notin second
    BY <1>1, <1>3, <2>2 DEF Areas
  <2>3. QED
    BY <2>1, <2>2
<1>7. Does[c][third] = Does[c][fourth]
  <2>1. CASE "adapters" \in third
    <3>1. fourth = third
      BY <2>1
    <3>2. QED
      BY <3>1
  <2>2. CASE "adapters" \notin third
    BY <1>1, <1>3, <2>2 DEF Areas
  <2>3. QED
    BY <2>1, <2>2
<1>8. QED
  BY <1>2, <1>4, <1>5, <1>6, <1>7

-----------------------------------------------------------------------------
(* The inductive invariant *)

MigrationTyped ==
  /\ content \in [Files -> Content]
  /\ own = [f \in Files |-> own[f]]
  /\ \A f \in Files : IsDeclaration(own[f])
  /\ IsDeclaration(config)
  /\ command = [running |-> command.running, todo |-> command.todo, areas |-> command.areas,
                to |-> command.to, onlyCertain |-> command.onlyCertain]
  /\ before = [suite |-> before.suite, config |-> before.config, own |-> before.own,
               areas |-> before.areas, to |-> before.to, onlyCertain |-> before.onlyCertain,
               since |-> before.since]

\* A file that the last apply found undeclared, ...
Free(f) == before.own[f] # Broken /\ ~IsPinned(before.own[f])

\* ... and with something that it has to pin for.
MustPin(f) ==
  /\ Free(f)
  /\ \E finding \in Findings[content[f]] :
       /\ finding.area \in TargetMode(before.to, before.areas) \ before.suite
       /\ before.onlyCertain => finding.certain

\* What the last apply has found stands: a configuration that loads.
Found ==
  /\ ResolveLevel(before.config).ok
  /\ before.suite = ResolveLevel(before.config).level
  /\ IsDeclaration(before.config)
  /\ before.areas \in SUBSET Areas

\* Since then files were pinned and nothing else: free ones only.
OnlyPinned ==
  \A f \in Files : own[f] = before.own[f] \/ (Free(f) /\ own[f] = PinnedTo(before.suite))

\* While the command runs, what it has not pinned is still to be pinned.
StillPins ==
  command.running =>
    /\ before.since
    /\ config = before.config
    /\ command.areas = before.areas /\ command.to = before.to
    /\ command.todo \subseteq Files
    /\ \A f \in command.todo : before.own[f] # Broken
    /\ \A f \in Files : MustPin(f) /\ f \notin command.todo => own[f] = PinnedTo(before.suite)

\* The configuration is raised only after all are pinned.
PinsFirst ==
  ~command.running =>
    \/ config = before.config
    \/ /\ config = Raised(before.config, before.to, before.areas)
       /\ \A f \in Files : MustPin(f) => own[f] = PinnedTo(before.suite)

MigrationInv ==
  /\ MigrationTyped
  /\ before.since => Found /\ OnlyPinned /\ PinsFirst
  /\ StillPins

-----------------------------------------------------------------------------
(* Each step keeps it *)

\* What the commands write is a declaration, and a pin is a pin.
LEMMA DeclarationsWritten ==
  /\ IsDeclaration(Undeclared) /\ IsDeclaration(Broken)
  /\ \A level : IsDeclaration(PinnedTo(level)) /\ IsPinned(PinnedTo(level)) /\ PinnedTo(level) # Broken
  /\ \A d, to, areas : IsDeclaration(d) => IsDeclaration(Raised(d, to, areas))
<1> DEFINE none == [a \in {} |-> "v1"]
<1>1. none = [a \in DOMAIN none |-> none[a]]
  OBVIOUS
<1>2. Undeclared = [version |-> "absent", override |-> none] /\ Broken = [version |-> "broken", override |-> none]
  BY DEF Undeclared, Broken
<1>3. ASSUME NEW level
      PROVE  IsDeclaration(PinnedTo(level)) /\ IsPinned(PinnedTo(level)) /\ PinnedTo(level) # Broken
  <2> DEFINE v == APIVersion(level)
  <2>1. PinnedTo(level) = [version |-> v, override |-> none]
    BY <1>2 DEF PinnedTo
  <2>2. v # "absent" /\ v # "broken"
    BY DEF APIVersion
  <2> HIDE DEF none, v
  <2>3. QED
    BY <1>1, <1>2, <2>1, <2>2 DEF IsDeclaration, IsPinned
<1>4. ASSUME NEW d, NEW to, NEW areas, IsDeclaration(d) PROVE IsDeclaration(Raised(d, to, areas))
  <2>1. CASE areas = {}
    <3>1. Raised(d, to, areas) = [version |-> to, override |-> d.override]
      BY <1>4, <2>1 DEF IsDeclaration, Raised
    <3>2. QED
      BY <1>4, <3>1 DEF IsDeclaration
  <2>2. CASE areas # {}
    <3> DEFINE block == [a \in areas |-> to]
    <3>1. Raised(d, to, areas) = [version |-> d.version, override |-> block]
      BY <1>4, <2>2 DEF IsDeclaration, Raised
    <3>2. block = [a \in DOMAIN block |-> block[a]]
      OBVIOUS
    <3> HIDE DEF block
    <3>3. QED
      BY <3>1, <3>2 DEF IsDeclaration
  <2>3. QED
    BY <2>1, <2>2
<1> HIDE DEF none
<1>5. IsDeclaration(Undeclared) /\ IsDeclaration(Broken)
  BY <1>1, <1>2 DEF IsDeclaration
<1>6. QED
  BY <1>3, <1>4, <1>5

\* Before the first command nothing is found and nothing is written.
LEMMA MigrationBegins == Init => MigrationInv
<1>1. SUFFICES ASSUME Init PROVE MigrationInv
  OBVIOUS
<1>2. MigrationTyped
  BY <1>1, MigrationAssumption DEF Init, MigrationTyped, Idle
<1>3. ~before.since /\ ~command.running
  BY <1>1 DEF Init, Idle
<1>4. QED
  BY <1>2, <1>3 DEF MigrationInv, StillPins

\* An apply begins: nothing is pinned yet, and what must be pinned is affected.
LEMMA ApplyKeeps ==
  ASSUME MigrationInv, NEW to \in {"v1", "v2"}, NEW areas \in AreaSets, NEW onlyCertain \in BOOLEAN,
         Apply(to, areas, onlyCertain)
  PROVE  MigrationInv'
<1> DEFINE todo == Affected(to, areas, onlyCertain)
<1>1. /\ command' = [running |-> TRUE, todo |-> todo, areas |-> areas, to |-> to, onlyCertain |-> onlyCertain]
      /\ before' = [suite |-> SuiteLevel, config |-> config, own |-> own, areas |-> areas, to |-> to,
                    onlyCertain |-> onlyCertain, since |-> TRUE]
      /\ content' = content /\ own' = own /\ config' = config
      /\ ResolveLevel(config).ok
  BY DEF Apply
<1>2. todo \subseteq Files /\ \A f \in todo : own[f] # Broken
  BY DEF Affected, Report
<1>3. ASSUME NEW f \in Files, own[f] # Broken, ~IsPinned(own[f]), NEW finding \in Findings[content[f]],
             finding.area \in TargetMode(to, areas) \ SuiteLevel, onlyCertain => finding.certain
      PROVE  f \in todo
  BY <1>3 DEF Affected, Report, Analyze, FileLevel
<1> HIDE DEF todo
<1>4. MigrationTyped'
  BY <1>1 DEF MigrationInv, MigrationTyped
<1>5. Found'
  BY <1>1, MigrationAssumption DEF Found, MigrationInv, MigrationTyped, SuiteLevel
<1>6. OnlyPinned' /\ PinsFirst'
  BY <1>1 DEF OnlyPinned, PinsFirst
<1>7. \A f \in Files : MustPin(f)' => f \in todo
  BY <1>1, <1>3 DEF MustPin, Free
<1>8. StillPins'
  BY <1>1, <1>2, <1>7 DEF StillPins
<1>9. QED
  BY <1>4, <1>5, <1>6, <1>8 DEF MigrationInv

\* A file that is pinned was free, or stays as it is.
LEMMA PinKeeps == MigrationInv /\ Pin => MigrationInv'
<1>0. SUFFICES ASSUME MigrationInv, Pin PROVE MigrationInv'
  OBVIOUS
<1>1. PICK f \in command.todo :
        /\ own' = IF IsPinned(own[f]) THEN own ELSE [own EXCEPT ![f] = PinnedTo(before.suite)]
        /\ command' = [command EXCEPT !.todo = @ \ {f}]
  BY <1>0 DEF Pin
<1>2. command.running /\ content' = content /\ config' = config /\ before' = before
  BY <1>0 DEF Pin
<1>3. /\ f \in Files /\ before.own[f] # Broken /\ before.since
      /\ Found /\ OnlyPinned /\ MigrationTyped
  BY <1>0, <1>1, <1>2 DEF MigrationInv, StillPins
<1>4. /\ command'.running = command.running /\ command'.areas = command.areas /\ command'.to = command.to
      /\ command'.todo = command.todo \ {f}
      /\ command' = [running |-> command'.running, todo |-> command'.todo, areas |-> command'.areas,
                     to |-> command'.to, onlyCertain |-> command'.onlyCertain]
  BY <1>1, <1>3 DEF MigrationTyped
<1>5. \A g \in Files \ {f} : own'[g] = own[g]
  BY <1>1, <1>3 DEF MigrationTyped
<1>6. (own'[f] = own[f] /\ IsPinned(own[f])) \/ (~IsPinned(own[f]) /\ own'[f] = PinnedTo(before.suite))
  BY <1>1, <1>3 DEF MigrationTyped
<1>7. Free(f) => own'[f] = PinnedTo(before.suite)
  BY <1>3, <1>6 DEF OnlyPinned, Free
<1>8. own'[f] = before.own[f] \/ (Free(f) /\ own'[f] = PinnedTo(before.suite))
  BY <1>3, <1>6, DeclarationsWritten DEF OnlyPinned, Free
<1>9. MigrationTyped'
  <2>1. own' = [g \in Files |-> own'[g]]
    BY <1>1, <1>3 DEF MigrationTyped
  <2>2. \A g \in Files : IsDeclaration(own'[g])
    BY <1>3, <1>5, <1>6, DeclarationsWritten DEF MigrationTyped
  <2>3. QED
    BY <1>2, <1>3, <1>4, <2>1, <2>2 DEF MigrationTyped
<1>10. OnlyPinned'
  BY <1>2, <1>3, <1>5, <1>8 DEF OnlyPinned, Free
<1>11. Found' /\ PinsFirst'
  BY <1>2, <1>3, <1>4 DEF Found, PinsFirst
<1>12. \A g \in Files : MustPin(g)' = MustPin(g)
  BY <1>2 DEF MustPin, Free
<1>13. StillPins'
  <2>1. StillPins
    BY <1>0 DEF MigrationInv
  <2>2. ASSUME NEW g \in Files, MustPin(g), g \notin command'.todo PROVE own'[g] = PinnedTo(before.suite)
    <3>1. CASE g = f
      BY <1>7, <2>2, <3>1 DEF MustPin
    <3>2. CASE g # f
      BY <1>2, <1>4, <1>5, <2>1, <2>2, <3>2 DEF StillPins
    <3>3. QED
      BY <3>1, <3>2
  <2>3. QED
    BY <1>2, <1>4, <1>12, <2>1, <2>2 DEF StillPins
<1>14. QED
  BY <1>9, <1>10, <1>11, <1>13 DEF MigrationInv

\* The configuration is raised when nothing is left to pin.
LEMMA RaiseKeeps == MigrationInv /\ SetConfigCompat => MigrationInv'
<1>0. SUFFICES ASSUME MigrationInv, SetConfigCompat PROVE MigrationInv'
  OBVIOUS
<1>1. /\ command.running /\ command.todo = {} /\ config' = Raised(config, command.to, command.areas)
      /\ command' = Idle /\ content' = content /\ own' = own /\ before' = before
  BY <1>0 DEF SetConfigCompat
<1>2. /\ before.since /\ Found /\ OnlyPinned /\ MigrationTyped
      /\ config' = Raised(before.config, before.to, before.areas)
      /\ \A f \in Files : MustPin(f) => own[f] = PinnedTo(before.suite)
  BY <1>0, <1>1 DEF MigrationInv, StillPins
<1>3. MigrationTyped'
  <2>1. IsDeclaration(config')
    <3>1. IsDeclaration(before.config)
      BY <1>2 DEF Found
    <3>2. IsDeclaration(Raised(before.config, before.to, before.areas))
      BY <3>1, DeclarationsWritten
    <3>3. QED
      BY <1>2, <3>2 DEF IsDeclaration
  <2>2. QED
    BY <1>1, <1>2, <2>1 DEF MigrationTyped, Idle
<1>4. Found' /\ OnlyPinned' /\ \A f \in Files : MustPin(f)' = MustPin(f)
  BY <1>1, <1>2 DEF Found, OnlyPinned, Free, MustPin
<1>5. PinsFirst'
  BY <1>1, <1>2, <1>4 DEF PinsFirst
<1>6. StillPins'
  BY <1>1 DEF StillPins, Idle
<1>7. QED
  BY <1>3, <1>4, <1>5, <1>6 DEF MigrationInv

\* The command ends early: the configuration is as it was.
LEMMA StopKeeps == MigrationInv /\ Stop => MigrationInv'
<1>0. SUFFICES ASSUME MigrationInv, Stop PROVE MigrationInv'
  OBVIOUS
<1>1. /\ command.running /\ command' = Idle /\ content' = content /\ own' = own
      /\ config' = config /\ before' = before
  BY <1>0 DEF Stop
<1>2. /\ before.since /\ Found /\ OnlyPinned /\ MigrationTyped /\ config = before.config
  BY <1>0, <1>1 DEF MigrationInv, StillPins
<1>3. MigrationTyped' /\ Found' /\ OnlyPinned'
  BY <1>1, <1>2 DEF MigrationTyped, Idle, Found, OnlyPinned, Free
<1>4. PinsFirst' /\ StillPins'
  BY <1>1, <1>2 DEF PinsFirst, StillPins, Idle
<1>5. QED
  BY <1>3, <1>4 DEF MigrationInv

\* A pin is taken off: the apply before keeps its word no longer.
LEMMA UnpinKeeps == ASSUME MigrationInv, NEW f \in Files, Unpin(f) PROVE MigrationInv'
<1>1. /\ ~command.running /\ command' = command /\ content' = content /\ config' = config
      /\ own' = [own EXCEPT ![f] = IF DOMAIN own[f].override = {} THEN Undeclared ELSE Broken]
      /\ before' = [before EXCEPT !.since = FALSE]
  BY DEF Unpin
<1>2. MigrationTyped
  BY DEF MigrationInv
<1>3. before' = [suite |-> before.suite, config |-> before.config, own |-> before.own, areas |-> before.areas,
                 to |-> before.to, onlyCertain |-> before.onlyCertain, since |-> FALSE]
  BY <1>1, <1>2 DEF MigrationTyped
<1>4. own' = [g \in Files |-> own'[g]] /\ \A g \in Files : IsDeclaration(own'[g])
  BY <1>1, <1>2, DeclarationsWritten DEF MigrationTyped
<1>5. MigrationTyped'
  BY <1>1, <1>2, <1>3, <1>4 DEF MigrationTyped
<1>6. QED
  BY <1>1, <1>3, <1>5 DEF MigrationInv, StillPins

\* Every step keeps the invariant of an apply.
LEMMA MigrationStep == MigrationInv /\ [Next]_vars => MigrationInv'
<1>0. SUFFICES ASSUME MigrationInv, [Next]_vars PROVE MigrationInv'
  OBVIOUS
<1>1. CASE UNCHANGED vars
  <2>1. /\ content' = content /\ own' = own /\ config' = config /\ command' = command /\ before' = before
    BY <1>1 DEF vars
  <2>2. QED
    BY <1>0, <2>1 DEF MigrationInv, MigrationTyped, Found, OnlyPinned, PinsFirst, StillPins, MustPin, Free
<1>2. QED
  BY <1>0, <1>1, ApplyKeeps, PinKeeps, RaiseKeeps, StopKeeps, UnpinKeeps DEF Next

-----------------------------------------------------------------------------
(* What it means for a file *)

BehavesAlike(now, earlier, c) ==
  /\ now.ok = earlier.ok
  /\ now.ok => Does[c][now.level] = Does[c][earlier.level]

\* Each file that is covered behaves as it did when the last apply began.
LEMMA FileKeeps ==
  ASSUME RulesSound, MigrationInv, before.since, before.to = "v2", before.suite \in {Legacy, Modern},
         before.areas = {} \/ DOMAIN before.config.override = {},
         NEW f \in Files, IsCovered(f), own[f] # Broken
  PROVE  BehavesAlike(LevelOf(f), LevelOfTest(before.suite, before.own[f]), content[f])
<1> DEFINE now == LevelOf(f)
           earlier == LevelOfTest(before.suite, before.own[f])
           c == content[f]
<1>1. Found /\ OnlyPinned /\ MigrationTyped
  BY DEF MigrationInv
<1>2. now = LevelOfTest(SuiteLevel, own[f])
  BY DEF LevelOf
<1>3. CASE own[f] # before.own[f]
  <2>1. Free(f) /\ own[f] = PinnedTo(before.suite)
    BY <1>1, <1>3 DEF OnlyPinned
  <2>2. before.own[f].version = "absent" /\ DOMAIN before.own[f].override = {}
    BY <2>1 DEF Free, IsPinned
  <2>3. earlier = [ok |-> TRUE, level |-> before.suite]
    BY <2>2 DEF LevelOfTest
  <2>4. now = [ok |-> TRUE, level |-> before.suite]
    BY <1>2, <2>1, PinnedLevel
  <2>5. QED
    BY <2>3, <2>4 DEF BehavesAlike
<1>4. CASE own[f] = before.own[f] /\ SuiteLevel = before.suite
  <2>1. now = earlier
    BY <1>2, <1>4
  <2>2. QED
    BY <2>1 DEF BehavesAlike
<1>5. CASE own[f] = before.own[f] /\ SuiteLevel # before.suite
  <2>1. CASE own[f].version \in {"absent", "null"} /\ DOMAIN own[f].override = {}
    <3>1. now = [ok |-> TRUE, level |-> SuiteLevel] /\ earlier = [ok |-> TRUE, level |-> before.suite]
      BY <1>2, <1>5, <2>1 DEF LevelOfTest
    <3>2. ~IsPinned(own[f]) /\ Free(f)
      BY <1>5, <2>1 DEF IsCovered, IsPinned, Free
    <3>3. /\ config = Raised(before.config, "v2", before.areas)
          /\ MustPin(f) => own[f] = PinnedTo(before.suite)
      BY <1>1, <1>5 DEF MigrationInv, PinsFirst, StillPins, Found, SuiteLevel
    <3>4. ~MustPin(f)
      BY <3>2, <3>3, DeclarationsWritten
    <3>5. \A finding \in Findings[c] : finding.area \notin TargetMode("v2", before.areas) \ before.suite
      BY <3>2, <3>4 DEF MustPin, IsCovered
    <3>6. /\ before.suite \in SUBSET Areas /\ SuiteLevel \in SUBSET Areas
          /\ before.suite \subseteq SuiteLevel
          /\ SuiteLevel \ before.suite \subseteq TargetMode("v2", before.areas)
      BY <1>1, <3>3, RaisedLevel DEF Found, SuiteLevel
    <3>7. c \in Content /\ Known(c)
      BY <1>1 DEF MigrationTyped, IsCovered
    <3>8. \A finding \in Findings[c] : finding.area \notin SuiteLevel \ before.suite
      BY <3>5, <3>6
    <3> HIDE DEF c
    <3>9. Does[c][before.suite] = Does[c][SuiteLevel]
      BY <3>6, <3>7, <3>8, AlikeWithoutFindings
    <3>10. QED
      BY <3>1, <3>9 DEF BehavesAlike, c
  <2>2. CASE ~(own[f].version \in {"absent", "null"} /\ DOMAIN own[f].override = {})
    <3>1. now = earlier
      BY <1>2, <1>5, <2>2 DEF LevelOfTest
    <3>2. QED
      BY <3>1 DEF BehavesAlike
  <2>3. QED
    BY <2>1, <2>2
<1>6. QED
  BY <1>3, <1>4, <1>5

\* From the first write of an apply to the next command each covered file behaves
\* as it did before, for any number of files and commands, whatever was declared,
\* provided that the rules are sound (migrate.go, runApply).
THEOREM MigrationKeeps == ASSUME RulesSound PROVE Spec => []MigrationKeepsBehaviour
<1>1. MigrationInv => MigrationKeepsBehaviour
  BY FileKeeps DEF MigrationKeepsBehaviour, BehavesAlike
<1>2. Spec => []MigrationInv
  BY MigrationBegins, MigrationStep, PTL DEF Spec
<1>3. QED
  BY <1>1, <1>2, PTL

-----------------------------------------------------------------------------
(* No check is dropped *)

\* Some entries of a map.
LEMMA OnlyFacts ==
  ASSUME NEW m, NEW S
  PROVE  /\ IsMap(Only(m, S)) /\ ~IsList(Only(m, S)) /\ Keys(Only(m, S)) = S
         /\ \A k \in S : Only(m, S)[2][k] = m[2][k]
  BY DEF Only, Map, IsMap, IsList, Keys

\* One operator of a map alone, with keys that are skipped, has its outcome among
\* those of the map.
LEMMA OperatorAlone ==
  ASSUME NEW at, NEW actual, NEW m, NEW skip, NEW op \in Keys(m), NEW S, S \ skip = {op}
  PROVE  /\ ApplyOperators(at, actual, Only(m, S), skip, TRUE) # {}
         /\ ApplyOperators(at, actual, Only(m, S), skip, TRUE)
              \subseteq ApplyOperators(at, actual, m, skip, TRUE)
<1> DEFINE only == Only(m, S)
           Of(w, key) == IF IsOperator(key) THEN Checked(at, key, actual, w[2][key]) ELSE Outcome(at, key, FALSE)
<1>1. Keys(only) \ skip = {op} /\ only[2][op] = m[2][op]
  BY OnlyFacts
<1>2. ApplyOperators(at, actual, only, skip, TRUE) = {Of(only, op)}
  BY <1>1 DEF ApplyOperators
<1>3. Of(only, op) = Of(m, op)
  BY <1>1
<1>4. Of(m, op) \in ApplyOperators(at, actual, m, skip, TRUE)
  BY DEF ApplyOperators
<1>5. QED
  BY <1>2, <1>3, <1>4

\* One entry of a map of operators alone.
LEMMA EntryAlone ==
  ASSUME NEW at, NEW actual, NEW m, NEW op \in Keys(m)
  PROVE  /\ ApplyOperators(at, actual, Only(m, {op}), {}, TRUE) # {}
         /\ ApplyOperators(at, actual, Only(m, {op}), {}, TRUE)
              \subseteq ApplyOperators(at, actual, m, {}, TRUE)
<1>1. \A skip, S : S \ skip = {op} =>
        /\ ApplyOperators(at, actual, Only(m, S), skip, TRUE) # {}
        /\ ApplyOperators(at, actual, Only(m, S), skip, TRUE)
             \subseteq ApplyOperators(at, actual, m, skip, TRUE)
  BY OperatorAlone
<1>2. {op} \ {} = {op}
  OBVIOUS
<1>3. QED
  BY <1>1, <1>2

\* One operator of an item alone, with what selects its value, is evaluated on the
\* same value.
LEMMA ItemAlone ==
  ASSUME NEW data, NEW item, IsMap(item), NEW op \in Keys(item) \ StructuralKeys
  PROVE  /\ ItemOutcomes(data, Only(item, {op} \cup (Keys(item) \cap StructuralKeys)), TRUE) # {}
         /\ ItemOutcomes(data, Only(item, {op} \cup (Keys(item) \cap StructuralKeys)), TRUE)
              \subseteq ItemOutcomes(data, item, TRUE)
<1> DEFINE kept == Keys(item) \cap StructuralKeys
           only == Only(item, {op} \cup kept)
<1>1. \A k \in StructuralKeys : /\ HasKey(only, k) <=> HasKey(item, k)
                                /\ At(only, k) = At(item, k)
  BY OnlyFacts DEF HasKey, At
<1>2. IsMap(only) /\ {"path", "row", "column"} = StructuralKeys
  BY OnlyFacts DEF StructuralKeys
<1>3. ResolveCell(data, only) = ResolveCell(data, item)
  BY <1>1, <1>2 DEF ResolveCell
<1>4. \A at, actual :
        /\ ApplyOperators(at, actual, only, StructuralKeys, TRUE) # {}
        /\ ApplyOperators(at, actual, only, StructuralKeys, TRUE)
             \subseteq ApplyOperators(at, actual, item, StructuralKeys, TRUE)
  <2>1. ({op} \cup kept) \ StructuralKeys = {op}
    OBVIOUS
  <2>2. QED
    BY <2>1, OperatorAlone
<1> HIDE DEF only
<1>5. CASE HasKey(item, "column")
  <2> DEFINE cell == ResolveCell(data, item)
             at == Sprint(At(item, "column"))
  <2>1. ItemOutcomes(data, item, TRUE) =
          IF cell.found THEN ApplyOperators(at, cell.value, item, StructuralKeys, TRUE)
                        ELSE {Outcome(at, "row/column", FALSE)}
    BY <1>5 DEF ItemOutcomes
  <2>2. ItemOutcomes(data, only, TRUE) =
          IF cell.found THEN ApplyOperators(at, cell.value, only, StructuralKeys, TRUE)
                        ELSE {Outcome(at, "row/column", FALSE)}
    BY <1>1, <1>2, <1>3, <1>5 DEF ItemOutcomes
  <2> HIDE DEF cell, at
  <2>3. QED
    BY <1>4, <2>1, <2>2 DEF only
<1>6. CASE ~HasKey(item, "column")
  <2> DEFINE path == PathOf(item)
  <2>1. ItemOutcomes(data, item, TRUE) =
          ApplyOperators(path, EvalJSONPath(data, path), item, StructuralKeys, TRUE)
    BY <1>6 DEF ItemOutcomes
  <2>2. ItemOutcomes(data, only, TRUE) =
          ApplyOperators(path, EvalJSONPath(data, path), only, StructuralKeys, TRUE)
    BY <1>1, <1>2, <1>6 DEF ItemOutcomes, PathOf
  <2> HIDE DEF path
  <2>3. QED
    BY <1>4, <2>1, <2>2 DEF only
<1>7. QED
  BY <1>5, <1>6

\* One operator of one item of a list alone.
LEMMA OperatorsOfItems ==
  ASSUME NEW data, NEW items, ListDocumented(items), NEW check \in SingleOperators(items)
  PROVE  /\ IsList(check) /\ ~IsMap(check)
         /\ SliceOutcomes(data, check, TRUE) # {}
         /\ SliceOutcomes(data, check, TRUE) \subseteq SliceOutcomes(data, items, TRUE)
<1>1. PICK x \in UNION {{i} \X (Keys(items[2][i]) \ StructuralKeys) : i \in DOMAIN items[2]} :
        check = List(<<Only(items[2][x[1]], {x[2]} \cup (Keys(items[2][x[1]]) \cap StructuralKeys))>>)
  BY DEF SingleOperators
<1>2. PICK i \in DOMAIN items[2] : x \in {i} \X (Keys(items[2][i]) \ StructuralKeys)
  BY <1>1
<1> DEFINE item == items[2][i]
           op == x[2]
           only == Only(item, {op} \cup (Keys(item) \cap StructuralKeys))
<1>3. x[1] = i /\ op \in Keys(item) \ StructuralKeys /\ IsMap(item)
  BY <1>2 DEF ListDocumented, ItemDocumented
<1>4. check = List(<<only>>)
  BY <1>1, <1>3
<1> HIDE DEF only
<1>5. IsList(check) /\ ~IsMap(check) /\ DOMAIN check[2] = {1} /\ check[2][1] = only
  BY <1>4 DEF List, IsList, IsMap
<1>6. SliceOutcomes(data, check, TRUE) = ItemOutcomes(data, only, TRUE)
  BY <1>5 DEF SliceOutcomes
<1>7. ItemOutcomes(data, only, TRUE) # {} /\ ItemOutcomes(data, only, TRUE) \subseteq ItemOutcomes(data, item, TRUE)
  BY <1>3, ItemAlone DEF only
<1>8. ItemOutcomes(data, item, TRUE) \subseteq SliceOutcomes(data, items, TRUE)
  BY DEF SliceOutcomes
<1>9. QED
  BY <1>5, <1>6, <1>7, <1>8

\* A key of HTTP alone.
LEMMA HTTPKeyAlone ==
  ASSUME NEW data, NEW def, Documented(def), IsMap(def),
         NEW key \in Keys(def) \cap KnownHTTPKeys, NEW value \in SingleValues(key, def[2][key])
  PROVE  /\ HTTPOutcomes(data, With(def, key, value), key, TRUE) # {}
         /\ HTTPOutcomes(data, With(def, key, value), key, TRUE)
              \subseteq HTTPOutcomes(data, def, key, TRUE)
<1> DEFINE wanted == def[2][key]
           check == With(def, key, value)
<1>1. check[2][key] = value
  BY DEF With, Map
<1>2. ~IsList(def)
  BY DEF IsMap, IsList
<1>3. /\ key \in {"headers", "body", "duration"} => IsMap(wanted)
      /\ key = "json" => ListDocumented(wanted)
  BY <1>2 DEF Documented, ListDocumented, HasKey
<1> HIDE DEF check
<1>4. CASE key = "status"
  <2>1. value = wanted
    BY <1>4 DEF SingleValues, KnownHTTPKeys
  <2>2. QED
    BY <1>1, <1>4, <2>1 DEF HTTPOutcomes, StatusOutcomes, check
<1>5. CASE key = "statusRange"
  <2>1. value = wanted
    BY <1>5 DEF SingleValues, KnownHTTPKeys
  <2>2. QED
    BY <1>1, <1>5, <2>1 DEF HTTPOutcomes, RangeOutcomes, check
<1>6. CASE key = "json"
  <2>1. value \in SingleOperators(wanted)
    BY <1>6 DEF SingleValues
  <2>2. /\ IsList(value)
        /\ SliceOutcomes(JsonRoot(data, TRUE), value, TRUE) # {}
        /\ SliceOutcomes(JsonRoot(data, TRUE), value, TRUE)
             \subseteq SliceOutcomes(JsonRoot(data, TRUE), wanted, TRUE)
    BY <1>3, <1>6, <2>1, OperatorsOfItems
  <2>3. HTTPOutcomes(data, check, key, TRUE) = SliceOutcomes(JsonRoot(data, TRUE), value, TRUE)
    BY <1>1, <1>6, <2>2 DEF HTTPOutcomes
  <2>4. HTTPOutcomes(data, def, key, TRUE) = SliceOutcomes(JsonRoot(data, TRUE), wanted, TRUE)
    BY <1>3, <1>6 DEF HTTPOutcomes, ListDocumented
  <2>5. QED
    BY <2>2, <2>3, <2>4 DEF check
<1>7. CASE key \in {"headers", "body", "duration"}
  <2>1. PICK k \in Keys(wanted) : value = Only(wanted, {k})
    BY <1>7 DEF SingleValues, SingleEntries
  <2>2. IsMap(value) /\ Keys(value) = {k} /\ value[2][k] = wanted[2][k]
    BY <2>1, OnlyFacts
  <2>3. CASE key = "headers"
    <3> DEFINE Entry(m, name) == Checked(name, "equals", HeaderLookup(At(data, "headers"), name), m[2][name])
    <3>1. HTTPOutcomes(data, check, key, TRUE) = {Entry(value, name) : name \in Keys(value)}
      BY <1>1, <2>2, <2>3 DEF HTTPOutcomes
    <3>2. HTTPOutcomes(data, def, key, TRUE) = {Entry(wanted, name) : name \in Keys(wanted)}
      BY <1>3, <1>7, <2>3 DEF HTTPOutcomes
    <3>3. Entry(value, k) = Entry(wanted, k)
      BY <2>2
    <3> HIDE DEF Entry
    <3>4. QED
      BY <2>2, <3>1, <3>2, <3>3 DEF check
  <2>4. CASE key = "body"
    <3> DEFINE Entry(m, op) == Checked("body", op, Str(Sprint(At(data, "body"))), m[2][op])
    <3>1. HTTPOutcomes(data, check, key, TRUE) = {Entry(value, op) : op \in Keys(value)}
      BY <1>1, <2>2, <2>4 DEF HTTPOutcomes
    <3>2. HTTPOutcomes(data, def, key, TRUE) = {Entry(wanted, op) : op \in Keys(wanted)}
      BY <1>3, <1>7, <2>4 DEF HTTPOutcomes
    <3>3. Entry(value, k) = Entry(wanted, k)
      BY <2>2
    <3> HIDE DEF Entry
    <3>4. QED
      BY <2>2, <3>1, <3>2, <3>3 DEF check
  <2>5. CASE key = "duration"
    <3> DEFINE Entry(m, op) == Checked("duration", op, At(data, "duration"), m[2][op])
    <3>1. HTTPOutcomes(data, check, key, TRUE) = {Entry(value, op) : op \in Keys(value)}
      BY <1>1, <2>2, <2>5 DEF HTTPOutcomes
    <3>2. HTTPOutcomes(data, def, key, TRUE) = {Entry(wanted, op) : op \in Keys(wanted)}
      BY <1>3, <1>7, <2>5 DEF HTTPOutcomes
    <3>3. Entry(value, k) = Entry(wanted, k)
      BY <2>2
    <3> HIDE DEF Entry
    <3>4. QED
      BY <2>2, <3>1, <3>2, <3>3 DEF check
  <2>6. QED
    BY <1>7, <2>3, <2>4, <2>5
<1>8. QED
  BY <1>4, <1>5, <1>6, <1>7 DEF KnownHTTPKeys

\* Any other key alone, when there is no path.
LEMMA FieldAlone ==
  ASSUME NEW data, NEW def, NEW key \in Keys(def) \ KnownHTTPKeys,
         NEW value \in SingleValues(key, def[2][key])
  PROVE  /\ FieldOutcomes(data, With(def, key, value), key, TRUE) # {}
         /\ FieldOutcomes(data, With(def, key, value), key, TRUE)
              \subseteq FieldOutcomes(data, def, key, TRUE)
<1> DEFINE wanted == def[2][key]
           check == With(def, key, value)
           actual == EvalJSONPath(data, key)
<1>1. check[2][key] = value
  BY DEF With, Map
<1>2. key \notin {"headers", "body", "duration", "json"}
  BY DEF KnownHTTPKeys
<1> HIDE DEF check
<1>3. CASE IsOperator(key)
  <2>1. value = wanted
    BY <1>2, <1>3 DEF SingleValues
  <2>2. FieldOutcomes(data, check, key, TRUE) = {Checked("$", key, data, check[2][key])}
    BY <1>3 DEF FieldOutcomes
  <2>3. FieldOutcomes(data, def, key, TRUE) = {Checked("$", key, data, wanted)}
    BY <1>3 DEF FieldOutcomes
  <2>4. QED
    BY <1>1, <2>1, <2>2, <2>3 DEF check
<1>4. CASE ~IsOperator(key) /\ LooksLikeOperatorMap(wanted)
  <2>1. PICK k \in Keys(wanted) : value = Only(wanted, {k})
    BY <1>2, <1>4 DEF SingleValues, SingleEntries
  <2>2. LooksLikeOperatorMap(value)
    BY <1>4, <2>1, OnlyFacts DEF LooksLikeOperatorMap
  <2>3. /\ ApplyOperators(key, actual, value, {}, TRUE) # {}
        /\ ApplyOperators(key, actual, value, {}, TRUE) \subseteq ApplyOperators(key, actual, wanted, {}, TRUE)
    BY <2>1, EntryAlone
  <2>4. FieldOutcomes(data, check, key, TRUE) = ApplyOperators(key, actual, value, {}, TRUE)
    BY <1>1, <1>4, <2>2 DEF FieldOutcomes
  <2>5. FieldOutcomes(data, def, key, TRUE) = ApplyOperators(key, actual, wanted, {}, TRUE)
    BY <1>4 DEF FieldOutcomes
  <2>6. QED
    BY <2>3, <2>4, <2>5 DEF check
<1>5. CASE ~IsOperator(key) /\ ~LooksLikeOperatorMap(wanted)
  <2>1. value = wanted
    BY <1>2, <1>5 DEF SingleValues
  <2>2. QED
    BY <1>1, <1>5, <2>1 DEF FieldOutcomes, check
<1>6. QED
  BY <1>3, <1>4, <1>5

\* No key of HTTP is the name or an alias of an operator.
LEMMA HTTPKeysAreNoOperators == \A key \in KnownHTTPKeys : ~IsOperator(key)
  BY DEF KnownHTTPKeys, IsOperator, CanonicalOperator, OperatorAliases, CanonicalOperators, LegacyOperators

\* A key of a map alone, with its path.
LEMMA KeyAlone ==
  ASSUME NEW data, NEW def, Documented(def), IsMap(def), NEW key \in Keys(def) \ {"path"},
         NEW value \in SingleValues(key, def[2][key])
  PROVE  /\ MapOutcomes(data, With(def, key, value), TRUE) # {}
         /\ MapOutcomes(data, With(def, key, value), TRUE)
              \subseteq MapOutcomes(data, def, TRUE)
<1> DEFINE check == With(def, key, value)
           path == PathOf(def)
           actual == EvalJSONPath(data, path)
           HTTP(d) == UNION {HTTPOutcomes(data, d, k, TRUE) : k \in Keys(d) \cap KnownHTTPKeys}
           Rest(d) == IF HasKey(d, "path") THEN ApplyOperators(path, actual, d, StructuralKeys, TRUE)
                      ELSE UNION {FieldOutcomes(data, d, k, TRUE) : k \in Keys(d) \ KnownHTTPKeys}
<1>1. /\ IsMap(check) /\ Keys(check) = {key} \cup (Keys(def) \cap {"path"})
      /\ check[2][key] = value
      /\ HasKey(check, "path") <=> HasKey(def, "path")
      /\ At(check, "path") = At(def, "path")
  BY DEF With, Map, IsMap, Keys, HasKey, At
<1> HIDE DEF check
<1>2. /\ MapOutcomes(data, check, TRUE) = HTTP(check) \cup Rest(check)
      /\ MapOutcomes(data, def, TRUE) = HTTP(def) \cup Rest(def)
  BY <1>1 DEF MapOutcomes, PathOf
<1>3. "path" \notin KnownHTTPKeys
  BY DEF KnownHTTPKeys
<1>4. /\ key \in KnownHTTPKeys => HTTP(check) # {}
      /\ HTTP(check) \subseteq HTTP(def)
  <2>1. CASE key \in KnownHTTPKeys
    <3>1. HTTP(check) = HTTPOutcomes(data, check, key, TRUE)
      BY <1>1, <1>3, <2>1
    <3>2. HTTPOutcomes(data, def, key, TRUE) \subseteq HTTP(def)
      BY <2>1
    <3>3. QED
      BY <2>1, <3>1, <3>2, HTTPKeyAlone DEF check
  <2>2. CASE key \notin KnownHTTPKeys
    BY <1>1, <1>3, <2>2
  <2>3. QED
    BY <2>1, <2>2
<1>5. /\ key \notin KnownHTTPKeys => Rest(check) # {}
      /\ Rest(check) \subseteq Rest(def)
  <2>1. CASE HasKey(def, "path")
    <3> DEFINE Of(d, k) == IF IsOperator(k) THEN Checked(path, k, actual, d[2][k]) ELSE Outcome(path, k, FALSE)
    <3>1. key \notin StructuralKeys /\ "path" \in StructuralKeys
      <4>1. ~IsList(def)
        BY DEF IsMap, IsList
      <4>2. QED
        BY <2>1, <4>1 DEF Documented, ListDocumented, StructuralKeys
    <3>2. IsOperator(key) => value = def[2][key]
      BY HTTPKeysAreNoOperators DEF SingleValues, KnownHTTPKeys
    <3>3. Rest(check) = {Of(check, key)}
      BY <1>1, <2>1, <3>1 DEF ApplyOperators
    <3>4. Of(check, key) = Of(def, key)
      BY <1>1, <3>2
    <3>5. Of(def, key) \in Rest(def)
      BY <2>1, <3>1 DEF ApplyOperators
    <3>6. QED
      BY <3>3, <3>4, <3>5
  <2>2. CASE ~HasKey(def, "path") /\ key \notin KnownHTTPKeys
    <3>1. Keys(check) = {key}
      BY <1>1, <2>2 DEF HasKey
    <3>2. Rest(check) = FieldOutcomes(data, check, key, TRUE)
      BY <1>1, <2>2, <3>1
    <3>3. FieldOutcomes(data, def, key, TRUE) \subseteq Rest(def)
      BY <2>2
    <3>4. QED
      BY <2>2, <3>2, <3>3, FieldAlone DEF check
  <2>3. CASE ~HasKey(def, "path") /\ key \in KnownHTTPKeys
    <3>1. Keys(check) = {key}
      BY <1>1, <2>3 DEF HasKey
    <3>2. QED
      BY <1>1, <2>3, <3>1
  <2>4. QED
    BY <2>1, <2>2, <2>3
<1>6. QED
  BY <1>2, <1>4, <1>5 DEF check

\* Each single check of a definition of the documented shape leaves an outcome, for
\* any data and any definition (RunAssertions).
THEOREM ChecksEvaluated ==
  ASSUME NEW data, NEW def, Documented(def)
  PROVE  EveryCheckEvaluated(data, def)
<1> SUFFICES ASSUME NEW check \in SingleChecks(def)
             PROVE  /\ RunAssertions(data, check, TRUE) # {}
                    /\ RunAssertions(data, check, TRUE) \subseteq RunAssertions(data, def, TRUE)
  BY DEF EveryCheckEvaluated
<1>1. CASE IsList(def)
  <2>1. check \in SingleOperators(def) /\ ~IsMap(def) /\ ListDocumented(def)
    BY <1>1 DEF SingleChecks, Documented, IsList, IsMap
  <2>2. QED
    BY <1>1, <2>1, OperatorsOfItems DEF RunAssertions
<1>2. CASE ~IsList(def)
  <2>1. IsMap(def)
    BY <1>2 DEF Documented, ListDocumented
  <2>2. PICK key \in Keys(def) \ {"path"} :
          \E v \in SingleValues(key, def[2][key]) : check = With(def, key, v)
    BY <1>2 DEF SingleChecks
  <2>3. PICK v \in SingleValues(key, def[2][key]) : check = With(def, key, v)
    BY <2>2
  <2>4. IsMap(check)
    BY <2>3 DEF With, Map, IsMap
  <2>5. QED
    <3>1. /\ RunAssertions(data, check, TRUE) = MapOutcomes(data, check, TRUE)
          /\ RunAssertions(data, def, TRUE) = MapOutcomes(data, def, TRUE)
      BY <2>1, <2>4 DEF RunAssertions, IsMap, IsList
    <3>2. /\ MapOutcomes(data, With(def, key, v), TRUE) # {}
          /\ MapOutcomes(data, With(def, key, v), TRUE) \subseteq MapOutcomes(data, def, TRUE)
      BY <2>1, KeyAlone
    <3>3. QED
      BY <2>3, <3>1, <3>2
<1>3. QED
  BY <1>1, <1>2

-----------------------------------------------------------------------------
(* What the rules do not report is evaluated alike at both levels *)

\* The operators of the older release are operators still.
LEMMA LegacyAreOperators == \A key \in LegacyOperators : IsOperator(key)
  BY DEF LegacyOperators, IsOperator, CanonicalOperator, CanonicalOperators, OperatorAliases

\* A map of operators of old, beside what is skipped.
LEMMA OperatorsAlike ==
  ASSUME NEW at, NEW actual, NEW m, NEW skip, Keys(m) \ skip \subseteq LegacyOperators
  PROVE  ApplyOperators(at, actual, m, skip, TRUE) = ApplyOperators(at, actual, m, skip, FALSE)
<1>1. {k \in Keys(m) \ skip : TRUE \/ k \in LegacyOperators}
        = {k \in Keys(m) \ skip : FALSE \/ k \in LegacyOperators}
  OBVIOUS
<1>2. QED
  BY <1>1 DEF ApplyOperators

\* An item that the rules do not report.
LEMMA ItemAlike ==
  ASSUME NEW data, NEW item, SliceItemFindings(item) = {}
  PROVE  ItemOutcomes(data, item, TRUE) = ItemOutcomes(data, item, FALSE)
<1>1. CASE ~IsMap(item)
  BY <1>1 DEF ItemOutcomes, HasKey
<1>2. CASE IsMap(item)
  <2>1. /\ HasKey(item, "path") /\ ~HasKey(item, "column")
        /\ Keys(item) \ StructuralKeys \subseteq LegacyOperators
    BY <1>2 DEF SliceItemFindings, Finding
  <2>2. \A modern \in BOOLEAN : ItemOutcomes(data, item, modern) =
          ApplyOperators(PathOf(item), EvalJSONPath(data, PathOf(item)), item, StructuralKeys, modern)
    BY <1>2, <2>1 DEF ItemOutcomes
  <2>3. QED
    BY <2>1, <2>2, OperatorsAlike
<1>3. QED
  BY <1>1, <1>2

\* A name that neither of two values has leads nowhere in both.
LEMMA NowhereInBoth ==
  ASSUME NEW a, NEW b, NEW path, Segments(path) # << >>,
         NEW name, Head(Segments(path)) = Str(name), ~HasKey(a, name), ~HasKey(b, name)
  PROVE  EvalJSONPath(a, path) = EvalJSONPath(b, path)
<1> DEFINE segs == Segments(path)
<1>1. IsStr(Str(name)) /\ Str(name)[2] = name /\ Str(name) # Wildcard
  BY DEF IsStr, Str, Wildcard
<1>2. \A v : ~HasKey(v, name) => Children(v, Str(name)) = << >>
  BY <1>1 DEF Children
<1>3. QueryJSONPath(a, path) = Walk(<< >>, Tail(segs)) /\ QueryJSONPath(b, path) = Walk(<< >>, Tail(segs))
  BY <1>2 DEF QueryJSONPath
<1>4. QED
  BY <1>3 DEF EvalJSONPath

\* A path of a `json' block has its first segment written as a name, or it begins
\* with $[ or is $ (of the others the rules know nothing: $.* and $..x).
ReadByRules(path) ==
  path \in ArrayRoots \/ (Segments(path) # << >> /\ \E name : Head(Segments(path)) = Str(name))

\* The result of an HTTP step: its fields, whatever they hold.
OfHTTP(data) == IsMap(data) /\ Keys(data) = EnvelopeFields

\* An item of a `json' block that the rules do not report.
LEMMA JsonItemAlike ==
  ASSUME NEW data, IsList(At(data, "body")) => OfHTTP(data),
         NEW item, SliceItemFindings(item) = {}, RootFindings(item) = {}, ReadByRules(PathOf(item))
  PROVE  ItemOutcomes(JsonRoot(data, TRUE), item, TRUE) = ItemOutcomes(JsonRoot(data, FALSE), item, FALSE)
<1> DEFINE path == PathOf(item)
           body == At(data, "body")
<1>1. CASE ~IsMap(item)
  BY <1>1 DEF ItemOutcomes, HasKey
<1>2. CASE IsMap(item)
  <2>1. /\ HasKey(item, "path") /\ ~HasKey(item, "column")
        /\ Keys(item) \ StructuralKeys \subseteq LegacyOperators
    BY <1>2 DEF SliceItemFindings, Finding
  <2>2. EvalJSONPath(JsonRoot(data, TRUE), path) = EvalJSONPath(JsonRoot(data, FALSE), path)
    <3>1. CASE ~IsList(body) \/ IsMap(body)
      BY <3>1 DEF JsonRoot
    <3>2. CASE IsList(body) /\ ~IsMap(body)
      <4>1. JsonRoot(data, TRUE) = body /\ JsonRoot(data, FALSE) = data
        BY <3>2 DEF JsonRoot
      <4>2. path \notin ArrayRoots /\ ~EnvelopeField(path)
        BY <2>1 DEF RootFindings, Finding
      <4>3. PICK name : Segments(path) # << >> /\ Head(Segments(path)) = Str(name)
        BY <4>2 DEF ReadByRules
      <4>4. name \notin EnvelopeFields
        BY <4>2, <4>3 DEF EnvelopeField
      <4>5. ~HasKey(data, name) /\ ~HasKey(body, name)
        BY <3>2, <4>4 DEF OfHTTP, HasKey
      <4> HIDE DEF path, body
      <4>6. EvalJSONPath(body, path) = EvalJSONPath(data, path)
        BY <4>3, <4>5, NowhereInBoth
      <4>7. QED
        BY <4>1, <4>6
    <3>3. QED
      BY <3>1, <3>2
  <2>3. \A root : \A modern \in BOOLEAN : ItemOutcomes(root, item, modern) =
          ApplyOperators(path, EvalJSONPath(root, path), item, StructuralKeys, modern)
    BY <1>2, <2>1 DEF ItemOutcomes
  <2> HIDE DEF path
  <2>4. QED
    BY <2>1, <2>2, <2>3, OperatorsAlike
<1>3. QED
  BY <1>1, <1>2

\* A definition that the rules can judge: not one that has a path and a key of HTTP,
\* which then counts as an operator too, and with paths in `json' that they read.
\* The result is that of an HTTP step when its body is a list.
Judged(data, def) ==
  /\ HasKey(def, "path") => Keys(def) \cap KnownHTTPKeys = {}
  /\ HasKey(def, "json") /\ IsList(def[2]["json"]) =>
       /\ IsList(At(data, "body")) => OfHTTP(data)
       /\ \A i \in DOMAIN def[2]["json"][2] : ReadByRules(PathOf(def[2]["json"][2][i]))

\* One key of HTTP, of which only `json' is read differently.
LEMMA HTTPKeyAlike ==
  ASSUME NEW data, NEW def, Judged(data, def), IsMap(def),
         JsonBlockFindings(At(def, "json")) = {}, NEW key \in Keys(def) \cap KnownHTTPKeys
  PROVE  HTTPOutcomes(data, def, key, TRUE) = HTTPOutcomes(data, def, key, FALSE)
<1> DEFINE items == def[2]["json"]
           Of(i, modern) == ItemOutcomes(JsonRoot(data, modern), items[2][i], modern)
<1>1. CASE key = "json" /\ IsList(items)
  <2>1. HasKey(def, "json") /\ At(def, "json") = items
    BY <1>1 DEF HasKey, At
  <2>2. \A i \in DOMAIN items[2] : SliceItemFindings(items[2][i]) = {} /\ RootFindings(items[2][i]) = {}
    BY <1>1, <2>1 DEF JsonBlockFindings
  <2>3. \A i \in DOMAIN items[2] : ReadByRules(PathOf(items[2][i]))
    BY <1>1, <2>1 DEF Judged
  <2>4. IsList(At(data, "body")) => OfHTTP(data)
    BY <1>1, <2>1 DEF Judged
  <2> HIDE DEF items
  <2>5. \A i \in DOMAIN items[2] : Of(i, TRUE) = Of(i, FALSE)
    BY <2>2, <2>3, <2>4, JsonItemAlike
  <2> HIDE DEF Of
  <2>6. UNION {Of(i, TRUE) : i \in DOMAIN items[2]} = UNION {Of(i, FALSE) : i \in DOMAIN items[2]}
    BY <2>5
  <2>7. \A modern \in BOOLEAN :
          HTTPOutcomes(data, def, key, modern) = UNION {Of(i, modern) : i \in DOMAIN items[2]}
    BY <1>1 DEF HTTPOutcomes, SliceOutcomes, Of, items
  <2>8. QED
    BY <2>6, <2>7
<1>2. CASE key # "json" \/ ~IsList(items)
  BY <1>2 DEF HTTPOutcomes, KnownHTTPKeys
<1>3. QED
  BY <1>1, <1>2

\* A map that the rules do not report.
LEMMA MapAlike ==
  ASSUME NEW data, NEW def, Judged(data, def), IsMap(def), JsonBlockFindings(At(def, "json")) = {},
         Keys(def) \subseteq KnownHTTPKeys \cup {"path"} \cup LegacyOperators
  PROVE  MapOutcomes(data, def, TRUE) = MapOutcomes(data, def, FALSE)
<1> DEFINE path == PathOf(def)
           HTTP(modern) == UNION {HTTPOutcomes(data, def, key, modern) : key \in Keys(def) \cap KnownHTTPKeys}
           Operators(modern) == ApplyOperators(path, EvalJSONPath(data, path), def, StructuralKeys, modern)
           Fields(modern) == UNION {FieldOutcomes(data, def, key, modern) : key \in Keys(def) \ KnownHTTPKeys}
<1>1. HTTP(TRUE) = HTTP(FALSE)
  BY HTTPKeyAlike
<1>2. HasKey(def, "path") => Operators(TRUE) = Operators(FALSE)
  <2>1. HasKey(def, "path") => Keys(def) \ StructuralKeys \subseteq LegacyOperators
    BY DEF Judged, StructuralKeys
  <2>2. QED
    BY <2>1, OperatorsAlike
<1>3. ~HasKey(def, "path") => Fields(TRUE) = Fields(FALSE)
  <2>1. SUFFICES ASSUME ~HasKey(def, "path"), NEW key \in Keys(def) \ KnownHTTPKeys
                 PROVE  FieldOutcomes(data, def, key, TRUE) = FieldOutcomes(data, def, key, FALSE)
    OBVIOUS
  <2>2. key \in LegacyOperators /\ IsOperator(key)
    BY <2>1, LegacyAreOperators DEF HasKey
  <2>3. QED
    BY <2>2 DEF FieldOutcomes
<1> HIDE DEF HTTP, Operators, Fields
<1>4. \A modern \in BOOLEAN : MapOutcomes(data, def, modern) =
        HTTP(modern) \cup IF HasKey(def, "path") THEN Operators(modern) ELSE Fields(modern)
  BY DEF MapOutcomes, HTTP, Operators, Fields
<1>5. QED
  BY <1>1, <1>2, <1>3, <1>4

\* The rules of the assertions area are sound: where they report nothing of a step,
\* its definition has the same outcomes at both levels, for every result that the
\* step may have (assertionFindings, RunAssertions).
THEOREM AssertionsAlike ==
  ASSUME NEW step, AssertionFindings(step) = {}, NEW data, Judged(data, At(step, "assert"))
  PROVE  RunAssertions(data, At(step, "assert"), TRUE) = RunAssertions(data, At(step, "assert"), FALSE)
<1> DEFINE def == At(step, "assert")
<1>1. CASE IsMap(def)
  <2>1. ~IsList(def)
    BY <1>1 DEF IsMap, IsList
  <2>2. /\ JsonBlockFindings(At(def, "json")) = {}
        /\ Keys(def) \ (KnownHTTPKeys \cup {"path"} \cup LegacyOperators) = {}
    BY <1>1, <2>1 DEF AssertionFindings, Finding
  <2>3. \A modern \in BOOLEAN : RunAssertions(data, def, modern) = MapOutcomes(data, def, modern)
    BY <1>1, <2>1 DEF RunAssertions
  <2> HIDE DEF def
  <2>4. QED
    BY <1>1, <2>2, <2>3, MapAlike DEF def
<1>2. CASE IsList(def)
  <2>1. ~IsMap(def)
    BY <1>2 DEF IsMap, IsList
  <2>2. \A i \in DOMAIN def[2] : SliceItemFindings(def[2][i]) = {}
    BY <1>2, <2>1 DEF AssertionFindings
  <2>3. \A i \in DOMAIN def[2] : ItemOutcomes(data, def[2][i], TRUE) = ItemOutcomes(data, def[2][i], FALSE)
    BY <2>2, ItemAlike
  <2>4. SliceOutcomes(data, def, TRUE) = SliceOutcomes(data, def, FALSE)
    BY <2>3 DEF SliceOutcomes
  <2>5. QED
    BY <1>2, <2>1, <2>4 DEF RunAssertions
<1>3. CASE ~IsMap(def) /\ ~IsList(def)
  BY <1>3 DEF RunAssertions
<1>4. QED
  BY <1>1, <1>2, <1>3
=============================================================================
