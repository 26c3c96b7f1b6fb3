--------------------------- MODULE MigrationCases ---------------------------
(***************************************************************************)
(* The files of a migration as samples of steps, each with one of the      *)
(* answers that its service may give: what the rules find in a file, what  *)
(* it does at each level, and which steps the rules know nothing about.    *)
(***************************************************************************)
EXTENDS Migration, StepLevels

CONSTANT Contents   \* the samples: names of sets of [step, answer]

Names == DOMAIN Contents

\* The findings of a file are those of its steps.
FindingsIn == [c \in Names |-> UNION {FindingsOf(case.step) : case \in Contents[c]}]

DoesAt ==
  [c \in Names |-> [level \in SUBSET Areas |->
     [case \in Contents[c] |-> Behaviour(case.step, case.answer, level)]]]

\* What the rules know nothing about: the captures of an HTTP response, an
\* expression in what MongoDB compares or stores with its type and which is no
\* document, a count of no aggregate, the columns of a type that the driver has for
\* itself, a timeout that only the adapter applies, the field `found', and a
\* definition with a path and a key of HTTP, which then counts as an operator too.
UnknownToRules(case) ==
  LET step == case.step
      def == At(step, "assert")
  IN
  \/ AdapterOf(step) = Str("http") /\ HasKey(step, "capture")
  \/ /\ AdapterOf(step) = Str("mongodb")
     /\ (UNION {ScalarStrings(At(step, k)) : k \in {"filter", "update", "pipeline"}}) \cap Sole # {}
  \/ /\ AdapterOf(step) = Str("postgresql") /\ ActionOf(step) = Str("count")
     /\ "adapters" \notin {f.area : f \in AdapterFindings(step)}
  \/ /\ AdapterOf(step) = Str("postgresql")
     /\ \E i \in DOMAIN case.answer.rows : \E c \in DOMAIN case.answer.rows[i] :
          case.answer.rows[i][c][1] \in {"opaque", "date"}
  \/ AdapterOf(step) \in {Str("shell"), Str("http")} /\ HasKey(step, "timeout")
  \/ "$.found" \in ScalarStrings(step)
  \/ HasKey(def, "path") /\ Keys(def) \cap KnownHTTPKeys # {}

AllKnown(c) == \A case \in Contents[c] : ~UnknownToRules(case)

-----------------------------------------------------------------------------
(* Properties *)

\* A step that does something else once an area is adopted, whichever others are,
\* is reported for that area (rules.go).
DifferenceReported ==
  given = 0 => \A f \in Files : \A case \in {c \in Contents[content[f]] : ~UnknownToRules(c)} :
    \A area \in Areas : \A level \in SUBSET (Areas \ {area}) :
      (\E finding \in FindingsOf(case.step) : finding.area = area)
        \/ Does[content[f]][level][case] = Does[content[f]][level \cup {area}][case]
=============================================================================
