------------------------------- MODULE Levels -------------------------------
(***************************************************************************)
(* Behaviour levels (internal/tryve/compat.go).  A level is the set of the *)
(* areas whose current behaviour applies: {} is tryve/v1, Areas tryve/v2.  *)
(*                                                                         *)
(* A declaration, of a configuration or of a test file, is what its text   *)
(* says: the version after `apiVersion', and the map under `compatibility' *)
(* from areas to versions, empty when there is no such block.  A version   *)
(* is "absent", "null" when the key has no value, "v1", "v2" or            *)
(* "unknown", whatever its spelling.                                       *)
(***************************************************************************)
EXTENDS Naturals

Areas == {"assertions", "interpolation", "execution", "adapters"}
Legacy == {}
Modern == Areas

Undeclared == [version |-> "absent", override |-> [a \in {} |-> "v1"]]

KnownVersion(version) == version # "unknown"
ParseAPIVersion(version) == IF version = "v2" THEN Modern ELSE Legacy

\* An area that is none, and a version that is unknown, are errors.
ResolveLevel(d) ==
  IF KnownVersion(d.version) /\ \A a \in DOMAIN d.override : a \in Areas /\ KnownVersion(d.override[a])
  THEN [ok |-> TRUE,
        level |-> {a \in Areas :
                     a \in ParseAPIVersion(IF a \in DOMAIN d.override THEN d.override[a] ELSE d.version)}]
  ELSE [ok |-> FALSE, level |-> Legacy]

\* The version written back into a file: a mixture of areas counts as tryve/v1.
APIVersion(level) == IF level = Areas THEN "v2" ELSE "v1"

\* The level a test runs at: that of its file, when the file declares one, which
\* then starts from tryve/v1 and not from the level of the suite.
LevelOfTest(suite, d) ==
  IF d.version \in {"absent", "null"} /\ DOMAIN d.override = {}
  THEN [ok |-> TRUE, level |-> suite] ELSE ResolveLevel(d)
=============================================================================
