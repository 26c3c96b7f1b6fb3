----------------------------- MODULE MCVariables -----------------------------
(***************************************************************************)
(* Blocks of three variables: every graph of plain references, with at     *)
(* most one object; and every graph of up to three plain references with   *)
(* one reference among the arguments of a built-in.                        *)
(***************************************************************************)
EXTENDS Variables, TLC

Edge == Names \X Names

\* The sets of at most n edges.
Graphs(n) == {G \in SUBSET Edge : Cardinality(G) <= n}

From(G) == [v \in Names |-> {e[2] : e \in {f \in G : f[1] = v}}]

BlockOf(bare, braced, named, objects) ==
  [bare |-> From(bare), braced |-> From(braced), named |-> From(named), objects |-> objects]

ObjectSets == {S \in SUBSET Names : Cardinality(S) <= 1}

MCBlocks ==
  {BlockOf(bare, {}, {}, objects) : bare \in SUBSET Edge, objects \in ObjectSets}
  \cup {BlockOf(bare, {e}, {}, objects) : bare \in Graphs(3), e \in Edge, objects \in ObjectSets}
  \cup {BlockOf(bare, {}, {e}, objects) : bare \in Graphs(3), e \in Edge, objects \in ObjectSets}

MCSymmetry == Permutations(Names)
=============================================================================
