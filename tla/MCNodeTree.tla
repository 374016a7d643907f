----------------------------- MODULE MCNodeTree -----------------------------
(***************************************************************************)
(* An instance of NodeTree: two sessions of one host,                      *)
(* node names a and b, paths of one and two clauses, limits that are       *)
(* reached, and subscription strings that overlap at every level.          *)
(***************************************************************************)
EXTENDS NodeTree, TLC

CONSTANTS s1, s2, h1, a, b, v0, v1

MCSession == {s1, s2}
MCHost    == {h1}
MCHostOf  == [s \in MCSession |-> h1]
MCName    == {a, b}
MCValue   == {v0, v1}

AnyName == MCHost \cup MCSession \cup MCName

MCPattern ==
  { <<AnyName, AnyName>>,              \* /*/*
    <<AnyName, AnyName, AnyName>>,     \* /*/*/*
    <<AnyName, AnyName, {a}>> }        \* /*/*/a

MCRelPath    == {<<a>>, <<b>>, <<a, b>>}
MCRelPattern == {<<{a}>>, <<{a, b}>>, <<{a, b}, {a, b}>>}

Plain == [dontCreate |-> FALSE, dontOverwrite |-> FALSE, quiet |-> FALSE,
          addToIndex |-> FALSE, supercede |-> FALSE]
MCSetFlags ==
  {Plain, [Plain EXCEPT !.dontCreate = TRUE],
   [Plain EXCEPT !.dontOverwrite = TRUE], [Plain EXCEPT !.addToIndex = TRUE]}

MCFilter   == {MCValue}
MCNoFilter == MCValue

Symmetry == Permutations(MCSession)
=============================================================================
