-------------------------- MODULE MCNodeTraversal ---------------------------
(***************************************************************************)
(* An instance of NodeTraversal: two sessions s and t of one host with     *)
(* nodes j and k, and pairs of strings of every kind.                      *)
(***************************************************************************)
EXTENDS NodeTraversal

CONSTANTS h, s, t, j, k, v0, v1

MCNodePaths == {<<h>>, <<h, s>>, <<h, t>>, <<h, s, j>>, <<h, s, k>>, <<h, t, k>>}
MCValue     == {v0, v1}
MCFilter    == {MCValue, {v1}}

Star       == [wild |-> TRUE, names |-> <<h, s, t, j, k>>]
Just(n)   == [wild |-> FALSE, names |-> <<n>>]
ListOf(l) == [wild |-> FALSE, names |-> l]

MCStrings ==
  {<<Star, Star>>,                         \* /*/*
   <<Star, Star, Star>>,                    \* /*/*/*
   <<Just(h), Just(s), Just(j)>>,        \* /h/s/j
   <<Just(h), ListOf(<<t, s>>), Just(k)>>, \* /h/t,s/k
   <<Star, Just(s), Just(k)>>,            \* /*/s/k
   <<Star, Just(t), Just(j)>>}            \* /*/t/j
=============================================================================
