--------------------------- MODULE MCNodeDelivery ---------------------------
(***************************************************************************)
(* Instances of NodeDelivery: a session w that writes and a session r that *)
(* subscribes.  DATAITEMS Messages hold two fields, so that they overflow. *)
(***************************************************************************)
EXTENDS NodeDelivery

CONSTANTS w, r, h1, a, b, v0, v1

MCSession == {w, r}
MCWriters == {w}
JustR     == {r}
JustW     == {w}
MCHost    == {h1}
MCHostOf  == [s \in MCSession |-> h1]
MCName    == {a, b}
MCValue   == {v0, v1}
AnyName   == MCHost \cup MCSession \cup MCName
NoOne     == {}

OneValue     == {v0}
NoFilterOnly == {MCValue}
OneFilter    == {OneValue}
AnyFilter    == {MCValue, {v1}}

Children      == <<AnyName, AnyName, AnyName>>            \* /*/*/*
GrandChildren == <<AnyName, AnyName, AnyName, AnyName>>   \* /*/*/*/*

OneString    == {Children}
IndexStrings == {Children, GrandChildren}

FlatPaths    == {<<a>>, <<b>>}
FlatRemovals == {<<{a}>>, <<{a, b}>>}
DeepPaths    == {<<a>>, <<a, a>>, <<a, b>>}
DeepRemovals == {<<{a}>>, <<{a}, {a}>>}

Plain == [dontCreate |-> FALSE, dontOverwrite |-> FALSE, quiet |-> FALSE,
          addToIndex |-> FALSE, supercede |-> FALSE]
PlainOrSupercede == {Plain, [Plain EXCEPT !.supercede = TRUE]}
PlainOrIndexed   == {Plain, [Plain EXCEPT !.addToIndex = TRUE]}

OnlyAtEnd  == {AtEnd}
AnyBefore  == {a, b, AtEnd, RemoveFromIndex}
NoBefore   == {}

(* The theorems of NodeDelivery_proofs are about instances like these.     *)
ASSUME TheoremsApply == Unquiet /\ FiltersApart
=============================================================================
