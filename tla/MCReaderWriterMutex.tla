------------------------ MODULE MCReaderWriterMutex -------------------------
(***************************************************************************)
(* Instances of ReaderWriterMutex with three threads.                      *)
(***************************************************************************)
EXTENDS ReaderWriterMutex, TLC

CONSTANTS t1, t2, t3

MCThread     == {t1, t2, t3}
AnyDeadline  == {Never, Finite, Try}
NoDeadline   == {Never}
Symmetry     == Permutations(MCThread)
=============================================================================
