------------------------------ MODULE MCObjMap ------------------------------
EXTENDS ObjMap, TLC

\* Strings are given by their hash codes.  In a table of four slots 0 and 8
\* collide, 7 and 15 collide and wrap around; in one of eight they still do.
HashIsName == [k \in Keys |-> k]

\* Values are only stored and returned.
Symmetry == Permutations(Values)
=============================================================================
