------------------------------ MODULE MCEngine ------------------------------
EXTENDS EngineRefinement, TLC

CONSTANTS t1, t2, k1, k2, v1, v2

\* v1 is the empty string, which Put accepts.
MCValueSize == [v \in Values |-> IF v = v1 THEN 0 ELSE 1]
Symmetry == Permutations(Threads)
NoArchive == <<>>

\* One archived file with a record of k1 and a torn tail.
MCOldRecord == [type |-> NORMAL, key |-> k1, value |-> CHOOSE v \in Values : TRUE]
MCArchive == <<Encode(MCOldRecord) \o SubSeq(Encode(MCOldRecord), 1, 1)>>
=============================================================================
