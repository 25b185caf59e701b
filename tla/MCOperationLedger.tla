-------------------------- MODULE MCOperationLedger --------------------------
\* OperationLedger for TLC: one session of one user.
EXTENDS OperationLedger, TLC

CONSTANTS s, u, o, t1, t2, k1, i1, i2, c1, c2

MCSessionOf == [t \in Turns |-> s]
MCMaxFence == [t \in Turns |-> IF t = t1 THEN 2 ELSE 1]
MCOpOf == [i \in Turns \X Keys |-> k1]
MCUserOf == [t \in Turns |-> u]
MCSymmetry == Permutations(Calls) \cup Permutations(Keys)
=============================================================================
