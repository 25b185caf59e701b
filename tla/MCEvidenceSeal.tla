---------------------------- MODULE MCEvidenceSeal ----------------------------
\* EvidenceSeal for TLC.
EXTENDS EvidenceSeal, TLC

CONSTANTS p1, p2, c1, c2, k1, k2

MCVersionOf == [c \in Collectors |-> IF c = c1 THEN 1 ELSE 2]
MCSymmetry == Permutations(Processes)
=============================================================================
