--------------------------- MODULE MCOutboxWorkers ---------------------------
\* OutboxWorkers for TLC: three worker processes, two of which were started
\* under the same worker id.
EXTENDS OutboxWorkers

CONSTANTS m1, w1, w2, w3, o1, o2

MCOwnerOf == [w \in Claimants |-> IF w = w3 THEN o2 ELSE o1]

MCBudgets == {1, 3}

=============================================================================
