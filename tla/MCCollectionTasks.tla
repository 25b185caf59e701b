-------------------------- MODULE MCCollectionTasks --------------------------
\* CollectionTasks for TLC: one task that is collected again (runtime_status)
\* and one that waits for the watch (logs_finalize).
EXTENDS CollectionTasks

CONSTANTS status, logs, w1, w2, w3, o1, o2

MCMessages == Tasks \X (1..MaxGenerations)

\* Every worker process has an id of its own, or all share one.
MCOwnId == [w \in Workers |-> IF w = w1 THEN o1 ELSE o2]
MCSharedId == [w \in Workers |-> o1]
=============================================================================
