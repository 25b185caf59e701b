--------------------------- MODULE MCRunSubmission ---------------------------
\* RunSubmission for TLC: dispatchers of one worker loop (d1, d2) and an API
\* process (d3); d1 and d2 were started under the same worker id.
EXTENDS RunSubmission

CONSTANTS d1, d2, d3, o1, o2

MCOwnerOf == [d \in Dispatchers |-> IF d = d3 THEN o2 ELSE o1]
=============================================================================
