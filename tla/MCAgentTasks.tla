----------------------------- MODULE MCAgentTasks -----------------------------
\* AgentTasks for TLC: both workers run under one worker id.
EXTENDS AgentTasks, TLC

CONSTANTS w1, w2, c1, worker

MCIdOf == [p \in Workers |-> worker]
MCMessages == {"execute", "replay", "ready"}
MCSymmetry == Permutations({w1, w2})
=============================================================================
