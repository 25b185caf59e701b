---------------------------- MODULE MCAgentTurns ----------------------------
\* AgentTurns for TLC: one user's Turns, each in a session of its own.
EXTENDS AgentTurns

CONSTANTS w1, w2, u, o, t1

MCSessionOf == [t \in Turns |-> t]
MCUserOf == [t \in Turns |-> u]
MCIdOf == [w \in Workers |-> o]
=============================================================================
