--------------------------- MODULE MCWorkspaceEdits ---------------------------
\* WorkspaceEdits for TLC.
EXTENDS WorkspaceEdits, TLC

MCSymmetry == Permutations(Editors) \cup Permutations(Files) \cup Permutations(Values)
=============================================================================
