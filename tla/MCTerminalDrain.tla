--------------------------- MODULE MCTerminalDrain ---------------------------
\* TerminalDrain for TLC: one worker process, or two.
EXTENDS TerminalDrain, TLC

CONSTANTS w1, w2

\* One log of two bytes that may be rotated away or emptied once, and one of a
\* byte that is not.
LogBytes == [stdout |-> 2, stderr |-> 1]
OneRotation == [stdout |-> 1, stderr |-> 0]

MCSymmetry == Permutations(Workers)
=============================================================================
