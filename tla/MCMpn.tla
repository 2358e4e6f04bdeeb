------------------------------- MODULE MCMpn --------------------------------
EXTENDS MpnCalls
MCEdges == {0, 1, 32, 63}
MCDivEdges == {0, 1, 31, 32, 63}
MCCounts == {1, 3, 5}
MCBases == {2, 3, 4, 6, 7, 8, 10, 16, 30}
\* 0, 1, 9, b, X, minus, space, another character
MCChars == {0, 1, 9, 11, 133, -1, -2, -4}
\* small numbers, the boundaries 64 and 961, products and squares of the first bases
MCCandidates == -70 .. 130 \cup 890 .. 1000 \cup {1681, 1763, 1849, 1927, 2021, 2047, 2209, 3721, 6601, 10007, 29341}
=============================================================================
