------------------------------- MODULE MCMpz --------------------------------
EXTENDS MpzCalls
MCMagnitudes == 0 .. 4 \cup {8, 15, 16, 31, 48, 63}
MCSlack == {<<0, 0>>, <<1, 3>>}
MCExponents == {-2, 0, 3, 6}
=============================================================================
