------------------------------ MODULE MCMiniOS ------------------------------
EXTENDS MiniOS, TLC

CONSTANTS c1, c2

TwoContents == {c1, c2}
=============================================================================
