-------------------------- MODULE MCInstanceLimits --------------------------
EXTENDS InstanceLimits, TLC
CONSTANTS w1, w2
MCWindows == {w1, w2}
Sym == Permutations(MCWindows)
=============================================================================
