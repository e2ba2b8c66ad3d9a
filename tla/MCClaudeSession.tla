--------------------------- MODULE MCClaudeSession ---------------------------
EXTENDS ClaudeSession, TLC
CONSTANTS t1, t2
MCTwo == {t1, t2}
MCOne == {t1}
MCNone == {}
Sym == Permutations(MCTwo)
=============================================================================
