--------------------------- MODULE MCCodexSession ---------------------------
(* The sends of codex*.cfg.                                                *)
EXTENDS CodexSession
CONSTANTS t1, t2, r1
MCTwo == {t1, t2}
MCFirst == {t1}
MCNone == {}
MCAsk == {r1}
=============================================================================
