---------------------------- MODULE MCMuseSession ----------------------------
(* The sends, approvals and questions of muse*.cfg.                        *)
EXTENDS MuseSession
CONSTANTS t1, t2, r1, q1
MCTwo == {t1, t2}
MCOne == {t1}
MCNone == {}
MCAskers == {t1, Own}
MCAsk == {r1}
MCQuiz == {q1}
=============================================================================
