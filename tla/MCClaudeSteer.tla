---------------------------- MODULE MCClaudeSteer ----------------------------
(* Two turns and two steers: with a stop, or with answers that come too     *)
(* late and runs that fail.                                                 *)
EXTENDS ClaudeSteer, TLC
CONSTANTS t1, t2, s1, s2
MCTurns == {t1, t2}
MCSteers == {s1, s2}
MCEvents == {{"stop"}, {"slow", "fails"}}
=============================================================================
