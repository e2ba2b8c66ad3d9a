---------------------------- MODULE MCClaudePrimed ----------------------------
(* The decisions of claude_primed.cfg: two of one key and context, two of   *)
(* one key whose context changes, two of different keys.                    *)
EXTENDS ClaudePrimed, TLC
CONSTANTS d1, d2, e1, k1, k2, h1, h2
MCTwo == {d1, d2}
MCEvicts == {e1}
Asked(kk, hh) == [key |-> d1 :> k1 @@ d2 :> kk @@ e1 :> k1, hash |-> d1 :> h1 @@ d2 :> hh]
MCSpecs == {Asked(k1, h1), Asked(k1, h2), Asked(k2, h2)}
MCBare == {h2}
=============================================================================
