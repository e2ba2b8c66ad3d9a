----------------------------- MODULE MCCodexPrimed -----------------------------
(* The scenarios of codex_primed.cfg: two decisions of one key and context, *)
(* of one key whose context changes, or of different keys, with what may    *)
(* happen to them.                                                          *)
EXTENDS CodexPrimed, TLC
CONSTANTS d1, d2, w1, k1, k2, h1, h2
MCTwo == {d1, d2}
MCWarm == {w1}
MCHolders == MCTwo \cup ({"hedge"} \X MCTwo)
Asked(n, kk, hh, leavers, hedged, warm, faults) ==
    [key |-> d1 :> k1 @@ d2 :> kk @@ w1 :> k1, hash |-> d1 :> h1 @@ d2 :> hh @@ w1 :> h1,
     limit |-> n, leavers |-> leavers, hedged |-> hedged, warm |-> warm, faults |-> faults]
MCSpecs ==
    {Asked(2, k1, h1, {d1}, {d1}, {}, {"refuses"}),
     Asked(1, k1, h1, {d1, d2}, {d1}, {}, {"fails"}),
     Asked(3, k1, h1, {d1}, {d1}, {}, {"fails"}),
     Asked(2, k1, h1, {}, {d1}, {}, {"violates", "refuses"}),
     Asked(2, k1, h1, {d1}, {d1}, {}, {"exit"}),
     Asked(2, k1, h2, {}, {}, {w1}, {"idle", "prime"}),
     Asked(2, k1, h2, {}, {}, {}, {"prime", "breaks"}),
     Asked(2, k1, h1, {}, {d1}, {w1}, {"evict"}),
     Asked(2, k2, h2, {}, {d1}, {w1}, {"close"}),
     Asked(1, k2, h2, {d1}, {}, {w1}, {"silent", "limited", "exit"})}
=============================================================================
