--------------------------- MODULE MCClaudeSubagents ---------------------------
(* The scenarios of claude_subagents.cfg: two decisions of one role or of   *)
(* two, with standby context or without, and what may happen to them.       *)
EXTENDS ClaudeSubagents, TLC
CONSTANTS d1, d2, p, q, a, b
MCTwo == {d1, d2}
MCContexts == {a, b}
MCRoles == {p, q}
Pre(rs, c) == [roles |-> rs, ctx |-> c]
Asked(r1, r2, w1, w2, n, prestarts, leavers, refused, faults) ==
    [role |-> d1 :> r1 @@ d2 :> r2, wants |-> d1 :> w1 @@ d2 :> w2, copies |-> n, prestarts |-> prestarts,
     leavers |-> leavers, refused |-> refused, faults |-> faults]
MCSpecs == {
    Asked(p, p, a, b, 1, <<Pre({p}, a), Pre({p}, b)>>, {}, {}, {}),
    Asked(p, p, a, a, 1, <<Pre({p}, a)>>, {d1}, {}, {"close"}),
    Asked(p, q, a, a, 1, <<Pre({p}, a)>>, {d1}, {d2}, {}),
    Asked(p, p, a, Null, 1, <<Pre({p}, a)>>, {}, {}, {"release"}),
    Asked(p, p, a, Null, 1, <<Pre({p}, a)>>, {}, {d1}, {"exit"}),
    Asked(p, p, a, Null, 1, <<Pre({p}, a)>>, {}, {}, {"silent", "write"}),
    Asked(p, p, a, Null, 1, <<Pre({p}, a)>>, {}, {}, {"start"}),
    Asked(p, p, a, Null, 1, <<Pre({p}, a)>>, {}, {}, {"acts"}),
    Asked(p, p, a, Null, 1, <<Pre({p}, a)>>, {}, {d1}, {"ends"}),
    Asked(p, p, a, Null, 1, <<Pre({p}, a)>>, {}, {d1}, {"fails"}),
    Asked(p, p, a, Null, 1, <<Pre({p}, a)>>, {}, {}, {"idle"}),
    Asked(p, q, a, a, 2, <<Pre({p, q}, a)>>, {}, {}, {}),
    Asked(p, q, Null, Null, 1, <<>>, {d1}, {}, {"exit", "silent", "close", "tampers", "start", "write", "rewind"}),
    Asked(p, p, Null, Null, 1, <<>>, {d1}, {}, {"ends", "fails", "uses", "idle"})}
=============================================================================
