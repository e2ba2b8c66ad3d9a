--------------------------- MODULE InstanceLimits ---------------------------
(***************************************************************************)
(* What the pool knows of one instance's limits and health, and whether it *)
(* may be leased (src/src/pool.ts: observeLimits, refreshLimits,           *)
(* reportFailure, reportSuccess, _refreshStale, _blocked;                  *)
(* src/src/limits.ts: mergeLimits; src/src/routing.ts: assessCandidate).   *)
(*                                                                         *)
(* Times are kept relative to now: an age, or the time left.  Pool has the *)
(* leases; here an instance is free and its request asks for nothing that  *)
(* configuration excludes.                                                 *)
(***************************************************************************)
EXTENDS Naturals, FiniteSetsExt

CONSTANTS
    Windows,        \* the provider's enforcement windows
    MaxAge,         \* maximumObservationAgeMs
    MaxLeft,        \* bound: the longest time to a window's reset
    Cooldown,       \* failureCooldownMs
    MaxCooldown,    \* 10 min
    ProbeCooldown,  \* probeCooldownMs
    MaxFailures,    \* bound: past it the cooldown no longer grows
    MaxPolls        \* bound: polls in flight

ASSUME LimitsAssumption ==
    /\ MaxAge \in Nat /\ MaxLeft \in Nat \ {0} /\ ProbeCooldown \in Nat
    /\ Cooldown \in Nat \ {0} /\ MaxCooldown \in Nat \ {0}
    /\ MaxFailures \in Nat \ {0} /\ Cooldown * 2^(MaxFailures - 1) >= MaxCooldown
    /\ MaxPolls \in Nat \ {0}

VARIABLES
    observed,       \* a snapshot was observed: state.limits
    age,            \* since limits.observedAt
    used,           \* [Windows -> Used]: limits.windows
    left,           \* [Windows -> Left]: the time to resetsAt, 0 once it passed
    blocked,        \* limits.blocked
    cool,           \* the time left to unavailableUntil
    failures,       \* consecutive failures
    empty,          \* the rest of the probe cooldown
    polls,          \* polls in flight
    seen,           \* history: how long ago each window was last observed
    said            \* history: the last the runtime said of being blocked

limits       == <<observed, age, used, left, blocked>>
standing     == <<cool, failures, empty>>
instanceVars == <<limits, standing, polls, seen, said>>

Used == {"none", "low", "full"}
Never == MaxLeft + 1        \* no reset was reported
Left == 0..Never
Flag == {"blocked", "open", "unsaid"}

LimitsTypeOK ==
    /\ observed \in BOOLEAN /\ age \in 0..(MaxAge + 1)
    /\ used \in [Windows -> Used] /\ left \in [Windows -> Left]
    /\ blocked \in Flag
    /\ cool \in 0..MaxCooldown /\ failures \in 0..MaxFailures
    /\ empty \in 0..ProbeCooldown /\ polls \in 0..MaxPolls
    /\ seen \in [Windows -> 0..(MaxAge + 1)] /\ said \in Flag

LimitsInit ==
    /\ observed = FALSE /\ age = 0 /\ blocked = "unsaid"
    /\ used = [w \in Windows |-> "none"] /\ left = [w \in Windows |-> Never]
    /\ cool = 0 /\ failures = 0 /\ empty = 0 /\ polls = 0
    /\ seen = [w \in Windows |-> 0] /\ said = "unsaid"

----------------------------------------------------------------------------
(* Whether it may be leased                                                 *)

Read == {w \in Windows : used[w] # "none"}
Full == {w \in Read : used[w] = "full"}

\* Blocked unless every window that reached 100% has since reset.
BlockedNow == blocked = "blocked" /\ (Full = {} \/ \E w \in Full : left[w] > 0)

\* A reading is usable while it is young and its window has not reset.
Unreadable(w) == age > MaxAge \/ left[w] = 0

\* assessCandidate, in its order.
Excluded ==
    CASE cool > 0                         -> "unavailable"
      [] BlockedNow                       -> "blocked"
      [] ~observed \/ Read = {}           -> "no-observation"
      [] \E w \in Read : Unreadable(w)    -> "stale-observation"
      [] Full # {}                        -> "exhausted"
      [] OTHER                            -> "no"
Leasable == Excluded = "no"

\* _refreshStale polls before a lease is decided.
NeedsPollYoung ==
    /\ empty = 0
    /\ ~observed \/ (\E w \in Read : left[w] = 0) \/ (BlockedNow /\ cool = 0)
NeedsPoll ==
    /\ empty = 0
    /\ \/ ~observed \/ age > MaxAge
       \/ \E w \in Read : left[w] = 0
       \/ BlockedNow /\ cool = 0

----------------------------------------------------------------------------
(* mergeLimits                                                              *)

\* A poll replaces everything.
Replace(u, l, b) ==
    /\ observed' = TRUE /\ age' = 0
    /\ used' = u /\ left' = l /\ blocked' = b
    /\ seen' = [w \in Windows |-> 0]

\* A streamed update upserts the windows it names, keeps a known reset and a
\* known flag, and dates the whole snapshot.
MergeForgetting(ws, u, l, b) ==
    /\ observed' = TRUE /\ age' = 0
    /\ used' = [w \in Windows |-> IF w \in ws THEN u[w] ELSE used[w]]
    /\ left' = [w \in Windows |-> IF w \in ws THEN l[w] ELSE left[w]]
    /\ blocked' = b
    /\ seen' = [w \in Windows |-> IF w \in ws THEN 0 ELSE seen[w]]
Merge(ws, u, l, b) ==
    /\ observed' = TRUE /\ age' = 0
    /\ used' = [w \in Windows |-> IF w \in ws THEN u[w] ELSE used[w]]
    /\ left' = [w \in Windows |-> IF w \in ws /\ l[w] # Never THEN l[w] ELSE left[w]]
    /\ blocked' = IF b = "unsaid" THEN blocked ELSE b
    /\ seen' = [w \in Windows |-> IF w \in ws THEN 0 ELSE seen[w]]

\* What the runtime may report of the windows `ws`.
Readings(ws) == {u \in [Windows -> Used] : \A w \in Windows : u[w] # "none" <=> w \in ws}
Resets(ws) == {l \in [Windows -> Left \ {0}] : \A w \in Windows \ ws : l[w] = Never}

\* reportFailure's cooldown, doubling up to its maximum.
CooldownAfter(n) == Min({Cooldown * 2^(n - 1), MaxCooldown})
Fail ==
    /\ failures' = Min({failures + 1, MaxFailures})
    /\ cool' = CooldownAfter(failures')

----------------------------------------------------------------------------
(* The pool's handlers                                                      *)

\* open() or continueOn() refreshes before it decides.
PollBegins ==
    /\ NeedsPoll /\ polls < MaxPolls
    /\ polls' = polls + 1
    /\ UNCHANGED <<limits, standing, seen, said>>

\* A poll with a full window says "blocked"; a window it reports has not reset.
PollAnswers ==
    /\ polls > 0
    /\ polls' = polls - 1 /\ empty' = 0
    /\ \E ws \in SUBSET Windows : \E u \in Readings(ws), l \in Resets(ws) :
         \E b \in Flag :
           /\ (\E w \in ws : u[w] = "full") => b = "blocked"
           /\ Replace(u, l, b)
           /\ said' = b
    /\ UNCHANGED <<cool, failures>>

PollEmpty ==
    /\ polls > 0
    /\ polls' = polls - 1 /\ empty' = ProbeCooldown
    /\ UNCHANGED <<limits, cool, failures, seen, said>>

PollFails ==
    /\ polls > 0
    /\ polls' = polls - 1 /\ empty' = ProbeCooldown
    /\ Fail
    /\ UNCHANGED <<limits, seen, said>>

\* A session on the instance streams a rate_limit event.
Streamed ==
    /\ \E ws \in SUBSET Windows : \E u \in Readings(ws), l \in Resets(ws), b \in Flag :
         /\ IF observed THEN Merge(ws, u, l, b) ELSE Replace(u, l, b)
         /\ said' = IF b = "unsaid" THEN said ELSE b
    /\ UNCHANGED <<standing, polls>>

\* A turn ended in a 429.
RateLimited ==
    /\ Fail
    /\ IF observed THEN Merge({}, used, left, "blocked")
       ELSE Replace(used, left, "blocked")
    /\ said' = "blocked"
    /\ UNCHANGED <<empty, polls>>

\* The caller reports a failure of another kind.
OtherFailure ==
    /\ Fail
    /\ UNCHANGED <<limits, empty, polls, seen, said>>

\* A turn completed, however long ago it began.
Succeeded ==
    /\ failures' = 0 /\ cool' = 0
    /\ UNCHANGED <<limits, empty, polls, seen, said>>

Less(n) == IF n = 0 THEN 0 ELSE n - 1
More(n) == Min({n + 1, MaxAge + 1})
Tick ==
    /\ age' = More(age)
    /\ left' = [w \in Windows |-> IF left[w] = Never THEN Never ELSE Less(left[w])]
    /\ cool' = Less(cool) /\ empty' = Less(empty)
    /\ seen' = [w \in Windows |-> More(seen[w])]
    /\ UNCHANGED <<observed, used, blocked, failures, polls, said>>

LimitsNext ==
    \/ PollBegins \/ PollAnswers \/ PollEmpty \/ PollFails
    \/ Streamed \/ RateLimited \/ OtherFailure \/ Succeeded
    \/ Tick

LimitsSpec == LimitsInit /\ [][LimitsNext]_instanceVars

\* Time passes, sends keep opening sessions, and their polls end.
LimitsFairSpec ==
    /\ LimitsSpec
    /\ WF_instanceVars(Tick) /\ WF_instanceVars(PollBegins)
    /\ WF_instanceVars(PollAnswers \/ PollEmpty \/ PollFails)
----------------------------------------------------------------------------
(* What the pool must get right                                             *)

\* No lease goes to an instance whose runtime last said that it is blocked,
\* whatever polls failed, turns completed and windows reset since (mergeLimits,
\* _blocked, assessCandidate).
BlockedHonoured == Leasable => said # "blocked"

\* An instance that nothing disturbs any more, and whose polls find capacity,
\* can be leased again and again: no combination of a block, a cooldown, a reset
\* and a lost poll excludes it for ever (_refreshStale).
Good == PollAnswers /\ Read' # {} /\ Full' = {} /\ blocked' # "blocked"
Calm == Good \/ PollBegins \/ Succeeded \/ Tick
Recovers == (<>[][Calm]_instanceVars) => []<>Leasable

\* "Older limit observations exclude an instance until refreshed"
\* (maximumObservationAgeMs).  It does not
\* hold: README, "Where code and comments disagree".
FreshReadings == Leasable => \A w \in Read : seen[w] <= MaxAge
=============================================================================
