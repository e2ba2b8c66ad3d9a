-------------------------------- MODULE Pool --------------------------------
(***************************************************************************)
(* The subscription pool (src/src/pool.ts): leases on instances, the       *)
(* sessions opened under them, and threads moved between instances.        *)
(*                                                                         *)
(* open() and continueOn() await a refresh of stale limits and then decide *)
(* in one synchronous step, so each is two actions with anything between   *)
(* them.  A slot of Sessions stands for one such call, its lease and its   *)
(* session.                                                                *)
(*                                                                         *)
(* What an instance's limits say is abstracted to `health`; InstanceLimits *)
(* has the detail.  The ranking of the eligible is any choice among them.  *)
(* The session under the wrapper is ClaudeSession's, reduced to its        *)
(* lifecycle and to whether native work is unresolved.                     *)
(***************************************************************************)
EXTENDS Naturals, FiniteSets

CONSTANTS
    Instances, None,
    Sessions,           \* bound: the leases taken over the pool's life
    Enabled,            \* the instances not disabled by configuration
    Resumes,            \* those whose transport resumes natively
    Limit,              \* concurrencyLimit of each instance
    Key                 \* continuationKey and runtime of each instance

ASSUME PoolAssumption ==
    /\ None \notin Instances \cup Sessions
    /\ IsFiniteSet(Sessions)
    /\ Enabled \subseteq Instances /\ Resumes \subseteq Instances
    /\ Limit \in [Instances -> Nat \ {0}]
    /\ DOMAIN Key = Instances

VARIABLES
    leases,         \* [Instances -> SUBSET Sessions]: state.leases
    released,       \* the leases whose `released` flag is set
    health,         \* [Instances -> Health]
    call,           \* each acquire(), open() or continueOn()
    probing,        \* the polls its refresh still waits for
    from,           \* the session a continueOn() moves
    inst,           \* the instance of the lease, None before there is one
    ses,            \* [Sessions -> SessionState]
    known,          \* the sessions with a native id to continue from
    work,           \* the sessions with native work of unknown outcome
    again           \* history: the sessions started while they had a process

vars == <<leases, released, health, call, probing, from, inst, ses, known, work, again>>

\* "unread": _refreshStale polls it.  "resting": excluded, and not polled yet
\* (cooling down after a failure, full, or a poll just came back empty).
Health == {"usable", "unread", "resting"}
Running == {"starting", "live"}
SessionState == {"none", "made", "dying", "ended"} \cup Running

TypeOK ==
    /\ leases \in [Instances -> SUBSET Sessions]
    /\ released \subseteq Sessions
    /\ health \in [Instances -> Health]
    /\ call \in [Sessions -> {"idle", "opening", "moving", "leased", "refused"}]
    /\ probing \in [Sessions -> SUBSET Instances]
    /\ from \in [Sessions -> Sessions \cup {None}]
    /\ inst \in [Sessions -> Instances \cup {None}]
    /\ ses \in [Sessions -> SessionState]
    /\ known \subseteq Sessions /\ work \subseteq Sessions /\ again \subseteq Sessions
    /\ \A i \in Instances : \A s \in leases[i] : inst[s] = i /\ s \notin released

Init ==
    /\ leases = [i \in Instances |-> {}]
    /\ released = {}
    /\ health = [i \in Instances |-> "unread"]
    /\ call = [s \in Sessions |-> "idle"]
    /\ probing = [s \in Sessions |-> {}]
    /\ from = [s \in Sessions |-> None]
    /\ inst = [s \in Sessions |-> None]
    /\ ses = [s \in Sessions |-> "none"]
    /\ known = {} /\ work = {} /\ again = {}

----------------------------------------------------------------------------
(* Ranking and leases                                                       *)

\* assessCandidate excludes an occupied instance whatever its limits say.
Free(i) == Cardinality(leases[i]) < Limit[i]
Candidates(allowed) ==
    {i \in allowed \cap Enabled : health[i] = "usable" /\ Free(i)}

Stale(allowed) == {i \in allowed \cap Enabled : health[i] = "unread"}

\* The other instances a thread of session `o` may move to.
Shared(o) ==
    {i \in Resumes \ {inst[o]} : Key[i] = Key[inst[o]]}

LeaseOn(s, i, others) ==
    /\ leases' = [others EXCEPT ![i] = @ \cup {s}]
    /\ inst' = [inst EXCEPT ![s] = i]
    /\ call' = [call EXCEPT ![s] = "leased"]

\* release() acts once.
Without(s) == [i \in Instances |-> leases[i] \ {s}]
Release(s) == leases' = Without(s) /\ released' = released \cup {s}

----------------------------------------------------------------------------
(* acquire(), open() and continueOn()                                       *)

Acquire(s) ==
    /\ call[s] = "idle"
    /\ IF Candidates(Instances) = {}
       THEN call' = [call EXCEPT ![s] = "refused"] /\ UNCHANGED <<leases, inst>>
       ELSE \E i \in Candidates(Instances) : LeaseOn(s, i, leases)
    /\ UNCHANGED <<released, health, probing, from, ses, known, work, again>>

\* A lease taken with acquire() is the caller's to release.
CallerReleases(s) ==
    /\ call[s] = "leased" /\ ses[s] = "none" /\ s \notin released
    /\ Release(s)
    /\ UNCHANGED <<health, call, probing, from, inst, ses, known, work, again>>

OpenBegins(s) ==
    /\ call[s] = "idle"
    /\ call' = [call EXCEPT ![s] = "opening"]
    /\ probing' = [probing EXCEPT ![s] = Stale(Instances)]
    /\ UNCHANGED <<leases, released, health, from, inst, ses, known, work, again>>

\* One poll of a refresh returns limits, returns nothing, or fails.
ProbeEnds(s, i) ==
    /\ i \in probing[s]
    /\ probing' = [probing EXCEPT ![s] = @ \ {i}]
    /\ \E h \in Health : health' = [health EXCEPT ![i] = h]
    /\ UNCHANGED <<leases, released, call, from, inst, ses, known, work, again>>

\* createSession throws: the new lease is given back.
MakeFailsHolding(s, i, others) ==
    /\ leases' = [others EXCEPT ![i] = @ \cup {s}]
    /\ inst' = [inst EXCEPT ![s] = i]
    /\ call' = [call EXCEPT ![s] = "refused"]
MakeFails(s, i, others) ==
    /\ leases' = others
    /\ inst' = [inst EXCEPT ![s] = i]
    /\ call' = [call EXCEPT ![s] = "refused"]

OpenEnds(s) ==
    /\ call[s] = "opening" /\ probing[s] = {}
    /\ \/ /\ Candidates(Instances) = {}
          /\ call' = [call EXCEPT ![s] = "refused"]
          /\ UNCHANGED <<leases, released, inst, ses>>
       \/ \E i \in Candidates(Instances) :
            \/ /\ LeaseOn(s, i, leases)
               /\ ses' = [ses EXCEPT ![s] = "made"]
               /\ UNCHANGED released
            \/ /\ MakeFails(s, i, leases)
               /\ released' = released \cup {s}
               /\ UNCHANGED ses
    /\ UNCHANGED <<health, probing, from, known, work, again>>

\* A caller moves a thread it was given, from its latest session, and once at a
\* time; the binding carries the session and its lease.
Latest(o) == \A u \in Sessions : from[u] = o => call[u] = "refused"

MoveBegins(s, o) ==
    /\ call[s] = "idle" /\ o \in known /\ Latest(o)
    /\ IF inst[o] \notin Resumes \/ o \in work \/ Shared(o) = {}
       THEN /\ call' = [call EXCEPT ![s] = "refused"]
            /\ UNCHANGED <<probing, from>>
       ELSE /\ call' = [call EXCEPT ![s] = "moving"]
            /\ from' = [from EXCEPT ![s] = o]
            /\ probing' = [probing EXCEPT ![s] = Stale(Shared(o))]
    /\ UNCHANGED <<leases, released, health, inst, ses, known, work, again>>

\* Work may have begun on the old session during the refresh.
Settled(o) == o \notin work

MoveRefused(s) ==
    /\ call[s] = "moving" /\ probing[s] = {}
    /\ Candidates(Shared(from[s])) = {} \/ ~Settled(from[s])
    /\ call' = [call EXCEPT ![s] = "refused"]
    /\ UNCHANGED <<leases, released, health, probing, from, inst, ses, known, work, again>>

\* The old session is killed, its lease given back, and the thread continues on
\* the new instance, in one step.
StopReleasing(o) == ses
Stop(o) == [ses EXCEPT ![o] = "ended"]

MoveEnds(s) ==
    LET o == from[s] IN
    /\ call[s] = "moving" /\ probing[s] = {}
    /\ Settled(o)
    /\ \E i \in Candidates(Shared(o)) :
         \/ /\ LeaseOn(s, i, Without(o))
            /\ released' = released \cup {o}
            /\ ses' = [Stop(o) EXCEPT ![s] = "made"]
            /\ known' = known \cup {s}
         \/ /\ MakeFails(s, i, Without(o))
            /\ released' = released \cup {o, s}
            /\ ses' = Stop(o) /\ UNCHANGED known
    /\ UNCHANGED <<health, probing, from, work, again>>

----------------------------------------------------------------------------
(* The session and the pool's wrapper around it                             *)

\* A session starts when its caller starts it, or again from send() once it
\* ended; the wrapper refuses one whose lease is over.
MayStartAgain(s) == TRUE
MayStart(s) == s \notin released

Start(s) ==
    /\ ses[s] \in {"made", "ended"} /\ s \notin work
    /\ MayStart(s)
    /\ ses' = [ses EXCEPT ![s] = "starting"]
    /\ UNCHANGED <<leases, released, health, call, probing, from, inst, known, work, again>>

StartReturns(s) ==
    /\ ses[s] = "starting"
    /\ ses' = [ses EXCEPT ![s] = "live"]
    /\ known' = known \cup {s}
    /\ UNCHANGED <<leases, released, health, call, probing, from, inst, work, again>>

\* Nothing spawned, or the session was killed again: start() throws.
StartFails(s) ==
    /\ ses[s] = "starting"
    /\ ses' = [ses EXCEPT ![s] = "ended"]
    /\ Release(s)
    /\ UNCHANGED <<health, call, probing, from, inst, known, work, again>>

\* start() of a session that has a process throws, and the wrapper takes that
\* for a session that failed to start.
StartedAlready(s) ==
    /\ ses[s] \in Running \cup {"dying"} /\ s \notin released
    /\ Release(s)
    /\ again' = again \cup {s}
    /\ UNCHANGED <<health, call, probing, from, inst, ses, known, work>>

Kill(s) ==
    /\ ses[s] \in {"made", "dying"} \cup Running
    /\ ses' = [ses EXCEPT ![s] = "ended"]
    /\ Release(s)
    /\ UNCHANGED <<health, call, probing, from, inst, known, work, again>>

Send(s) ==
    /\ ses[s] \in Running
    /\ work' = work \cup {s}
    /\ UNCHANGED <<leases, released, health, call, probing, from, inst, ses, known, again>>

\* A result, which may come after the session was killed; what it says of the
\* instance is recorded (reportSuccess, reportFailure).
Result(s) ==
    /\ s \in work
    /\ work' = work \ {s}
    /\ \E h \in Health : health' = [health EXCEPT ![inst[s]] = h]
    /\ UNCHANGED <<leases, released, call, probing, from, inst, ses, known, again>>

\* The process is gone; session_end comes once its output was drained.
Dies(s) ==
    /\ ses[s] \in Running
    /\ ses' = [ses EXCEPT ![s] = "dying"]
    /\ UNCHANGED <<leases, released, health, call, probing, from, inst, known, work, again>>

SessionEnd(s) ==
    /\ ses[s] = "dying"
    /\ ses' = [ses EXCEPT ![s] = "ended"]
    /\ Release(s)
    /\ UNCHANGED <<health, call, probing, from, inst, known, work, again>>

\* Time passes, a session streams its limits, or the caller reports something
\* (observeLimits, reportFailure, reportSuccess).
HealthChanges(i) ==
    /\ \E h \in Health \ {health[i]} : health' = [health EXCEPT ![i] = h]
    /\ UNCHANGED <<leases, released, call, probing, from, inst, ses, known, work, again>>

----------------------------------------------------------------------------

Calls == \E s \in Sessions :
    \/ Acquire(s) \/ CallerReleases(s) \/ OpenBegins(s)
    \/ (\E o \in Sessions : MoveBegins(s, o))
    \/ Start(s) \/ StartedAlready(s) \/ Kill(s) \/ Send(s)

Answers == \E s \in Sessions :
    \/ (\E i \in Instances : ProbeEnds(s, i))
    \/ OpenEnds(s) \/ MoveRefused(s) \/ MoveEnds(s)
    \/ StartReturns(s) \/ StartFails(s) \/ Result(s) \/ Dies(s) \/ SessionEnd(s)

Next == Calls \/ Answers \/ \E i \in Instances : HealthChanges(i)

Spec == Init /\ [][Next]_vars
----------------------------------------------------------------------------
(* What the pool must get right                                             *)

\* An instance never runs more sessions than its concurrencyLimit, whatever
\* ends, restarts or moves while calls wait for their polls (acquire, _session).
RunningOn(i) == {s \in Sessions : inst[s] = i /\ ses[s] \in Running}
CapacityHeld == \A i \in Instances : Cardinality(RunningOn(i) \ again) <= Limit[i]

\* A thread that moved never runs in two places, and nothing the old session
\* was still doing can be repeated by the new one: "continuing elsewhere could
\* repeat or fork it" (continueOn).
NoFork ==
    \A s \in Sessions :
        ses[s] \in Running /\ from[s] # None
            => ses[from[s]] = "ended" /\ from[s] \notin work

\* Every lease counted against an instance can still end: it is held by a
\* caller, or by a session that has not ended (open, continueOn, _session).
NoLeak ==
    \A i \in Instances : \A s \in leases[i] : call[s] = "leased" /\ ses[s] # "ended"
=============================================================================
