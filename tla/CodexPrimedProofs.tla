-------------------------- MODULE CodexPrimedProofs --------------------------
(***************************************************************************)
(* Proofs about CodexPrimed, for any decisions, contexts and scenarios.    *)
(* First that the host, whose hedges take a slot beside their decision's,  *)
(* is a Slots.  Then its inductive invariant: where each decision is, what *)
(* it holds and what it knows of its process (DecisionsRight), and who     *)
(* uses which session and base thread (SessionsRight).  Last what follows: *)
(* that callers are told the truth, that violations cost the process, that *)
(* base threads are held as long as needed, and that slots bound turns.    *)
(***************************************************************************)
EXTENDS CodexPrimed, SlotsProofs, FunctionTheorems

SlotsStep == SlotsNext \/ UNCHANGED <<limit, slots>>

\* A decision and its hedge may hold a slot each.
LEMMA HolderSteps ==
    ASSUME NEW d \in Decisions, UNCHANGED limit,
           \/ Acquire(d) \/ Leave(d) \/ Release(d) \/ UNCHANGED slots
           \/ TryAcquire(Hedge(d)) \/ Release(Hedge(d))
    PROVE  SlotsStep
<1>1. d \in Holders /\ Hedge(d) \in Holders
  BY CodexPrimedAssumption DEF Hedge
<1> QED
  BY <1>1 DEF SlotsStep, SlotsNext, slots

LEMMA HandlersStep == ASSUME NEW d \in Decisions, Handlers(d) PROVE SlotsStep
<1>1. CASE LeavesQueue(d)
  BY <1>1, HolderSteps DEF LeavesQueue, fixed
<1>2. CASE Proceeds(d) \/ ProcessRefused(d) \/ Looks(d)
  BY <1>2, HolderSteps DEF Proceeds, ProcessRefused, Looks, Settle, fixed
<1>3. CASE Opened(d) \/ Admits(d) \/ StartAnswered(d) \/ StartUnanswered(d)
  BY <1>3, HolderSteps DEF Opened, Admits, StartAnswered, StartUnanswered, fixed
<1>4. CASE OpenRefused(d) \/ OpenFails(d) \/ AdmissionFails(d) \/ StartRefused(d) \/ StartFailed(d)
  BY <1>4, HolderSteps DEF OpenRefused, OpenFails, AdmissionFails, StartRefused, StartFailed, Finish, Settle, fixed
<1>5. CASE HedgeOpens(d) \/ HedgeWrites(d) \/ HedgeStarts(d)
  BY <1>5, HolderSteps DEF HedgeOpens, HedgeWrites, HedgeStarts, fixed
<1>6. CASE HedgeFails(d, TRUE) \/ HedgeFails(d, FALSE)
  BY <1>6, HolderSteps DEF HedgeFails, fixed
<1>7. CASE LegDecides(d, "first") \/ LegDecides(d, "hedge") \/ TimesOut(d)
  BY <1>7, HolderSteps DEF LegDecides, TimesOut, fixed
<1>8. CASE OtherStops(d) \/ OtherRecycled(d)
  BY <1>8, HolderSteps DEF OtherStops, OtherRecycled, HedgeDone, fixed
<1>9. CASE Ends(d) \/ Exits(d)
  BY <1>9, HolderSteps DEF Ends, Exits, Reports, Settle, fixed
<1> QED
  BY <1>1, <1>2, <1>3, <1>4, <1>5, <1>6, <1>7, <1>8, <1>9 DEF Handlers

\* Primers, the process and evictions have no slot.
LEMMA BackgroundStep == Background => SlotsStep
  BY DEF Background, SlotsStep, PrimerStarts, PrimerThread, PrimerCompletes, PrimerFails,
         ProcessStarts, ProcessFails, CloseKills, fixed

LEMMA EventsStep == Events => SlotsStep
<1> SUFFICES ASSUME Events PROVE SlotsStep
  OBVIOUS
<1>1. ASSUME NEW d \in Decisions, Decide(d) PROVE SlotsStep
  BY <1>1, HolderSteps DEF Decide, fixed
<1>2. ASSUME NEW d \in Decisions, GoesAway(d) PROVE SlotsStep
  BY <1>2 DEF SlotsStep, GoesAway, fixed
<1>3. ASSUME NEW x \in Warmups, Warm(x) PROVE SlotsStep
  BY <1>3 DEF SlotsStep, Warm, fixed
<1>4. ASSUME NEW l \in Branches, NEW how, TurnEnds(l, how) \/ Violates(l) PROVE SlotsStep
  BY <1>4 DEF SlotsStep, TurnEnds, Violates, fixed
<1>5. ASSUME NEW g \in Gens, ProcessLost(g) PROVE SlotsStep
  BY <1>5 DEF SlotsStep, ProcessLost, fixed
<1>6. ASSUME NEW S \in SUBSET Unused, NEW K \in SUBSET Keys, EvictIdle(S, K) PROVE SlotsStep
  BY <1>6 DEF SlotsStep, EvictIdle, fixed
<1>7. ASSUME NEW k \in Keys, Evict(k) PROVE SlotsStep
  BY <1>7 DEF SlotsStep, Evict, fixed
<1>8. CASE Close
  BY <1>8 DEF SlotsStep, SlotsNext, Close, fixed
<1> QED
  BY <1>1, <1>2, <1>3, <1>4, <1>5, <1>6, <1>7, <1>8 DEF Events

LEMMA HostSteps == ASSUME [Next]_vars PROVE [SlotsNext]_<<limit, slots>>
<1>1. CASE UNCHANGED vars
  BY <1>1 DEF vars, fixed
<1>2. CASE Next
  BY <1>2, HandlersStep, BackgroundStep, EventsStep DEF Next, SlotsStep
<1> QED
  BY <1>1, <1>2

\* The host implements the semaphore of primed.ts, hedges included.
THEOREM ImplementsSlots == Spec => SlotsSpec
<1>1. Init => SlotsInit
  BY DEF Init
<1>2. [Next]_vars => [SlotsNext]_<<limit, slots>>
  BY HostSteps
<1> QED
  BY <1>1, <1>2, PTL DEF Spec, SlotsSpec

\* However decisions, hedges and recycled processes cross, the slots are conserved: a
\* hedge takes one only if it is free and never in front of a waiter (_turn, tryAcquire).
THEOREM HostSlotsHeld == Spec => []SlotsConserved
  BY ImplementsSlots, SlotsHeld, PTL
----------------------------------------------------------------------------
(* The inductive invariant                                                  *)

Early == {"idle", "slot", "process"}
Using == {"opening", "admitting", "starting", "failing", "racing", "stopping", "recycling", "ending", "exiting"}

\* Where a decision is suspended says what its caller was told, what it holds, and what is
\* known of its process.
Knows(d) ==
    /\ phase[d] = "idle" => told[d] = "none"
    /\ phase[d] \in {"slot", "process"} \cup Using => told[d] = "pending"
    /\ phase[d] = "end" => told[d] \in {"answered", "unsent", "settled", "unsettled"}
    /\ phase[d] \in Early => found[d] = Nobody
    /\ phase[d] \in {"process"} \cup Using => at[d] # 0
    /\ phase[d] \in Early \cup {"opening", "admitting", "starting", "failing", "racing"} =>
          chosen[d] = "first" /\ fine[d] = {}
    /\ phase[d] = "stopping" => fine[d] = {}
    /\ phase[d] \in {"recycling", "ending"} => "chosen" \notin fine[d]
    /\ phase[d] \in {"failing", "recycling", "exiting"} => proc[at[d]] # "up"
    /\ phase[d] = "ending" /\ "others" \notin fine[d] => proc[at[d]] # "up"

\* A decision has its slot to the end, and its hedge as long as it starts or races.
SlotKnown(d) ==
    /\ grant[d] = "waiting" => phase[d] = "slot"
    /\ phase[d] \in {"process"} \cup Using => grant[d] = "held"
    /\ grant[Hedge(d)] # "waiting"
    /\ leg[Hedge(d)].st \in {"opening", "starting"} => grant[Hedge(d)] = "held"
    /\ phase[d] \in {"racing", "stopping", "recycling"} /\ leg[Hedge(d)].st \in {"going", "read"} =>
          grant[Hedge(d)] = "held"

\* Which branches there are.
Branched(d) ==
    /\ phase[d] \in Early \cup {"opening"} => leg[First(d)].st = "none"
    /\ phase[d] = "admitting" => leg[First(d)].st = "open"
    /\ phase[d] \in {"starting", "failing"} => leg[First(d)].st = "starting"
    /\ phase[d] \in {"racing", "stopping", "recycling"} => leg[First(d)].st \in {"going", "read"}
    /\ phase[d] = "end" => /\ leg[First(d)].st \in {"none", "over"} /\ leg[Hedge(d)].st \notin {"going", "read"}
                           /\ chosen[d] = "hedge" => leg[Hedge(d)].st = "over"
    /\ phase[d] \in Early \cup {"opening", "admitting", "starting", "failing"} => leg[Hedge(d)].st = "none"
    /\ phase[d] = "racing" => leg[Hedge(d)].st \notin {"open", "over"}
    /\ phase[d] \in {"stopping", "recycling"} => leg[Hedge(d)].st \in {"going", "read"}
    /\ phase[d] \in {"ending", "exiting"} =>
          IF chosen[d] = "first"
          THEN leg[First(d)].st \in {"going", "read"} /\ leg[Hedge(d)].st \notin {"going", "read"}
          ELSE leg[Hedge(d)].st \in {"going", "read"} /\ leg[First(d)].st = "over"

\* What is known of a branch, whose decision is d, and its turn.
TurnKnown(d, l) ==
    /\ leg[l].st \in {"none", "refused", "opening", "open"} => leg[l].run = "no"
    /\ leg[l].st \in {"none", "refused", "opening"} => ~leg[l].lost
    /\ leg[l].run # "no" => at[d] # 0
    /\ leg[l].lost => at[d] # 0 /\ proc[at[d]] # "up"

\* Which turns are over when a decision reports, and before.
Over(d, l) == leg[l].run = "running" => leg[l].st \in {"starting", "failed"} \/ proc[at[d]] # "up"
Seen(d, l) == leg[l].st # "starting" /\ leg[l].run # "no" /\ (leg[l].bad \/ leg[l].st = "failed") =>
                 proc[at[d]] # "up"
Finished(d) ==
    /\ phase[d] \in {"ending", "exiting"} => Over(d, Other(d))
    /\ phase[d] = "exiting" /\ "chosen" \in fine[d] => Ended(<<chosen[d], d>>)
    /\ phase[d] = "end" => \A l \in {First(d), Hedge(d)} : Over(d, l) /\ Seen(d, l)
    /\ told[d] = "unsent" => leg[First(d)].run = "no" /\ leg[Hedge(d)].st = "none"
    /\ told[d] = "answered" => leg[<<chosen[d], d>>].run = "completed"
    /\ told[d] = "settled" /\ leg[<<chosen[d], d>>].run = "running" => proc[at[d]] = "gone"

Right(d) ==
    /\ Knows(d) /\ SlotKnown(d) /\ Branched(d) /\ Finished(d)
    /\ TurnKnown(d, First(d)) /\ TurnKnown(d, Hedge(d))
DecisionsRight == \A d \in Decisions : Right(d)

ProcessRight ==
    /\ conn \in {0, gen} /\ starting \in {0, gen} /\ (conn = 0 \/ starting = 0)
    /\ conn # 0 => proc[conn] = "up"
    /\ \A x \in Askers : at[x] <= gen

\* A primer runs on a process that started, and its session is nobody's before it is over.
Priming(x) ==
    /\ at[x] = 0 => primer[x].at = "none"
    /\ x \in Decisions /\ phase[x] \in Early => primer[x].at = "none"
    /\ primer[x].at # "none" => at[x] # starting
    /\ sess[x].gen # 0 => sess[x].gen = at[x] /\ primer[x].at \in {"turn", "end"}
    /\ primer[x].at = "turn" => sess[x].gen = at[x] /\ (conn = at[x] => x \in threads)
    /\ primer[x].at # "end" => /\ ~sess[x].stale /\ sess[x].inUse = 0
                               /\ \A k \in Keys : sessions[k] # x
                               /\ \A d \in Decisions : found[d] # x
PrimersRight == \A x \in Askers : Priming(x)

Serves(s) == conn # 0 /\ sess[s].gen = conn
MapRight ==
    \A k \in Keys : sessions[k] # Nobody =>
        /\ Key[sessions[k]] = k /\ ~sess[sessions[k]].stale /\ sess[sessions[k]].gen # 0
        /\ Serves(sessions[k]) => sessions[k] \in threads

\* The references of decisions are counted; their sessions keep their threads.
Users(s) == {d \in Decisions : phase[d] \in Using /\ found[d] = s}
Counted  == \A s \in Askers : sess[s].inUse = Cardinality(Users(s))
HeldRight ==
    \A s \in Askers : Users(s) # {} /\ Serves(s) /\ ~closed => s \in threads \/ sess[s].evicted
ThreadsUsed ==
    \A s \in threads : Serves(s) /\ ~closed =>
        \/ s \in InMap(sessions)
        \/ sess[s].stale /\ Users(s) # {}
        \/ primer[s].at = "turn"

SessionsRight == PrimersRight /\ MapRight /\ Counted /\ HeldRight /\ ThreadsUsed

Inductive == TypeOK /\ SlotsConserved /\ ProcessRight /\ DecisionsRight /\ SessionsRight

----------------------------------------------------------------------------
(* What holds of the constants                                              *)

LEMMA Apart ==
    /\ Nobody \notin Askers /\ Nobody \notin Decisions
    /\ Decisions \subseteq Askers /\ Warmups \subseteq Askers /\ Decisions \cap Warmups = {}
    /\ \A d \in Decisions : /\ d \in Holders /\ Hedge(d) \in Holders /\ Hedge(d) \notin Decisions
                            /\ First(d) \in Branches /\ Hedge(d) \in Branches /\ First(d) # Hedge(d)
    /\ \A d, e \in Decisions : /\ d # e => First(d) # First(e) /\ Hedge(d) # Hedge(e)
                               /\ First(d) # Hedge(e) /\ d # Hedge(e)
<1>1. \A d \in Decisions : Hedge(d) \in {"hedge"} \X Decisions
  BY DEF Hedge
<1> QED
  BY <1>1, CodexPrimedAssumption DEF Askers, Branches, First, Hedge

LEMMA BranchOf ==
    ASSUME NEW l \in Branches
    PROVE  /\ l[2] \in Decisions /\ (l = First(l[2]) \/ l = Hedge(l[2]))
           /\ \A d \in Decisions : l = First(d) \/ l = Hedge(d) => l[2] = d
  BY DEF Branches, First, Hedge

LEMMA KeyTyped == ASSUME spec \in Specs, NEW x \in Askers PROVE Key[x] \in Keys /\ Hash[x] \in Hashes
  BY DEF Key, Keys, Hash, Hashes

----------------------------------------------------------------------------
(* What a step does to the slots                                            *)

GrantKept(h) == grant'[h] = grant[h] \/ (grant[h] = "waiting" /\ grant'[h] = "held")

LEMMA ReleaseGrants ==
    ASSUME SlotsTypeOK, SlotsConserved, NEW h \in Holders, Release(h)
    PROVE  grant'[h] = "over" /\ \A g \in Holders \ {h} : GrantKept(g)
<1>1. CASE waiters = <<>>
  BY <1>1 DEF Release, SlotsTypeOK, GrantKept
<1>2. CASE waiters # <<>>
  <2>1. Head(waiters) \in Holders /\ 1 \in DOMAIN waiters /\ Head(waiters) = waiters[1]
    BY <1>2 DEF SlotsTypeOK
  <2>2. grant[Head(waiters)] = "waiting"
    BY <2>1 DEF SlotsConserved
  <2> QED
    BY <1>2, <2>1, <2>2 DEF Release, SlotsTypeOK, GrantKept
<1> QED
  BY <1>1, <1>2

LEMMA AcquireGrants ==
    ASSUME SlotsTypeOK, NEW h \in Holders, Acquire(h)
    PROVE  grant'[h] \in {"held", "waiting"} /\ \A g \in Holders \ {h} : GrantKept(g)
  BY DEF Acquire, SlotsTypeOK, GrantKept

LEMMA TryAcquireGrants ==
    ASSUME SlotsTypeOK, NEW h \in Holders, TryAcquire(h)
    PROVE  grant'[h] \in {"held", "none"} /\ \A g \in Holders \ {h} : GrantKept(g)
  BY DEF TryAcquire, SlotsTypeOK, GrantKept

LEMMA LeaveGrants ==
    ASSUME SlotsTypeOK, NEW h \in Holders, Leave(h)
    PROVE  grant'[h] = "over" /\ \A g \in Holders \ {h} : GrantKept(g)
  BY DEF Leave, SlotsTypeOK, GrantKept

LEMMA GrantsSame == ASSUME UNCHANGED slots, NEW h \in Holders PROVE GrantKept(h)
  BY DEF slots, GrantKept

----------------------------------------------------------------------------
(* What a step does to the process, and to the branches on it               *)

ProcMoves ==
    \A g \in 1 .. gen : /\ proc[g] # "up" => proc'[g] # "up"
                        /\ proc[g] = "gone" => proc'[g] = "gone"

\* A branch may only be told that its process is lost.
LegKept(d, l) ==
    /\ leg'[l].st = leg[l].st /\ leg'[l].run = leg[l].run /\ leg'[l].bad = leg[l].bad
    /\ leg'[l].lost => leg[l].lost \/ (Tracked(l) /\ at[d] # 0 /\ proc'[at[d]] # "up")
LegsKept(d) == LegKept(d, First(d)) /\ LegKept(d, Hedge(d))

LEMMA ProcessQuiet ==
    ASSUME ProcessTypeOK, ProcessRight, UNCHANGED <<process, at>>
    PROVE  ProcessRight' /\ ProcMoves /\ ProcessTypeOK'
  BY DEF ProcessRight, ProcMoves, process, ProcessTypeOK

LEMMA LegsSame == ASSUME UNCHANGED leg, NEW d \in Decisions PROVE LegsKept(d)
  BY DEF LegsKept, LegKept

LEMMA WokenLegs ==
    ASSUME LegTypeOK, NEW g \in Gens, leg' = Woken(g)
    PROVE  /\ LegTypeOK'
           /\ \A l \in Branches : /\ leg'[l].st = leg[l].st /\ leg'[l].run = leg[l].run /\ leg'[l].bad = leg[l].bad
                                  /\ leg'[l].lost => leg[l].lost \/ (Tracked(l) /\ at[l[2]] = g)
<1>1. \A l \in Branches : leg'[l] = leg[l] \/ (Tracked(l) /\ at[l[2]] = g /\ leg'[l] = [leg[l] EXCEPT !.lost = TRUE])
  BY DEF Woken
<1>2. \A l \in Branches : /\ leg'[l].st = leg[l].st /\ leg'[l].run = leg[l].run /\ leg'[l].bad = leg[l].bad
                          /\ leg'[l].lost => leg[l].lost \/ (Tracked(l) /\ at[l[2]] = g)
  BY <1>1 DEF LegTypeOK
<1>3. leg' = [l \in Branches |-> leg'[l]]
  BY DEF Woken
<1>4. LegTypeOK'
  BY <1>1, <1>3 DEF LegTypeOK
<1> QED
  BY <1>2, <1>4

LEMMA RecycleMoves ==
    ASSUME ProcessTypeOK, LegTypeOK, ProcessRight, NEW g \in 1 .. gen, Recycle(g), UNCHANGED at
    PROVE  /\ ProcessRight' /\ ProcMoves /\ ProcessTypeOK' /\ LegTypeOK'
           /\ proc'[g] # "up" /\ \A d \in Decisions : LegsKept(d)
<1>. g \in Gens /\ g # 0 /\ \A h \in 1 .. gen : h \in Gens
  BY CodexPrimedAssumption DEF ProcessTypeOK, Gens
<1>0. \A h \in Gens : proc'[h] = IF h = g /\ proc[g] = "up" THEN "killed" ELSE proc[h]
  BY DEF Recycle, ProcessTypeOK
<1>1. proc'[g] # "up" /\ ProcMoves /\ ProcessTypeOK'
  <2>1. proc'[g] # "up" /\ ProcMoves
    BY <1>0 DEF Recycle, ProcessTypeOK, ProcMoves
  <2>2. ProcessTypeOK'
    BY CodexPrimedAssumption DEF Recycle, ProcessTypeOK
  <2> QED
    BY <2>1, <2>2
<1>2. ProcessRight'
  BY DEF Recycle, ProcessRight, ProcessTypeOK, Gens
<1>3. \A d \in Decisions : LegsKept(d)
  BY <1>1, WokenLegs, BranchOf, Apart DEF Recycle, LegsKept, LegKept
<1> QED
  BY <1>1, <1>2, <1>3, WokenLegs DEF Recycle

LEMMA LostMoves ==
    ASSUME ProcessTypeOK, LegTypeOK, ProcessRight, NEW g \in Gens, ProcessLost(g)
    PROVE  /\ ProcessRight' /\ ProcMoves /\ ProcessTypeOK' /\ LegTypeOK'
           /\ \A d \in Decisions : LegsKept(d)
<1>. g # 0 /\ \A h \in 1 .. gen : h \in Gens
  BY CodexPrimedAssumption DEF ProcessTypeOK, Gens
<1>0. UNCHANGED at /\ \A h \in Gens : proc'[h] = IF h = g THEN "gone" ELSE proc[h]
  BY DEF ProcessLost, deciding, ProcessTypeOK
<1>1. proc'[g] # "up" /\ ProcMoves /\ ProcessTypeOK'
  <2>1. proc'[g] # "up" /\ ProcMoves
    BY <1>0 DEF ProcessLost, ProcessTypeOK, ProcMoves
  <2>2. ProcessTypeOK'
    BY CodexPrimedAssumption DEF ProcessLost, ProcessTypeOK
  <2> QED
    BY <2>1, <2>2
<1>2. ProcessRight'
  BY <1>0 DEF ProcessLost, ProcessRight, ProcessTypeOK, Gens
<1>3. \A d \in Decisions : LegsKept(d)
  BY <1>1, WokenLegs, BranchOf, Apart DEF ProcessLost, LegsKept, LegKept
<1> QED
  BY <1>1, <1>2, <1>3, WokenLegs DEF ProcessLost

LEMMA GetsMoves ==
    ASSUME ProcessTypeOK, ProcessRight, at \in [Askers -> 0 .. MaxGens], NEW x \in Askers, GetsProcess(x)
    PROVE  /\ ProcessRight' /\ ProcMoves /\ ProcessTypeOK'
           /\ at' \in [Askers -> 0 .. MaxGens] /\ at'[x] # 0 /\ \A y \in Askers \ {x} : at'[y] = at[y]
<1>. gen \in Nat /\ MaxGens \in Nat
  BY CodexPrimedAssumption DEF ProcessTypeOK
<1>1. CASE Reuses # 0
  BY <1>1 DEF GetsProcess, Reuses, ProcessTypeOK, ProcessRight, ProcMoves, process
<1>2. CASE Reuses = 0
  <2>1. /\ gen < MaxGens /\ gen' = gen + 1 /\ starting' = gen + 1 /\ at' = [at EXCEPT ![x] = gen + 1]
        /\ proc' = [proc EXCEPT ![gen + 1] = "up"] /\ UNCHANGED <<conn, failed>> /\ conn = 0
    BY <1>2 DEF GetsProcess, Reuses
  <2>2. ProcMoves /\ ProcessTypeOK' /\ at' \in [Askers -> 0 .. MaxGens]
    BY <2>1 DEF ProcessTypeOK, ProcMoves, Gens
  <2>3. ProcessRight'
    BY <2>1 DEF ProcessRight, ProcessTypeOK
  <2> QED
    BY <2>1, <2>2, <2>3
<1> QED
  BY <1>1, <1>2

LEMMA ServiceMoves ==
    ASSUME ProcessTypeOK, ProcessRight, ProcessStarts \/ ProcessFails \/ CloseKills
    PROVE  /\ ProcessRight' /\ ProcMoves /\ ProcessTypeOK'
           /\ \A d \in Decisions : LegsKept(d)
<1>. UNCHANGED <<at, leg>> /\ \A d \in Decisions : LegsKept(d)
  BY LegsSame DEF ProcessStarts, ProcessFails, CloseKills, deciding
<1>. gen \in 0 .. MaxGens /\ MaxGens \in Nat
  BY CodexPrimedAssumption DEF ProcessTypeOK
<1>1. CASE ProcessStarts
  BY <1>1 DEF ProcessStarts, ProcessTypeOK, ProcessRight, ProcMoves, Gens
<1>2. CASE ProcessFails
  BY <1>2 DEF ProcessFails, ProcessTypeOK, ProcessRight, ProcMoves, Gens
<1>3. CASE CloseKills
  BY <1>3 DEF CloseKills, ProcessTypeOK, ProcessRight, ProcMoves, Gens
<1> QED
  BY <1>1, <1>2, <1>3

----------------------------------------------------------------------------
(* A decision that a step leaves where it was                               *)

PlaceKept(d) ==
    /\ phase'[d] = phase[d] /\ told'[d] = told[d] /\ at'[d] = at[d] /\ found'[d] = found[d]
    /\ chosen'[d] = chosen[d] /\ fine'[d] = fine[d]
Steady(d) == PlaceKept(d) /\ LegsKept(d) /\ GrantKept(d) /\ GrantKept(Hedge(d))

LEMMA AtRange ==
    ASSUME PhaseTypeOK, ProcessTypeOK, ProcessRight, NEW d \in Decisions
    PROVE  /\ at[d] \in Nat /\ gen \in Nat /\ at[d] <= gen /\ at[d] <= MaxGens /\ gen <= MaxGens
           /\ at[d] # 0 => at[d] \in 1 .. gen /\ at[d] \in Gens
  BY Apart, CodexPrimedAssumption DEF PhaseTypeOK, ProcessTypeOK, ProcessRight, Gens

LEMMA ProcKept ==
    ASSUME PhaseTypeOK, ProcessTypeOK, ProcessRight, ProcMoves, NEW d \in Decisions, at[d] # 0
    PROVE  /\ proc[at[d]] # "up" => proc'[at[d]] # "up"
           /\ proc[at[d]] = "gone" => proc'[at[d]] = "gone"
  BY AtRange DEF ProcMoves

LEMMA SteadyStays ==
    ASSUME PhaseTypeOK, ProcessTypeOK, ProcessRight, ProcMoves,
           NEW d \in Decisions, Right(d), Steady(d)
    PROVE  Right(d)'
<1>. DEFINE F == First(d)
            H == Hedge(d)
<1>1. PlaceKept(d) /\ LegKept(d, F) /\ LegKept(d, H) /\ GrantKept(d) /\ GrantKept(H)
  BY DEF Steady, LegsKept
<1>2. at[d] # 0 => /\ proc[at[d]] # "up" => proc'[at[d]] # "up"
                   /\ proc[at[d]] = "gone" => proc'[at[d]] = "gone"
  BY ProcKept
<1>3. F' = F /\ H' = H /\ <<chosen[d], d>>' = <<chosen[d], d>> /\ Other(d)' = Other(d)
      /\ <<chosen[d], d>> \in {F, H} /\ Other(d) \in {F, H}
  BY <1>1 DEF PlaceKept, Other, First, Hedge, PhaseTypeOK
<1>. HIDE DEF F, H
<1>4. Knows(d)'
  BY <1>1, <1>2 DEF Right, Knows, PlaceKept, Early, Using
<1>5. SlotKnown(d)'
  BY <1>1 DEF Right, SlotKnown, PlaceKept, GrantKept, LegKept, Using, H
<1>6. Branched(d)'
  BY <1>1 DEF Right, Branched, PlaceKept, LegKept, Early, F, H
<1>7. TurnKnown(d, F)' /\ TurnKnown(d, H)'
  BY <1>1, <1>2 DEF Right, TurnKnown, PlaceKept, LegKept, Tracked, F, H
<1>8. Finished(d)'
  <2>1. ASSUME NEW l \in {F, H}
        PROVE  /\ TurnKnown(d, l) /\ LegKept(d, l)
               /\ Over(d, l) => Over(d, l)'
               /\ Seen(d, l) => Seen(d, l)'
               /\ Ended(l) => Ended(l)'
    BY <1>1, <1>2 DEF Right, TurnKnown, PlaceKept, LegKept, F, H, Over, Seen, Ended
  <2> QED
    BY <1>1, <1>2, <1>3, <2>1 DEF Right, Finished, PlaceKept, LegKept, F, H, TurnKnown
<1> QED
  BY <1>4, <1>5, <1>6, <1>7, <1>8 DEF Right, F, H, First, Hedge

\* The decisions and the process: what every step is shown to keep.
Host == PhaseTypeOK /\ LegTypeOK /\ ProcessTypeOK /\ ProcessRight /\ DecisionsRight

LEMMA AllSteady ==
    ASSUME Host, ProcessTypeOK', ProcessRight', ProcMoves, PhaseTypeOK', LegTypeOK',
           \A d \in Decisions : Steady(d)
    PROVE  Host'
  BY SteadyStays DEF Host, DecisionsRight

LEMMA OneMoves ==
    ASSUME Host, ProcessTypeOK', ProcessRight', ProcMoves, PhaseTypeOK', LegTypeOK',
           NEW d \in Decisions, Right(d)',
           \A e \in Decisions \ {d} : PlaceKept(e) /\ LegsKept(e),
           \A h \in Holders \ {d, Hedge(d)} : GrantKept(h)
    PROVE  Host'
<1>1. ASSUME NEW e \in Decisions \ {d} PROVE Right(e)'
  BY <1>1, SteadyStays, Apart DEF Host, DecisionsRight, Steady
<1> QED
  BY <1>1 DEF Host, DecisionsRight

\* The other branch of a decision, and those of the others, are left alone.
LEMMA OneBranch ==
    ASSUME NEW d \in Decisions, NEW l \in {First(d), Hedge(d)},
           \A m \in Branches \ {l} : leg'[m] = leg[m]
    PROVE  /\ \A e \in Decisions \ {d} : LegsKept(e)
           /\ \A m \in {First(d), Hedge(d)} \ {l} : leg'[m] = leg[m]
  BY Apart DEF LegsKept, LegKept

----------------------------------------------------------------------------
(* decide(), up to its branch                                               *)

LEMMA EarlyMoves ==
    ASSUME Host, ProcessTypeOK', ProcessRight', ProcMoves, PhaseTypeOK', UNCHANGED <<leg, chosen, fine>>,
           NEW d \in Decisions, phase[d] \in Early,
           \A e \in Decisions \ {d} : PlaceKept(e), \A h \in Holders \ {d} : GrantKept(h),
           \/ phase'[d] = "end" /\ told'[d] = "unsent" /\ grant'[d] # "waiting"
           \/ phase'[d] = "slot" /\ told'[d] = "pending" /\ found'[d] = Nobody
           \/ /\ phase'[d] \in {"process", "opening"} /\ told'[d] = "pending" /\ at'[d] # 0 /\ grant'[d] = "held"
              /\ phase'[d] = "process" => found'[d] = Nobody
    PROVE  Host'
<1>1. LegTypeOK' /\ \A e \in Decisions : LegsKept(e)
  BY LegsSame DEF Host, LegTypeOK
<1>2. Right(d)'
  <2>1. Right(d) /\ GrantKept(Hedge(d))
    BY Apart DEF Host, DecisionsRight
  <2>2. Knows(d)' /\ Branched(d)'
    BY <2>1 DEF Right, Knows, Branched, Early, Using, First, Hedge
  <2>3. SlotKnown(d)'
    BY <2>1 DEF Right, SlotKnown, Branched, GrantKept, Early, Using, Hedge
  <2>4. Finished(d)' /\ TurnKnown(d, First(d))' /\ TurnKnown(d, Hedge(d))'
    BY <2>1 DEF Right, Finished, Over, Seen, TurnKnown, Branched, Early, First, Hedge
  <2> QED
    BY <2>2, <2>3, <2>4 DEF Right
<1> QED
  BY <1>1, <1>2, OneMoves

LEMMA DecideKeeps ==
    ASSUME Host, SlotsTypeOK, NEW d \in Decisions, Decide(d)
    PROVE  Host'
<1>1. UNCHANGED <<gone, at, found, chosen, fine, leg, process>> /\ phase[d] = "idle" /\ Right(d)
  BY DEF Decide, Host, DecisionsRight
<1>2. ProcessRight' /\ ProcMoves /\ ProcessTypeOK'
  BY <1>1, ProcessQuiet DEF Host
<1>3. /\ PhaseTypeOK' /\ \A e \in Decisions \ {d} : PlaceKept(e)
      /\ \A h \in Holders \ {d} : GrantKept(h)
      /\ \/ phase'[d] = "end" /\ told'[d] = "unsent" /\ grant'[d] = grant[d]
         \/ phase'[d] = "slot" /\ told'[d] = "pending"
  <2>1. CASE closed
    BY <1>1, <2>1 DEF Decide, Host, PhaseTypeOK, PlaceKept, slots, GrantKept
  <2>2. CASE ~closed
    BY <1>1, <2>2, AcquireGrants, Apart DEF Decide, Host, PhaseTypeOK, PlaceKept
  <2> QED
    BY <2>1, <2>2
<1>4. phase[d] \in Early /\ found'[d] = Nobody /\ grant[d] # "waiting"
  BY <1>1 DEF Right, Knows, SlotKnown, Early
<1> QED
  BY <1>1, <1>2, <1>3, <1>4, EarlyMoves

LEMMA LeavesKeeps ==
    ASSUME Host, SlotsTypeOK, NEW d \in Decisions, LeavesQueue(d)
    PROVE  Host'
<1>1. UNCHANGED <<gone, at, found, chosen, fine, leg, process>> /\ phase[d] \in Early
  BY DEF LeavesQueue, Early
<1>2. ProcessRight' /\ ProcMoves /\ ProcessTypeOK'
  BY <1>1, ProcessQuiet DEF Host
<1>3. /\ PhaseTypeOK' /\ \A e \in Decisions \ {d} : PlaceKept(e)
      /\ \A h \in Holders \ {d} : GrantKept(h)
      /\ phase'[d] = "end" /\ told'[d] = "unsent" /\ grant'[d] = "over"
  BY <1>1, LeaveGrants, Apart DEF LeavesQueue, Host, PhaseTypeOK, PlaceKept
<1> QED
  BY <1>1, <1>2, <1>3, EarlyMoves

\* A decision that ends here reports and lets go of its slot.
LEMMA SettleEffect ==
    ASSUME SlotsTypeOK, SlotsConserved, NEW d \in Decisions, NEW what, Settle(d, what)
    PROVE  /\ phase' = [phase EXCEPT ![d] = "end"] /\ told' = [told EXCEPT ![d] = what]
           /\ grant'[d] = "over" /\ \A h \in Holders \ {d} : GrantKept(h)
  BY ReleaseGrants, Apart DEF Settle

LEMMA ProceedsKeeps ==
    ASSUME Host, SlotsTypeOK, SlotsConserved, NEW d \in Decisions, Proceeds(d)
    PROVE  Host'
<1>1. UNCHANGED <<gone, found, chosen, fine, leg>> /\ phase[d] = "slot" /\ Right(d) /\ grant[d] = "held"
  BY DEF Proceeds, Host, DecisionsRight
<1>2. phase[d] \in Early /\ found'[d] = Nobody
  BY <1>1 DEF Right, Knows, Early
<1>3. CASE d \in gone \/ closed \/ (Reuses = 0 /\ gen = MaxGens)
  <2>1. Settle(d, "unsent") /\ UNCHANGED <<at, process>>
    BY <1>3 DEF Proceeds
  <2>2. ProcessRight' /\ ProcMoves /\ ProcessTypeOK'
    BY <2>1, ProcessQuiet DEF Host
  <2>3. /\ PhaseTypeOK' /\ \A e \in Decisions \ {d} : PlaceKept(e)
        /\ \A h \in Holders \ {d} : GrantKept(h)
        /\ phase'[d] = "end" /\ told'[d] = "unsent" /\ grant'[d] = "over"
    BY <1>1, <2>1, SettleEffect DEF Host, PhaseTypeOK, PlaceKept
  <2> QED
    BY <1>1, <1>2, <2>2, <2>3, EarlyMoves
<1>4. CASE ~(d \in gone \/ closed \/ (Reuses = 0 /\ gen = MaxGens))
  <2>1. GetsProcess(d) /\ phase' = [phase EXCEPT ![d] = "process"] /\ UNCHANGED <<slots, told>>
    BY <1>4 DEF Proceeds
  <2>2. /\ ProcessRight' /\ ProcMoves /\ ProcessTypeOK'
        /\ at' \in [Askers -> 0 .. MaxGens] /\ at'[d] # 0 /\ \A y \in Askers \ {d} : at'[y] = at[y]
    BY <2>1, GetsMoves, Apart DEF Host, PhaseTypeOK
  <2>3. /\ PhaseTypeOK' /\ \A e \in Decisions \ {d} : PlaceKept(e)
        /\ \A h \in Holders \ {d} : GrantKept(h)
        /\ phase'[d] = "process" /\ told'[d] = "pending" /\ grant'[d] = "held"
    BY <1>1, <2>1, <2>2, Apart DEF Host, PhaseTypeOK, PlaceKept, GrantKept, slots, Right, Knows, Using
  <2> QED
    BY <1>1, <1>2, <2>2, <2>3, EarlyMoves
<1> QED
  BY <1>3, <1>4

LEMMA RefusedKeeps ==
    ASSUME Host, SlotsTypeOK, SlotsConserved, NEW d \in Decisions, ProcessRefused(d)
    PROVE  Host'
<1>1. /\ UNCHANGED <<gone, at, found, chosen, fine, leg, process>> /\ phase[d] \in Early
      /\ Settle(d, "unsent")
  BY DEF ProcessRefused, Early
<1>2. ProcessRight' /\ ProcMoves /\ ProcessTypeOK'
  BY <1>1, ProcessQuiet DEF Host
<1>3. /\ PhaseTypeOK' /\ \A e \in Decisions \ {d} : PlaceKept(e)
      /\ \A h \in Holders \ {d} : GrantKept(h)
      /\ phase'[d] = "end" /\ told'[d] = "unsent" /\ grant'[d] = "over"
  BY <1>1, SettleEffect DEF Host, PhaseTypeOK, PlaceKept
<1> QED
  BY <1>1, <1>2, <1>3, EarlyMoves

LEMMA LooksKeeps ==
    ASSUME Host, SlotsTypeOK, SlotsConserved, sessions \in [Keys -> Askers \cup {Nobody}], spec \in Specs,
           NEW d \in Decisions, Looks(d)
    PROVE  Host'
<1>1. UNCHANGED <<gone, at, chosen, fine, leg, process>> /\ phase[d] = "process" /\ Right(d)
  BY DEF Looks, Host, DecisionsRight
<1>2. ProcessRight' /\ ProcMoves /\ ProcessTypeOK'
  BY <1>1, ProcessQuiet DEF Host
<1>3. phase[d] \in Early /\ at[d] # 0 /\ grant[d] = "held" /\ told[d] = "pending"
  BY <1>1 DEF Right, Knows, SlotKnown, Early
<1>4. sessions[Key[d]] \in Askers \cup {Nobody}
  BY KeyTyped, Apart
<1>5. \/ found' = found
      \/ found' = [found EXCEPT ![d] = sessions[Key[d]]]
  BY DEF Looks
<1>6. found' \in [Decisions -> Askers \cup {Nobody}] /\ \A e \in Decisions \ {d} : found'[e] = found[e]
  BY <1>4, <1>5 DEF Host, PhaseTypeOK
<1>7. CASE d \in gone
  <2>1. Settle(d, "unsent")
    BY <1>7 DEF Looks
  <2>2. /\ PhaseTypeOK' /\ \A e \in Decisions \ {d} : PlaceKept(e)
        /\ \A h \in Holders \ {d} : GrantKept(h)
        /\ phase'[d] = "end" /\ told'[d] = "unsent" /\ grant'[d] = "over"
    BY <1>1, <1>6, <2>1, SettleEffect DEF Host, PhaseTypeOK, PlaceKept
  <2> QED
    BY <1>1, <1>2, <1>3, <2>2, EarlyMoves
<1>8. CASE d \notin gone
  <2>1. phase' = [phase EXCEPT ![d] = "opening"] /\ UNCHANGED <<slots, told>>
    BY <1>8 DEF Looks
  <2>2. /\ PhaseTypeOK' /\ \A e \in Decisions \ {d} : PlaceKept(e)
        /\ \A h \in Holders \ {d} : GrantKept(h)
        /\ phase'[d] = "opening" /\ told'[d] = "pending" /\ at'[d] # 0 /\ grant'[d] = "held"
    BY <1>1, <1>3, <1>6, <2>1 DEF Host, PhaseTypeOK, PlaceKept, slots, GrantKept
  <2> QED
    BY <1>1, <1>2, <1>3, <2>2, EarlyMoves
<1> QED
  BY <1>7, <1>8

----------------------------------------------------------------------------
(* Its branch, up to the turn                                               *)

\* What EXCEPT makes of one branch.
LEMMA ForgottenLegs ==
    ASSUME LegTypeOK, NEW l \in Branches, leg' = Forgotten(l)
    PROVE  /\ LegTypeOK' /\ \A m \in Branches \ {l} : leg'[m] = leg[m]
           /\ leg'[l].st = IF leg[l].st = "none" THEN "none" ELSE "over"
           /\ leg'[l].run = leg[l].run /\ leg'[l].bad = leg[l].bad /\ leg'[l].lost = leg[l].lost
  BY DEF Forgotten, LegTypeOK

LEMMA LegSet ==
    ASSUME LegTypeOK, NEW l \in Branches,
           NEW st \in {"none", "refused", "opening", "open", "starting", "going", "read", "failed", "over"},
           leg' = [leg EXCEPT ![l].st = st]
    PROVE  /\ LegTypeOK' /\ \A m \in Branches \ {l} : leg'[m] = leg[m]
           /\ leg'[l].st = st
           /\ leg'[l].run = leg[l].run /\ leg'[l].bad = leg[l].bad /\ leg'[l].lost = leg[l].lost
  BY DEF LegTypeOK

LEMMA LegRuns ==
    ASSUME LegTypeOK, NEW l \in Branches,
           NEW st \in {"none", "refused", "opening", "open", "starting", "going", "read", "failed", "over"},
           NEW run \in {"no", "running", "completed", "failed", "interrupted"},
           leg' = [leg EXCEPT ![l].st = st, ![l].run = run]
    PROVE  /\ LegTypeOK' /\ \A m \in Branches \ {l} : leg'[m] = leg[m]
           /\ leg'[l].st = st /\ leg'[l].run = run
           /\ leg'[l].bad = leg[l].bad /\ leg'[l].lost = leg[l].lost
  BY DEF LegTypeOK

\* The first branch goes on while there is no other.
LEMMA FirstMoves ==
    ASSUME Host, UNCHANGED <<slots, told, at, found, chosen, fine, process>>, NEW d \in Decisions, LegTypeOK',
           phase[d] \in {"opening", "admitting", "starting"},
           \A m \in Branches \ {First(d)} : leg'[m] = leg[m],
           leg'[First(d)].bad = leg[First(d)].bad /\ leg'[First(d)].lost = leg[First(d)].lost,
           \/ /\ phase[d] = "opening" /\ phase' = [phase EXCEPT ![d] = "admitting"]
              /\ leg'[First(d)].st = "open" /\ leg'[First(d)].run = leg[First(d)].run
           \/ /\ phase[d] = "admitting" /\ phase' = [phase EXCEPT ![d] = "starting"]
              /\ leg'[First(d)].st = "starting" /\ leg'[First(d)].run = "running"
           \/ /\ phase[d] = "starting" /\ phase' = [phase EXCEPT ![d] = "racing"]
              /\ leg'[First(d)].st = "going" /\ leg'[First(d)].run = leg[First(d)].run,
           UNCHANGED gone
    PROVE  Host'
<1>1. ProcessRight' /\ ProcMoves /\ ProcessTypeOK' /\ UNCHANGED proc
  BY ProcessQuiet DEF Host, process
<1>2. PhaseTypeOK' /\ \A e \in Decisions \ {d} : PlaceKept(e) /\ LegsKept(e)
  BY OneBranch DEF Host, PhaseTypeOK, PlaceKept
<1>3. Right(d)'
  <2>1. Right(d) /\ grant' = grant /\ leg'[Hedge(d)] = leg[Hedge(d)]
        /\ UNCHANGED <<told, at, found, chosen, fine, proc>>
    BY <1>1, Apart DEF Host, DecisionsRight, slots
  <2>2. phase'[d] \in {"admitting", "starting", "racing"}
    BY DEF Host, PhaseTypeOK
  <2>3. Knows(d)'
    BY <2>1, <2>2 DEF Right, Knows, Early, Using
  <2>4. SlotKnown(d)'
    BY <2>1, <2>2 DEF Right, SlotKnown, Branched, Using, Hedge
  <2>5. Branched(d)'
    BY <2>1, <2>2 DEF Right, Branched, Early, First, Hedge, Host, PhaseTypeOK
  <2>6. TurnKnown(d, First(d))' /\ TurnKnown(d, Hedge(d))'
    BY <2>1, <2>2 DEF Right, TurnKnown, Knows, Using, Branched, First, Hedge
  <2>7. Finished(d)'
    BY <2>1, <2>2 DEF Right, Finished, Knows, Using
  <2> QED
    BY <2>3, <2>4, <2>5, <2>6, <2>7 DEF Right, First, Hedge
<1> QED
  BY <1>1, <1>2, <1>3, OneMoves, GrantsSame

LEMMA OpenedKeeps == ASSUME Host, NEW d \in Decisions, Opened(d) PROVE Host'
<1>1. leg' = [leg EXCEPT ![First(d)].st = "open"]
  BY DEF Opened, First
<1> QED
  BY <1>1, LegSet, FirstMoves, Apart DEF Opened, Host

LEMMA AdmitsKeeps == ASSUME Host, NEW d \in Decisions, Admits(d) PROVE Host'
<1>1. leg' = [leg EXCEPT ![First(d)].st = "starting", ![First(d)].run = "running"]
  BY DEF Admits, Writes, First
<1> QED
  BY <1>1, LegRuns, FirstMoves, Apart DEF Admits, Host

LEMMA StartKeeps == ASSUME Host, NEW d \in Decisions, StartAnswered(d) PROVE Host'
<1>1. leg' = [leg EXCEPT ![First(d)].st = "going"]
  BY DEF StartAnswered, First
<1> QED
  BY <1>1, LegSet, FirstMoves, Apart DEF StartAnswered, Host

\* A decision ends before its race: with nothing written, refused, or with its process killed.
LEMMA FirstEnds ==
    ASSUME Host, SlotsTypeOK, SlotsConserved, UNCHANGED <<gone, at, found, chosen, fine, process>>, LegTypeOK',
           NEW d \in Decisions, phase[d] \in {"opening", "admitting", "starting", "failing"},
           NEW what \in {"unsent", "settled", "unsettled"}, Settle(d, what),
           \A m \in Branches \ {First(d)} : leg'[m] = leg[m],
           leg'[First(d)].lost = leg[First(d)].lost,
           leg'[First(d)].st = (IF leg[First(d)].st = "none" THEN "none" ELSE "over"),
           \/ leg'[First(d)].run = "no"
           \/ leg'[First(d)].run = leg[First(d)].run /\ phase[d] = "failing" /\ what # "unsent",
           what = "settled" => leg'[First(d)].run = "no" \/ proc[at[d]] = "gone"
    PROVE  Host'
<1>1. ProcessRight' /\ ProcMoves /\ ProcessTypeOK' /\ UNCHANGED proc
  BY ProcessQuiet DEF Host, process
<1>2. /\ phase' = [phase EXCEPT ![d] = "end"] /\ told' = [told EXCEPT ![d] = what]
      /\ grant'[d] = "over" /\ \A h \in Holders \ {d} : GrantKept(h)
  BY SettleEffect
<1>3. /\ PhaseTypeOK' /\ \A e \in Decisions \ {d} : PlaceKept(e) /\ LegsKept(e)
      /\ phase'[d] = "end" /\ told'[d] = what
  BY <1>2, OneBranch DEF Host, PhaseTypeOK, PlaceKept
<1>4. Right(d)'
  <2>1. /\ Right(d) /\ GrantKept(Hedge(d)) /\ leg'[Hedge(d)] = leg[Hedge(d)]
        /\ UNCHANGED <<at, found, chosen, fine, proc>>
    BY <1>1, <1>2, Apart DEF Host, DecisionsRight
  <2>2. leg[Hedge(d)].st = "none" /\ leg[Hedge(d)].run = "no" /\ chosen[d] = "first" /\ fine[d] = {} /\ at[d] # 0
    BY <2>1 DEF Right, Branched, Knows, TurnKnown, Using
  <2>3. Knows(d)'
    BY <1>3, <2>1, <2>2 DEF Right, Knows, Early, Using
  <2>4. SlotKnown(d)'
    BY <1>2, <1>3, <2>1, <2>2 DEF Right, SlotKnown, GrantKept, Using, Hedge
  <2>5. Branched(d)'
    BY <1>3, <2>1, <2>2 DEF Branched, Early, First, Hedge
  <2>6. TurnKnown(d, First(d))' /\ TurnKnown(d, Hedge(d))'
    BY <1>3, <2>1, <2>2 DEF Right, TurnKnown, Branched, First, Hedge
  <2>7. leg'[First(d)].run = "no" \/ proc[at[d]] # "up"
    BY <2>1 DEF Right, Knows
  <2>8. Finished(d)'
    BY <1>3, <2>1, <2>2, <2>7 DEF Finished, Over, Seen, First, Hedge
  <2> QED
    BY <2>3, <2>4, <2>5, <2>6, <2>8 DEF Right, First, Hedge
<1> QED
  BY <1>1, <1>2, <1>3, <1>4, OneMoves

\* The end of _decide before the turn, or after a turn/start that was never answered.
LEMMA FinishKeeps ==
    ASSUME Host, SlotsTypeOK, SlotsConserved, UNCHANGED <<gone, at, found, chosen, fine, process>>,
           NEW d \in Decisions, NEW what \in {"unsent", "settled", "unsettled"}, Finish(d, what),
           \/ phase[d] \in {"opening", "admitting"} /\ what = "unsent"
           \/ phase[d] = "failing" /\ what # "unsent" /\ (what = "settled" => proc[at[d]] = "gone")
    PROVE  Host'
<1>1. chosen[d] = "first" /\ Right(d)
  BY DEF Host, DecisionsRight, Right, Knows
<1>2. Settle(d, what) /\ leg' = Forgotten(First(d))
  BY <1>1 DEF Finish, First
<1>3. /\ LegTypeOK' /\ \A m \in Branches \ {First(d)} : leg'[m] = leg[m]
      /\ leg'[First(d)].st = IF leg[First(d)].st = "none" THEN "none" ELSE "over"
      /\ leg'[First(d)].run = leg[First(d)].run /\ leg'[First(d)].lost = leg[First(d)].lost
  BY <1>2, ForgottenLegs, Apart DEF Host
<1>4. phase[d] \in {"opening", "admitting"} => leg[First(d)].run = "no"
  BY <1>1 DEF Right, Branched, TurnKnown
<1> QED
  BY <1>2, <1>3, <1>4, FirstEnds

LEMMA OpenEndsKeeps ==
    ASSUME Host, SlotsTypeOK, SlotsConserved, NEW d \in Decisions,
           OpenRefused(d) \/ OpenFails(d) \/ AdmissionFails(d) \/ StartFailed(d)
    PROVE  Host'
<1>1. CASE OpenRefused(d)
  <2>1. /\ UNCHANGED <<gone, at, found, chosen, fine, process, leg>> /\ phase[d] = "opening"
        /\ Settle(d, "unsent")
    BY <1>1 DEF OpenRefused
  <2>2. leg[First(d)].st = "none" /\ leg[First(d)].run = "no" /\ LegTypeOK'
    BY <2>1 DEF Host, DecisionsRight, Right, Branched, TurnKnown, LegTypeOK
  <2> QED
    BY <2>1, <2>2, FirstEnds
<1>2. CASE OpenFails(d)
  BY <1>2, FinishKeeps DEF OpenFails
<1>3. CASE AdmissionFails(d)
  BY <1>3, FinishKeeps DEF AdmissionFails
<1>4. CASE StartFailed(d)
  <2>1. PICK what \in {"settled", "unsettled"} :
          Finish(d, what) /\ (what = "settled" => proc[at[d]] = "gone")
    BY <1>4 DEF StartFailed
  <2> QED
    BY <1>4, <2>1, FinishKeeps DEF StartFailed
<1> QED
  BY <1>1, <1>2, <1>3, <1>4

LEMMA StartRefusedKeeps ==
    ASSUME Host, SlotsTypeOK, SlotsConserved, NEW d \in Decisions, StartRefused(d)
    PROVE  Host'
<1>1. /\ UNCHANGED <<gone, at, found, chosen, fine, process>> /\ phase[d] = "starting"
      /\ Settle(d, "settled")
      /\ leg' = [leg EXCEPT ![First(d)].st = "over", ![First(d)].run = "no"]
  BY DEF StartRefused, First
<1>2. leg[First(d)].st = "starting"
  BY <1>1 DEF Host, DecisionsRight, Right, Branched
<1>3. /\ LegTypeOK' /\ \A m \in Branches \ {First(d)} : leg'[m] = leg[m]
      /\ leg'[First(d)].st = "over" /\ leg'[First(d)].run = "no" /\ leg'[First(d)].lost = leg[First(d)].lost
  BY <1>1, LegRuns, Apart DEF Host
<1> QED
  BY <1>1, <1>2, <1>3, FirstEnds

LEMMA UnansweredKeeps == ASSUME Host, NEW d \in Decisions, StartUnanswered(d) PROVE Host'
<1>1. /\ Recycle(at[d]) /\ phase' = [phase EXCEPT ![d] = "failing"] /\ phase[d] = "starting"
      /\ UNCHANGED <<slots, told, gone, at, found, chosen, fine>> /\ Right(d)
  BY DEF StartUnanswered, Host, DecisionsRight
<1>2. at[d] # 0 /\ at[d] \in 1 .. gen
  BY <1>1, AtRange DEF Right, Knows, Using, Host
<1>3. /\ ProcessRight' /\ ProcMoves /\ ProcessTypeOK' /\ LegTypeOK'
      /\ proc'[at[d]] # "up" /\ \A e \in Decisions : LegsKept(e)
  BY <1>1, <1>2, RecycleMoves DEF Host
<1>4. PhaseTypeOK' /\ phase'[d] = "failing" /\ \A e \in Decisions \ {d} : PlaceKept(e)
  BY <1>1 DEF Host, PhaseTypeOK, PlaceKept
<1>5. Right(d)'
  <2>2. LegKept(d, First(d)) /\ LegKept(d, Hedge(d))
    BY <1>3 DEF LegsKept
  <2>3. Knows(d)'
    BY <1>1, <1>3, <1>4 DEF Right, Knows, Early, Using
  <2>4. SlotKnown(d)'
    BY <1>1, <1>4, <2>2 DEF Right, SlotKnown, LegKept, Using, Hedge, slots
  <2>5. Branched(d)'
    BY <1>1, <1>4, <2>2 DEF Right, Branched, LegKept, Early, First, Hedge
  <2>6. TurnKnown(d, First(d))' /\ TurnKnown(d, Hedge(d))'
    BY <1>1, <1>2, <1>3, <1>4, <2>2, ProcKept DEF Host, Right, TurnKnown, LegKept, Tracked, First, Hedge
  <2>7. Finished(d)'
    BY <1>1, <1>4 DEF Right, Finished, Knows, Using
  <2> QED
    BY <2>3, <2>4, <2>5, <2>6, <2>7 DEF Right, First, Hedge
<1> QED
  BY <1>1, <1>3, <1>4, <1>5, OneMoves, GrantsSame

----------------------------------------------------------------------------
(* The hedge                                                                *)

LEMMA HedgeMoves ==
    ASSUME Host, UNCHANGED <<deciding, process>>, LegTypeOK', NEW d \in Decisions,
           \A m \in Branches \ {Hedge(d)} : leg'[m] = leg[m],
           \A h \in Holders \ {Hedge(d)} : GrantKept(h), grant'[Hedge(d)] # "waiting",
           leg'[Hedge(d)].lost = leg[Hedge(d)].lost,
           \/ /\ phase[d] = "racing" /\ leg[Hedge(d)].st = "none"
              /\ leg'[Hedge(d)].st \in {"opening", "refused"} /\ leg'[Hedge(d)].run = leg[Hedge(d)].run
              /\ leg'[Hedge(d)].st = "opening" => grant'[Hedge(d)] = "held"
           \/ /\ leg[Hedge(d)].st = "opening" /\ leg'[Hedge(d)].st = "starting" /\ at[d] # 0
              /\ grant'[Hedge(d)] = grant[Hedge(d)]
           \/ /\ phase[d] = "racing" /\ leg[Hedge(d)].st = "starting"
              /\ leg'[Hedge(d)].st = "going" /\ leg'[Hedge(d)].run = leg[Hedge(d)].run
              /\ grant'[Hedge(d)] = grant[Hedge(d)]
           \/ /\ phase[d] = "racing" /\ leg[Hedge(d)].st \in {"opening", "starting"}
              /\ leg'[Hedge(d)].st = "failed" /\ leg'[Hedge(d)].run \in {"no", leg[Hedge(d)].run}
    PROVE  Host'
<1>1. /\ ProcessRight' /\ ProcMoves /\ ProcessTypeOK' /\ PhaseTypeOK'
      /\ UNCHANGED <<phase, told, at, found, chosen, fine, proc>>
  BY ProcessQuiet DEF Host, deciding, process, PhaseTypeOK
<1>2. \A e \in Decisions \ {d} : PlaceKept(e) /\ LegsKept(e)
  BY <1>1, OneBranch DEF PlaceKept
<1>3. Right(d)'
  <2>1. Right(d) /\ GrantKept(d) /\ leg'[First(d)] = leg[First(d)] /\ <<chosen[d], d>> \in {First(d), Hedge(d)}
    BY Apart DEF Host, DecisionsRight, PhaseTypeOK, First, Hedge
  <2>2. Knows(d)'
    BY <1>1, <2>1 DEF Right, Knows, Early, Using
  <2>3. SlotKnown(d)'
    BY <1>1, <2>1 DEF Right, SlotKnown, GrantKept, Using, Hedge
  <2>4. Branched(d)'
    BY <1>1, <2>1 DEF Right, Branched, Early, First, Hedge
  <2>5. TurnKnown(d, First(d))' /\ TurnKnown(d, Hedge(d))'
    BY <1>1, <2>1 DEF Right, TurnKnown, First, Hedge
  <2>6. Finished(d)'
    <3>1. CASE phase[d] = "racing"
      BY <1>1, <2>1, <3>1 DEF Right, Finished, Knows, Using
    <3>2. CASE leg[Hedge(d)].st = "opening" /\ leg'[Hedge(d)].st = "starting"
      <4>1. /\ phase[d] \in {"ending", "exiting"} => chosen[d] = "first"
            /\ leg[Hedge(d)].run = "no" /\ told[d] # "unsent"
        BY <2>1, <3>2 DEF Right, Branched, TurnKnown, Finished, Host, PhaseTypeOK
      <4>2. Over(d, Hedge(d))' /\ Seen(d, Hedge(d))'
        BY <3>2 DEF Over, Seen, Hedge
      <4>3. Over(d, First(d)) => Over(d, First(d))'
        BY <1>1, <2>1 DEF Over, First
      <4>4. Seen(d, First(d)) => Seen(d, First(d))'
        BY <1>1, <2>1 DEF Seen, First
      <4>5. told[d] \in {"answered", "settled"} /\ chosen[d] # "first" => leg[Hedge(d)].st # "opening"
        <5>1. told[d] \in {"answered", "settled"} => phase[d] = "end"
          BY <2>1 DEF Right, Knows, Using, Host, PhaseTypeOK
        <5> QED
          BY <2>1, <5>1 DEF Right, Branched, Host, PhaseTypeOK
      <4> QED
        BY <1>1, <2>1, <4>1, <4>2, <4>3, <4>4, <4>5 DEF Right, Finished, Other, Ended, First, Hedge
    <3> QED
      BY <3>1, <3>2
  <2> QED
    BY <2>2, <2>3, <2>4, <2>5, <2>6 DEF Right, First, Hedge
<1> QED
  BY <1>1, <1>2, <1>3, OneMoves

LEMMA HedgeKeeps ==
    ASSUME Host, SlotsTypeOK, SlotsConserved, NEW d \in Decisions,
           \/ HedgeOpens(d) \/ HedgeWrites(d) \/ HedgeStarts(d) \/ HedgeFails(d, TRUE) \/ HedgeFails(d, FALSE)
    PROVE  Host'
<1>. DEFINE H == Hedge(d)
<1>. H \in Branches /\ H \in Holders /\ Right(d) /\ LegTypeOK
  BY Apart DEF Host, DecisionsRight
<1>. grant[H] # "waiting" /\ (leg[H].st \in {"opening", "starting"} => grant[H] = "held")
  BY DEF Right, SlotKnown
<1>. HIDE DEF H
<1>1. CASE HedgeOpens(d)
  <2>1. /\ TryAcquire(H) /\ phase[d] = "racing" /\ leg[H].st = "none" /\ UNCHANGED <<deciding, process>>
        /\ leg' = [leg EXCEPT ![H].st = IF grant'[H] = "held" THEN "opening" ELSE "refused"]
    BY <1>1 DEF HedgeOpens, H
  <2>2. grant'[H] \in {"held", "none"} /\ \A g \in Holders \ {H} : GrantKept(g)
    BY <2>1, TryAcquireGrants
  <2>3. PICK st \in {"opening", "refused"} :
           leg' = [leg EXCEPT ![H].st = st] /\ (st = "opening" => grant'[H] = "held")
    BY <2>1
  <2>4. /\ LegTypeOK' /\ \A m \in Branches \ {H} : leg'[m] = leg[m]
        /\ leg'[H].st = st /\ leg'[H].run = leg[H].run /\ leg'[H].lost = leg[H].lost
    BY <2>3, LegSet
  <2> QED
    BY <2>1, <2>2, <2>3, <2>4, HedgeMoves DEF H
<1>2. CASE HedgeWrites(d)
  <2>1. /\ leg' = [leg EXCEPT ![H].st = "starting", ![H].run = "running"]
        /\ leg[H].st = "opening" /\ at[d] # 0 /\ UNCHANGED <<slots, deciding, process>>
    BY <1>2 DEF HedgeWrites, Writes, Talks, H
  <2>2. /\ LegTypeOK' /\ \A m \in Branches \ {H} : leg'[m] = leg[m]
        /\ leg'[H].st = "starting" /\ leg'[H].lost = leg[H].lost
    BY <2>1, LegRuns
  <2>3. grant' = grant /\ \A g \in Holders : GrantKept(g)
    BY <2>1 DEF slots, GrantKept
  <2> QED
    BY <2>1, <2>2, <2>3, HedgeMoves DEF H
<1>3. CASE HedgeStarts(d)
  <2>1. /\ leg' = [leg EXCEPT ![H].st = "going"] /\ phase[d] = "racing"
        /\ leg[H].st = "starting" /\ UNCHANGED <<slots, deciding, process>>
    BY <1>3 DEF HedgeStarts, H
  <2>2. /\ LegTypeOK' /\ \A m \in Branches \ {H} : leg'[m] = leg[m]
        /\ leg'[H].st = "going" /\ leg'[H].run = leg[H].run /\ leg'[H].lost = leg[H].lost
    BY <2>1, LegSet
  <2>3. grant' = grant /\ \A g \in Holders : GrantKept(g)
    BY <2>1 DEF slots, GrantKept
  <2> QED
    BY <2>1, <2>2, <2>3, HedgeMoves DEF H
<1>4. ASSUME NEW refused \in BOOLEAN, HedgeFails(d, refused) PROVE Host'
  <2>1. PICK run \in {"no", leg[H].run} : leg' = [leg EXCEPT ![H].st = "failed", ![H].run = run]
    <3>1. CASE refused
      BY <1>4, <3>1 DEF HedgeFails, H
    <3>2. CASE ~refused
      <4>1. leg' = [leg EXCEPT ![H].st = "failed", ![H].run = leg[H].run]
        BY <1>4, <3>2 DEF HedgeFails, H
      <4> QED
        BY <4>1
    <3> QED
      BY <3>1, <3>2
  <2>2. phase[d] = "racing" /\ leg[H].st \in {"opening", "starting"} /\ Release(H) /\ UNCHANGED <<deciding, process>>
    BY <1>4 DEF HedgeFails, H
  <2>3. run \in {"no", "running", "completed", "failed", "interrupted"}
    BY DEF LegTypeOK
  <2>4. /\ LegTypeOK' /\ \A m \in Branches \ {H} : leg'[m] = leg[m]
        /\ leg'[H].st = "failed" /\ leg'[H].run = run /\ leg'[H].lost = leg[H].lost
    BY <2>1, <2>3, LegRuns
  <2>5. grant'[H] = "over" /\ \A g \in Holders \ {H} : GrantKept(g)
    BY <2>2, ReleaseGrants
  <2> QED
    BY <2>2, <2>4, <2>5, HedgeMoves DEF H
<1> QED
  BY <1>1, <1>2, <1>3, <1>4

----------------------------------------------------------------------------
(* The race and its end                                                     *)

LEMMA DecidedKeeps ==
    ASSUME Host, NEW d \in Decisions, NEW c \in {"first", "hedge"}, Decided(d, c), phase[d] = "racing",
           leg[<<c, d>>].st \in {"going", "read"}, UNCHANGED <<slots, told, gone, at, found, leg, process>>
    PROVE  Host'
<1>1. /\ ProcessRight' /\ ProcMoves /\ ProcessTypeOK' /\ LegTypeOK'
      /\ proc' = proc /\ grant' = grant /\ \A e \in Decisions : LegsKept(e)
  BY ProcessQuiet, LegsSame DEF Host, process, slots, LegTypeOK
<1>2. Right(d) /\ <<c, d>> \in {First(d), Hedge(d)} /\ First(d) # Hedge(d)
  BY Apart DEF Host, DecisionsRight, First, Hedge
<1>3. leg[First(d)].st \in {"going", "read"} /\ chosen[d] = "first" /\ fine[d] = {}
  BY <1>2 DEF Right, Branched, Knows
<1>4. chosen' = [chosen EXCEPT ![d] = c]
  BY DEF Decided
<1>5. \/ /\ phase' = [phase EXCEPT ![d] = "ending"] /\ fine' = [fine EXCEPT ![d] = {"others"}]
         /\ c = "first" /\ leg[Hedge(d)].st \notin {"going", "read"}
      \/ /\ phase' = [phase EXCEPT ![d] = "stopping"] /\ fine' = fine
         /\ leg[Hedge(d)].st \in {"going", "read"}
  <2>1. CASE Legs(d) = {<<c, d>>}
    <3>1. c = "first" /\ leg[Hedge(d)].st \notin {"going", "read"}
      BY <1>2, <1>3, <2>1 DEF Legs, First, Hedge
    <3> QED
      BY <2>1, <3>1 DEF Decided
  <2>2. CASE Legs(d) # {<<c, d>>}
    <3>1. leg[Hedge(d)].st \in {"going", "read"}
      BY <1>2, <1>3, <2>2 DEF Legs, First, Hedge
    <3> QED
      BY <2>2, <3>1 DEF Decided
  <2> QED
    BY <2>1, <2>2
<1>6. /\ PhaseTypeOK' /\ \A e \in Decisions \ {d} : PlaceKept(e)
      /\ chosen'[d] = c
      /\ \/ /\ phase'[d] = "ending" /\ fine'[d] = {"others"}
            /\ c = "first" /\ leg[Hedge(d)].st \notin {"going", "read"}
         \/ phase'[d] = "stopping" /\ fine'[d] = {} /\ leg[Hedge(d)].st \in {"going", "read"}
  <2>1. {"others"} \in SUBSET {"others", "chosen"}
    OBVIOUS
  <2>2. PICK to \in {"ending", "stopping"}, f \in {fine[d], {"others"}} :
           phase' = [phase EXCEPT ![d] = to] /\ fine' = [fine EXCEPT ![d] = f]
    <3>1. fine = [fine EXCEPT ![d] = fine[d]]
      BY DEF Host, PhaseTypeOK
    <3> QED
      BY <1>5, <3>1
  <2>3. PhaseTypeOK' /\ \A e \in Decisions \ {d} : PlaceKept(e)
    BY <1>4, <2>1, <2>2 DEF Host, PhaseTypeOK, PlaceKept
  <2>4. chosen'[d] = c
    BY <1>4 DEF Host, PhaseTypeOK
  <2>5. \/ /\ phase'[d] = "ending" /\ fine'[d] = {"others"}
           /\ c = "first" /\ leg[Hedge(d)].st \notin {"going", "read"}
        \/ phase'[d] = "stopping" /\ fine'[d] = {} /\ leg[Hedge(d)].st \in {"going", "read"}
    BY <1>3, <1>5 DEF Host, PhaseTypeOK
  <2> QED
    BY <2>3, <2>4, <2>5
<1>7. Right(d)'
  <2>2. Knows(d)'
    BY <1>1, <1>2, <1>6 DEF Right, Knows, Early, Using
  <2>3. SlotKnown(d)'
    BY <1>1, <1>2, <1>6 DEF Right, SlotKnown, Using, Hedge
  <2>4. Branched(d)'
    BY <1>1, <1>2, <1>3, <1>6 DEF Right, Branched, Early, First, Hedge
  <2>5. TurnKnown(d, First(d))' /\ TurnKnown(d, Hedge(d))'
    BY <1>1, <1>2 DEF Right, TurnKnown, First, Hedge
  <2>6. Finished(d)'
    <3>1. told'[d] = "pending" /\ phase'[d] \in {"ending", "stopping"}
      BY <1>2, <1>6 DEF Right, Knows, Using
    <3>2. phase'[d] = "ending" => /\ Other(d)' = Hedge(d)
                                  /\ leg[Hedge(d)].run = "running" => leg[Hedge(d)].st \in {"starting", "failed"}
      BY <1>2, <1>6 DEF Right, Other, Branched, TurnKnown, Hedge, Host, LegTypeOK, Branches
    <3> QED
      BY <3>1, <3>2 DEF Finished, Over
  <2> QED
    BY <2>2, <2>3, <2>4, <2>5, <2>6 DEF Right, First, Hedge
<1> QED
  BY <1>1, <1>6, <1>7, OneMoves, GrantsSame

LEMMA RaceKeeps ==
    ASSUME Host, NEW d \in Decisions,
           LegDecides(d, "first") \/ LegDecides(d, "hedge") \/ TimesOut(d)
    PROVE  Host'
<1>1. CASE TimesOut(d)
  <2>1. leg[<<"first", d>>].st \in {"going", "read"}
    BY <1>1 DEF TimesOut, Host, DecisionsRight, Right, Branched, First
  <2> QED
    BY <1>1, <2>1, DecidedKeeps DEF TimesOut
<1>2. ASSUME NEW c \in {"first", "hedge"}, LegDecides(d, c) PROVE Host'
  <2>. DEFINE l == <<c, d>>
  <2>1. l \in Branches /\ l \in {First(d), Hedge(d)} /\ phase[d] = "racing" /\ leg[l].st = "going" /\ First(d) # Hedge(d)
    BY <1>2 DEF LegDecides, Branches, First, Hedge
  <2>2. CASE FailsAlone(d, l)
    <3>1. /\ leg' = [leg EXCEPT ![l].st = "read"]
          /\ UNCHANGED <<slots, phase, chosen, fine, told, gone, at, found, process>>
      BY <1>2, <2>2 DEF LegDecides
    <3>. HIDE DEF l
    <3>2. /\ LegTypeOK' /\ \A m \in Branches \ {l} : leg'[m] = leg[m]
          /\ leg'[l].st = "read" /\ leg'[l].run = leg[l].run /\ leg'[l].lost = leg[l].lost
      BY <2>1, <3>1, LegSet DEF Host
    <3>3. ProcessRight' /\ ProcMoves /\ ProcessTypeOK' /\ PhaseTypeOK' /\ proc' = proc /\ grant' = grant
      BY <3>1, ProcessQuiet DEF Host, process, slots, PhaseTypeOK
    <3>4. \A e \in Decisions \ {d} : PlaceKept(e) /\ LegsKept(e)
      BY <2>1, <3>1, <3>2, OneBranch DEF PlaceKept
    <3>5. Right(d)'
      <4>1. Right(d) /\ \A m \in {First(d), Hedge(d)} : m # l => leg'[m] = leg[m]
        BY <3>2, Apart DEF Host, DecisionsRight
      <4>2. Knows(d)'
        BY <3>1, <3>3, <4>1 DEF Right, Knows, Early, Using
      <4>3. SlotKnown(d)'
        BY <2>1, <3>1, <3>2, <3>3, <4>1 DEF Right, SlotKnown, Using, Hedge
      <4>4. Branched(d)'
        BY <2>1, <3>1, <3>2, <4>1 DEF Right, Branched, Early, First, Hedge
      <4>5. TurnKnown(d, First(d))' /\ TurnKnown(d, Hedge(d))'
        BY <2>1, <3>1, <3>2, <3>3, <4>1 DEF Right, TurnKnown, First, Hedge
      <4>6. Finished(d)'
        BY <2>1, <3>1, <4>1 DEF Right, Finished, Knows, Using
      <4> QED
        BY <4>1, <4>2, <4>3, <4>4, <4>5, <4>6 DEF Right, First, Hedge
    <3> QED
      BY <3>1, <3>2, <3>3, <3>4, <3>5, OneMoves, GrantsSame
  <2>3. CASE ~FailsAlone(d, l)
    BY <1>2, <2>1, <2>3, DecidedKeeps DEF LegDecides
  <2> QED
    BY <2>2, <2>3
<1> QED
  BY <1>1, <1>2

LEMMA HedgeDoneGrants ==
    ASSUME SlotsTypeOK, SlotsConserved, NEW d \in Decisions, HedgeDone(d), grant[Hedge(d)] # "waiting"
    PROVE  grant'[Hedge(d)] # "waiting" /\ \A h \in Holders \ {Hedge(d)} : GrantKept(h)
<1>1. CASE grant[Hedge(d)] = "held"
  BY <1>1, ReleaseGrants, Apart DEF HedgeDone
<1>2. CASE grant[Hedge(d)] # "held"
  BY <1>2 DEF HedgeDone, slots, GrantKept
<1> QED
  BY <1>1, <1>2

LEMMA SubsetFine == {} \in SUBSET {"others", "chosen"} /\ {"others"} \in SUBSET {"others", "chosen"}
  OBVIOUS

\* The branch that is not reported is over: it ended, or its process was killed.
LEMMA OtherOver ==
    ASSUME Host, SlotsTypeOK, SlotsConserved, UNCHANGED <<told, gone, at, found, chosen, process>>,
           NEW d \in Decisions, phase[d] \in {"stopping", "recycling"},
           phase' = [phase EXCEPT ![d] = "ending"], leg' = Forgotten(Other(d)), HedgeDone(d),
           NEW f \in {{}, {"others"}}, fine' = [fine EXCEPT ![d] = f],
           leg[Other(d)].run = "running" => proc[at[d]] # "up",
           f = {} => proc[at[d]] # "up"
    PROVE  Host'
<1>1. ProcessRight' /\ ProcMoves /\ ProcessTypeOK' /\ proc' = proc
  BY ProcessQuiet DEF Host, process
<1>2. /\ Right(d) /\ chosen[d] \in {"first", "hedge"} /\ First(d) # Hedge(d)
      /\ Other(d) = IF chosen[d] = "first" THEN Hedge(d) ELSE First(d)
      /\ <<chosen[d], d>> = IF chosen[d] = "first" THEN First(d) ELSE Hedge(d)
      /\ Other(d) \in Branches
  BY Apart DEF Host, DecisionsRight, PhaseTypeOK, Other, First, Hedge
<1>3. leg[First(d)].st \in {"going", "read"} /\ leg[Hedge(d)].st \in {"going", "read"} /\ grant[Hedge(d)] # "waiting"
  BY <1>2 DEF Right, Branched, SlotKnown
<1>4. /\ LegTypeOK' /\ \A m \in Branches \ {Other(d)} : leg'[m] = leg[m]
      /\ leg'[Other(d)].st = "over"
      /\ leg'[Other(d)].run = leg[Other(d)].run /\ leg'[Other(d)].bad = leg[Other(d)].bad
      /\ leg'[Other(d)].lost = leg[Other(d)].lost
  BY <1>2, <1>3, ForgottenLegs DEF Host
<1>5. grant'[Hedge(d)] # "waiting" /\ \A h \in Holders \ {Hedge(d)} : GrantKept(h)
  BY <1>3, HedgeDoneGrants
<1>6. /\ PhaseTypeOK' /\ phase'[d] = "ending" /\ fine'[d] = f
      /\ \A e \in Decisions \ {d} : PlaceKept(e) /\ LegsKept(e)
  <2>1. f \in SUBSET {"others", "chosen"} /\ Other(d) \in {First(d), Hedge(d)}
    BY <1>2, SubsetFine
  <2> QED
    BY <1>4, <2>1, OneBranch DEF Host, PhaseTypeOK, PlaceKept
<1>7. Right(d)'
  <2>1. chosen' = chosen /\ at' = at /\ told' = told /\ found' = found
    OBVIOUS
  <2>2. Knows(d)'
    <3>1. f = {} \/ f = {"others"}
      OBVIOUS
    <3>2. "chosen" \notin fine'[d] /\ ("others" \notin fine'[d] => proc'[at'[d]] # "up")
      BY <1>1, <1>6, <2>1, <3>1
    <3> QED
      BY <1>1, <1>2, <1>6, <2>1, <3>2 DEF Right, Knows, Early, Using
  <2>3. SlotKnown(d)'
    <3>1. GrantKept(d) /\ leg'[Hedge(d)].st \in {"going", "read", "over"}
      BY <1>2, <1>3, <1>4, <1>5, Apart
    <3> QED
      BY <1>2, <1>5, <1>6, <3>1 DEF Right, SlotKnown, GrantKept, Using, Hedge
  <2>4. Branched(d)'
    BY <1>2, <1>3, <1>4, <1>6, <2>1, Apart DEF Branched, Early, First, Hedge
  <2>5. TurnKnown(d, First(d))' /\ TurnKnown(d, Hedge(d))'
    BY <1>1, <1>2, <1>4, <2>1, Apart DEF Right, TurnKnown, First, Hedge
  <2>6. Finished(d)'
    <3>1. Over(d, Other(d))'
      BY <1>1, <1>4, <2>1 DEF Over, Other, First, Hedge
    <3>2. told[d] = "pending"
      BY <1>2 DEF Right, Knows, Using
    <3> QED
      BY <1>6, <3>1, <3>2 DEF Finished
  <2> QED
    BY <2>2, <2>3, <2>4, <2>5, <2>6 DEF Right, First, Hedge
<1> QED
  BY <1>1, <1>4, <1>5, <1>6, <1>7, OneMoves

LEMMA StopsKeeps ==
    ASSUME Host, SlotsTypeOK, SlotsConserved, NEW d \in Decisions, OtherStops(d) \/ OtherRecycled(d)
    PROVE  Host'
<1>1. /\ Right(d) /\ Other(d) \in {First(d), Hedge(d)} /\ phase[d] \in {"stopping", "recycling"}
      /\ UNCHANGED <<told, gone, at, found, chosen>>
  BY DEF Host, DecisionsRight, Other, OtherStops, OtherRecycled
<1>2. at[d] # 0 /\ at[d] \in 1 .. gen
  BY <1>1, AtRange DEF Right, Knows, Using, Host
<1>3. CASE OtherRecycled(d)
  <2>1. phase[d] = "recycling" /\ proc[at[d]] # "up" /\ "chosen" \notin fine[d] /\ fine[d] \subseteq {"others", "chosen"}
    BY <1>3 DEF OtherRecycled, Host, DecisionsRight, Right, Knows, PhaseTypeOK
  <2>2. fine[d] \in {{}, {"others"}}
    BY <2>1
  <2>3. PICK f \in {{}, {"others"}} : fine' = [fine EXCEPT ![d] = f]
    <3>1. fine' = [fine EXCEPT ![d] = IF proc[at[d]] = "gone" THEN {"others"} ELSE fine[d]]
      BY <1>3 DEF OtherRecycled
    <3> QED
      BY <2>2, <3>1
  <2> QED
    BY <1>1, <1>3, <2>1, <2>3, OtherOver DEF OtherRecycled
<1>4. CASE OtherStops(d) /\ Stopped(Other(d)) /\ ~leg[Other(d)].bad
  <2>1. leg[Other(d)].run = "running" => proc[at[d]] # "up"
    BY <1>1, <1>4 DEF Stopped, Ended, Right, TurnKnown
  <2>2. {"others"} \in {{}, {"others"}} /\ {"others"} # {}
    OBVIOUS
  <2>3. /\ phase[d] \in {"stopping", "recycling"} /\ phase' = [phase EXCEPT ![d] = "ending"]
        /\ fine' = [fine EXCEPT ![d] = {"others"}]
        /\ leg' = Forgotten(Other(d)) /\ HedgeDone(d) /\ UNCHANGED process
    BY <1>4 DEF OtherStops
  <2> QED
    BY <1>1, <2>1, <2>2, <2>3, OtherOver
<1>5. CASE OtherStops(d) /\ ~(Stopped(Other(d)) /\ ~leg[Other(d)].bad)
  <2>1. /\ phase[d] = "stopping" /\ phase' = [phase EXCEPT ![d] = "recycling"]
        /\ fine' = [fine EXCEPT ![d] = IF Stopped(Other(d)) THEN {"others"} ELSE {}]
        /\ Recycle(at[d]) /\ UNCHANGED slots
    BY <1>5 DEF OtherStops
  <2>2. PICK f \in {{}, {"others"}} : fine' = [fine EXCEPT ![d] = f]
    BY <2>1
  <2>3. /\ ProcessRight' /\ ProcMoves /\ ProcessTypeOK' /\ LegTypeOK'
        /\ proc'[at[d]] # "up" /\ \A e \in Decisions : LegsKept(e)
    BY <1>2, <2>1, RecycleMoves, <1>1 DEF Host
  <2>4. f \in SUBSET {"others", "chosen"} /\ "chosen" \notin f
    BY SubsetFine
  <2>5. /\ PhaseTypeOK' /\ phase'[d] = "recycling" /\ fine'[d] = f
        /\ \A e \in Decisions \ {d} : PlaceKept(e)
    BY <1>1, <2>1, <2>2, <2>4 DEF Host, PhaseTypeOK, PlaceKept
  <2>6. Right(d)'
    <3>1. LegKept(d, First(d)) /\ LegKept(d, Hedge(d)) /\ grant' = grant
      BY <2>1, <2>3 DEF LegsKept, slots
    <3>2. Knows(d)'
      BY <1>1, <2>1, <2>3, <2>4, <2>5 DEF Right, Knows, Early, Using
    <3>3. SlotKnown(d)'
      BY <1>1, <2>1, <2>5, <3>1 DEF Right, SlotKnown, LegKept, Using, Hedge
    <3>4. Branched(d)'
      BY <1>1, <2>1, <2>5, <3>1 DEF Right, Branched, LegKept, Early, First, Hedge
    <3>5. TurnKnown(d, First(d))' /\ TurnKnown(d, Hedge(d))'
      BY <1>1, <1>2, <2>3, <3>1, ProcKept DEF Host, Right, TurnKnown, LegKept, Tracked, First, Hedge
    <3>6. Finished(d)'
      <4>1. told'[d] = "pending" /\ phase'[d] = "recycling"
        BY <1>1, <2>1, <2>5 DEF Right, Knows, Using
      <4> QED
        BY <4>1 DEF Finished
    <3> QED
      BY <3>2, <3>3, <3>4, <3>5, <3>6 DEF Right, First, Hedge
  <2> QED
    BY <2>1, <2>3, <2>5, <2>6, OneMoves, GrantsSame
<1> QED
  BY <1>3, <1>4, <1>5

\* What a decision reports of the branch that it chose.
LEMMA OutcomeTrue ==
    ASSUME NEW d \in Decisions, NEW over \in BOOLEAN, LegTypeOK, <<chosen[d], d>> \in Branches,
           over => Ended(<<chosen[d], d>>) \/ proc[at[d]] = "gone"
    PROVE  /\ Outcome(d, over) \in {"answered", "settled", "unsettled"}
           /\ Outcome(d, over) = "answered" => leg[<<chosen[d], d>>].run = "completed"
           /\ Outcome(d, over) = "settled" /\ leg[<<chosen[d], d>>].run = "running" => proc[at[d]] = "gone"
<1>1. Outcome(d, over) = IF leg[<<chosen[d], d>>].run = "completed" /\ ~Violated(d) THEN "answered"
                         ELSE IF (over /\ "others" \in fine[d]) \/ (Ended(<<chosen[d], d>>) /\ ~Violated(d))
                              THEN "settled" ELSE "unsettled"
  BY DEF Outcome
<1> QED
  BY <1>1 DEF Ended

LEMMA ReportsKeeps ==
    ASSUME Host, SlotsTypeOK, SlotsConserved, UNCHANGED <<gone, at, found, chosen, fine, process>>,
           NEW d \in Decisions, phase[d] \in {"ending", "exiting"},
           NEW over \in BOOLEAN, Reports(d, over),
           over => Ended(<<chosen[d], d>>) \/ proc[at[d]] = "gone",
           \/ proc[at[d]] # "up"
           \/ ~MustRecycle(d)
    PROVE  Host'
<1>1. ProcessRight' /\ ProcMoves /\ ProcessTypeOK' /\ proc' = proc
  BY ProcessQuiet DEF Host, process
<1>2. /\ Right(d) /\ chosen[d] \in {"first", "hedge"} /\ First(d) # Hedge(d)
      /\ Other(d) = IF chosen[d] = "first" THEN Hedge(d) ELSE First(d)
      /\ <<chosen[d], d>> = IF chosen[d] = "first" THEN First(d) ELSE Hedge(d)
      /\ <<chosen[d], d>> \in Branches
  BY Apart DEF Host, DecisionsRight, PhaseTypeOK, Other, First, Hedge
<1>. DEFINE c == <<chosen[d], d>>
<1>3. PICK what : what = Outcome(d, over)
  OBVIOUS
<1>4. /\ what \in {"answered", "settled", "unsettled"}
      /\ what = "answered" => leg[c].run = "completed"
      /\ what = "settled" /\ leg[c].run = "running" => proc[at[d]] = "gone"
      /\ Settle(d, what) /\ leg' = Forgotten(c)
  BY <1>2, <1>3, OutcomeTrue DEF Reports, Host
<1>5. /\ phase' = [phase EXCEPT ![d] = "end"] /\ told' = [told EXCEPT ![d] = what]
      /\ grant'[d] = "over" /\ \A h \in Holders \ {d} : GrantKept(h)
  BY <1>4, SettleEffect
<1>6. leg[c].st \in {"going", "read"} /\ Over(d, Other(d)) /\ at[d] # 0
  BY <1>2 DEF Right, Branched, Finished, Knows, Using
<1>7. /\ LegTypeOK' /\ \A m \in Branches \ {c} : leg'[m] = leg[m]
      /\ leg'[c].st = "over"
      /\ leg'[c].run = leg[c].run /\ leg'[c].bad = leg[c].bad
      /\ leg'[c].lost = leg[c].lost
  BY <1>2, <1>4, <1>6, ForgottenLegs DEF Host
<1>8. /\ PhaseTypeOK' /\ phase'[d] = "end" /\ told'[d] = what
      /\ \A e \in Decisions \ {d} : PlaceKept(e) /\ LegsKept(e)
  BY <1>2, <1>4, <1>5, <1>7, OneBranch DEF Host, PhaseTypeOK, PlaceKept
<1>9. Right(d)'
  <2>1. chosen' = chosen /\ at' = at /\ found' = found /\ fine' = fine /\ GrantKept(Hedge(d)) /\ c' = c
    BY <1>5, Apart
  <2>2. leg'[Other(d)] = leg[Other(d)]
    BY <1>2, <1>7, Apart
  <2>. HIDE DEF c
  <2>3. Knows(d)'
    BY <1>4, <1>8 DEF Knows, Early, Using
  <2>4. SlotKnown(d)'
    BY <1>2, <1>5, <1>7, <1>8, <2>1, <2>2 DEF Right, SlotKnown, GrantKept, Using, Hedge, c
  <2>5. Branched(d)'
    BY <1>2, <1>7, <1>8, <2>1, <2>2 DEF Right, Branched, Early, First, Hedge, c
  <2>6. TurnKnown(d, First(d))' /\ TurnKnown(d, Hedge(d))'
    <3>1. TurnKnown(d, First(d)) /\ TurnKnown(d, Hedge(d)) /\ (c = First(d) \/ c = Hedge(d))
      BY <1>2 DEF Right, c
    <3>2. First(d)' = First(d) /\ Hedge(d)' = Hedge(d)
      BY DEF First, Hedge
    <3> QED
      BY <1>1, <1>2, <1>6, <1>7, <2>1, <2>2, <3>1, <3>2 DEF TurnKnown, c
  <2>7. Over(d, c)' /\ Seen(d, c)'
    <3>1. proc[at[d]] # "up" \/ (Ended(c) /\ ~leg[c].bad)
      BY <1>2, <1>6 DEF MustRecycle, Violated, Broken, c
    <3> QED
      BY <1>1, <1>7, <2>1, <3>1 DEF Over, Seen, Ended
  <2>8. Over(d, Other(d))' /\ Seen(d, Other(d))'
    <3>1. \/ proc[at[d]] # "up"
          \/ /\ leg[Other(d)].bad => leg[Other(d)].st \in {"starting", "failed"}
             /\ ~Unknown(Hedge(d))
      BY <1>2 DEF MustRecycle, Violated, Broken
    <3>2. leg[First(d)].st # "failed" \/ Other(d) # First(d)
      BY <1>2 DEF Right, Branched
    <3> QED
      BY <1>1, <1>2, <1>6, <2>1, <2>2, <3>1, <3>2 DEF Over, Seen, Unknown, Other, First, Hedge
  <2>9. Finished(d)'
    <3>1. \A l \in {First(d), Hedge(d)} : l = c \/ l = Other(d)
      BY <1>2 DEF c
    <3>2. \A l \in {First(d), Hedge(d)} : Over(d, l)' /\ Seen(d, l)'
      BY <2>1, <2>7, <2>8, <3>1 DEF Over, Seen, Other, First, Hedge
    <3> QED
      BY <1>1, <1>4, <1>7, <1>8, <2>1, <3>2 DEF Finished, First, Hedge, c
  <2> QED
    BY <2>3, <2>4, <2>5, <2>6, <2>9 DEF Right, First, Hedge
<1> QED
  BY <1>1, <1>5, <1>7, <1>8, <1>9, OneMoves

LEMMA EndsKeeps ==
    ASSUME Host, SlotsTypeOK, SlotsConserved, NEW d \in Decisions, Ends(d) \/ Exits(d)
    PROVE  Host'
<1>1. /\ Right(d) /\ phase[d] \in {"ending", "exiting"} /\ UNCHANGED <<gone, at, found, chosen>>
  BY DEF Host, DecisionsRight, Ends, Exits
<1>2. CASE Exits(d)
  <2>1. /\ phase[d] = "exiting" /\ proc[at[d]] # "up"
        /\ "chosen" \in fine[d] => Ended(<<chosen[d], d>>)
    BY <1>1, <1>2 DEF Exits, Right, Knows, Finished
  <2>2. PICK over \in BOOLEAN : over = (proc[at[d]] = "gone" \/ "chosen" \in fine[d])
    OBVIOUS
  <2>3. Reports(d, over) /\ UNCHANGED <<fine, process>>
    BY <1>2, <2>2 DEF Exits
  <2> QED
    BY <1>1, <2>1, <2>2, <2>3, ReportsKeeps
<1>3. CASE Ends(d) /\ ~MustRecycle(d)
  <2>1. Reports(d, TRUE) /\ UNCHANGED <<fine, process>> /\ Ended(<<chosen[d], d>>)
    BY <1>3 DEF Ends, MustRecycle
  <2> QED
    BY <1>1, <1>3, <2>1, ReportsKeeps
<1>4. CASE Ends(d) /\ MustRecycle(d)
  <2>1. /\ phase[d] = "ending" /\ phase' = [phase EXCEPT ![d] = "exiting"] /\ Recycle(at[d])
        /\ fine' = [fine EXCEPT ![d] = fine[d] \cup IF Ended(<<chosen[d], d>>) THEN {"chosen"} ELSE {}]
        /\ UNCHANGED <<slots, told>>
    BY <1>4 DEF Ends
  <2>2. at[d] # 0 /\ at[d] \in 1 .. gen
    BY <1>1, AtRange DEF Right, Knows, Using, Host
  <2>3. /\ ProcessRight' /\ ProcMoves /\ ProcessTypeOK' /\ LegTypeOK'
        /\ proc'[at[d]] # "up" /\ \A e \in Decisions : LegsKept(e)
    BY <1>1, <2>1, <2>2, RecycleMoves DEF Host
  <2>4. PICK f \in SUBSET {"others", "chosen"} :
          fine' = [fine EXCEPT ![d] = f] /\ ("chosen" \in f => Ended(<<chosen[d], d>>))
    <3>1. "chosen" \notin fine[d] /\ fine[d] \in SUBSET {"others", "chosen"}
      BY <1>1, <2>1 DEF Right, Knows, Host, PhaseTypeOK
    <3>2. CASE Ended(<<chosen[d], d>>)
      <4>1. fine[d] \cup {"chosen"} \in SUBSET {"others", "chosen"}
        BY <3>1
      <4> QED
        BY <2>1, <3>2, <4>1
    <3>3. CASE ~Ended(<<chosen[d], d>>)
      <4>1. fine[d] \cup {} \in SUBSET {"others", "chosen"} /\ "chosen" \notin fine[d] \cup {}
        BY <3>1
      <4> QED
        BY <2>1, <3>3, <4>1
    <3> QED
      BY <3>2, <3>3
  <2>5. /\ PhaseTypeOK' /\ phase'[d] = "exiting" /\ fine'[d] = f
        /\ \A e \in Decisions \ {d} : PlaceKept(e)
    BY <1>1, <2>1, <2>4 DEF Host, PhaseTypeOK, PlaceKept
  <2>6. Right(d)'
    <3>1. LegKept(d, First(d)) /\ LegKept(d, Hedge(d)) /\ grant' = grant
          /\ <<chosen[d], d>> \in {First(d), Hedge(d)} /\ Other(d) \in {First(d), Hedge(d)}
      BY <2>1, <2>3 DEF LegsKept, slots, Host, PhaseTypeOK, Other, First, Hedge
    <3>2. Knows(d)'
      BY <1>1, <2>1, <2>3, <2>5 DEF Right, Knows, Early, Using
    <3>3. SlotKnown(d)'
      BY <1>1, <2>1, <2>5, <3>1 DEF Right, SlotKnown, LegKept, Using, Hedge
    <3>4. Branched(d)'
      BY <1>1, <2>1, <2>5, <3>1 DEF Right, Branched, LegKept, Early, First, Hedge
    <3>5. TurnKnown(d, First(d))' /\ TurnKnown(d, Hedge(d))'
      BY <1>1, <2>2, <2>3, <3>1, ProcKept DEF Host, Right, TurnKnown, LegKept, Tracked, First, Hedge
    <3>6. Finished(d)'
      <4>1. told'[d] = "pending" /\ phase'[d] = "exiting"
        BY <1>1, <2>1, <2>5 DEF Right, Knows, Using
      <4>2. Over(d, Other(d))'
        BY <1>1, <2>3 DEF Over
      <4>3. "chosen" \in fine'[d] => Ended(<<chosen[d], d>>)'
        BY <1>1, <2>4, <2>5, <3>1 DEF Ended, LegKept
      <4> QED
        BY <4>1, <4>2, <4>3 DEF Finished
    <3> QED
      BY <3>2, <3>3, <3>4, <3>5, <3>6 DEF Right, First, Hedge
  <2> QED
    BY <2>1, <2>3, <2>5, <2>6, OneMoves, GrantsSame
<1> QED
  BY <1>2, <1>3, <1>4 DEF Ends

----------------------------------------------------------------------------
(* The runtime, and what leaves the decisions where they are                *)

LEMMA TurnMoves ==
    ASSUME Host, UNCHANGED <<slots, deciding, process>>, LegTypeOK', NEW l \in Branches, told[l[2]] = "pending",
           \A m \in Branches \ {l} : leg'[m] = leg[m],
           leg'[l].st = leg[l].st /\ leg'[l].lost = leg[l].lost,
           \/ leg'[l].run = leg[l].run
           \/ leg[l].run = "running" /\ leg'[l].run \in {"completed", "failed", "interrupted"}
    PROVE  Host'
<1>. DEFINE d == l[2]
<1>1. /\ ProcessRight' /\ ProcMoves /\ ProcessTypeOK' /\ PhaseTypeOK' /\ grant' = grant
      /\ UNCHANGED <<phase, told, at, found, chosen, fine, proc>>
  BY ProcessQuiet DEF Host, deciding, process, PhaseTypeOK, slots
<1>2. d \in Decisions /\ l \in {First(d), Hedge(d)}
  BY BranchOf
<1>3. \A e \in Decisions \ {d} : PlaceKept(e) /\ LegsKept(e)
  BY <1>1, <1>2, OneBranch DEF PlaceKept
<1>4. Right(d)'
  <2>1. Right(d) /\ \A m \in {First(d), Hedge(d)} : m # l => leg'[m] = leg[m]
    BY <1>2, Apart DEF Host, DecisionsRight
  <2>. First(d)' = First(d) /\ Hedge(d)' = Hedge(d) /\ Other(d)' = Other(d) /\ <<chosen[d], d>>' = <<chosen[d], d>>
    BY <1>1 DEF First, Hedge, Other
  <2>2. <<chosen[d], d>> \in {First(d), Hedge(d)} /\ Other(d) \in {First(d), Hedge(d)}
    BY <1>2 DEF Host, PhaseTypeOK, First, Hedge, Other
  <2>. HIDE DEF d
  <2>3. Knows(d)'
    BY <1>1, <2>1 DEF Right, Knows
  <2>4. SlotKnown(d)'
    BY <1>1, <1>2, <2>1 DEF Right, SlotKnown
  <2>5. Branched(d)'
    BY <1>1, <1>2, <2>1 DEF Right, Branched
  <2>6. TurnKnown(d, First(d))' /\ TurnKnown(d, Hedge(d))'
    BY <1>1, <1>2, <2>1 DEF Right, TurnKnown
  <2>7. Finished(d)'
    <3>1. told'[d] = "pending" /\ phase[d] # "end"
      BY <1>1, <2>1 DEF Right, Knows, d
    <3>2. Over(d, Other(d)) => Over(d, Other(d))'
      BY <1>1, <2>1, <2>2 DEF Over
    <3>3. Ended(<<chosen[d], d>>) => Ended(<<chosen[d], d>>)'
      BY <1>1, <2>1, <2>2 DEF Ended
    <3> QED
      BY <1>1, <2>1, <3>1, <3>2, <3>3 DEF Right, Finished
  <2> QED
    BY <2>3, <2>4, <2>5, <2>6, <2>7 DEF Right
<1> QED
  BY <1>1, <1>2, <1>3, <1>4, OneMoves, GrantsSame

LEMMA TurnKeeps ==
    ASSUME Host, NEW l \in Branches,
           \/ \E how \in {"completed", "failed", "interrupted"} : TurnEnds(l, how)
           \/ Violates(l)
    PROVE  Host'
<1>1. ASSUME NEW how \in {"completed", "failed", "interrupted"}, TurnEnds(l, how) PROVE Host'
  <2>1. /\ leg' = [leg EXCEPT ![l].run = how] /\ leg[l].run = "running" /\ told[l[2]] = "pending"
        /\ UNCHANGED <<slots, deciding, process>>
    BY <1>1 DEF TurnEnds
  <2>2. /\ LegTypeOK' /\ \A m \in Branches \ {l} : leg'[m] = leg[m]
        /\ leg'[l].run = how /\ leg'[l].st = leg[l].st /\ leg'[l].lost = leg[l].lost
    BY <2>1 DEF Host, LegTypeOK
  <2> QED
    BY <2>1, <2>2, TurnMoves
<1>2. CASE Violates(l)
  <2>1. /\ leg' = [leg EXCEPT ![l].bad = TRUE] /\ told[l[2]] = "pending"
        /\ UNCHANGED <<slots, deciding, process>>
    BY <1>2 DEF Violates
  <2>2. /\ LegTypeOK' /\ \A m \in Branches \ {l} : leg'[m] = leg[m]
        /\ leg'[l].run = leg[l].run /\ leg'[l].st = leg[l].st /\ leg'[l].lost = leg[l].lost
    BY <2>1 DEF Host, LegTypeOK
  <2> QED
    BY <2>1, <2>2, TurnMoves
<1> QED
  BY <1>1, <1>2

\* The steps of primers, evictions and callers.
LEMMA QuietKeeps ==
    ASSUME Host, UNCHANGED <<slots, phase, told, found, chosen, fine, leg, process>>, gone' \subseteq Decisions,
           at' \in [Askers -> 0 .. MaxGens], \A d \in Decisions : at'[d] = at[d], \A x \in Askers : at'[x] <= gen
    PROVE  Host'
<1>1. ProcessRight' /\ ProcMoves /\ ProcessTypeOK'
  BY DEF Host, ProcessRight, ProcMoves, process, ProcessTypeOK
<1>2. PhaseTypeOK' /\ LegTypeOK'
  BY DEF Host, PhaseTypeOK, LegTypeOK
<1>3. \A d \in Decisions : Steady(d)
  BY LegsSame, GrantsSame, Apart DEF Steady, PlaceKept
<1> QED
  BY <1>1, <1>2, <1>3, AllSteady

LEMMA CallersKeep ==
    ASSUME Host,
           \/ \E d \in Decisions : GoesAway(d)
           \/ \E x \in Warmups : Warm(x)
           \/ \E S \in SUBSET Unused, K \in SUBSET Keys : EvictIdle(S, K)
           \/ \E k \in Keys : Evict(k)
    PROVE  Host'
<1>0. /\ at \in [Askers -> 0 .. MaxGens] /\ gone \subseteq Decisions /\ \A x \in Askers : at[x] <= gen
      /\ conn \in 0 .. MaxGens /\ conn \in {0, gen} /\ gen \in Nat
  BY CodexPrimedAssumption DEF Host, PhaseTypeOK, ProcessTypeOK, ProcessRight
<1>1. ASSUME NEW d \in Decisions, GoesAway(d) PROVE Host'
  BY <1>0, <1>1, QuietKeeps, Apart DEF GoesAway
<1>2. ASSUME NEW x \in Warmups, Warm(x) PROVE Host'
  <2>1. at' = [at EXCEPT ![x] = conn] /\ UNCHANGED <<slots, phase, told, gone, found, chosen, fine, leg, process>>
    BY <1>2 DEF Warm
  <2>2. /\ at' \in [Askers -> 0 .. MaxGens] /\ \A d \in Decisions : at'[d] = at[d]
        /\ \A y \in Askers : at'[y] <= gen
    BY <1>0, <2>1, Apart
  <2> QED
    BY <1>0, <2>1, <2>2, QuietKeeps
<1>3. ASSUME NEW S \in SUBSET Unused, NEW K \in SUBSET Keys, EvictIdle(S, K) PROVE Host'
  BY <1>0, <1>3, QuietKeeps, Apart DEF EvictIdle, deciding
<1>4. ASSUME NEW k \in Keys, Evict(k) PROVE Host'
  BY <1>0, <1>4, QuietKeeps, Apart DEF Evict, deciding
<1> QED
  BY <1>1, <1>2, <1>3, <1>4

\* A primer that broke the policy, or whose turn/start was never answered, recycles.
LEMMA BackgroundKeeps ==
    ASSUME Host, \A x \in Askers : at[x] = 0 => primer[x].at = "none", Background
    PROVE  Host'
<1>0. /\ at \in [Askers -> 0 .. MaxGens] /\ gone \subseteq Decisions /\ \A x \in Askers : at[x] <= gen
      /\ gen \in Nat
  BY CodexPrimedAssumption DEF Host, PhaseTypeOK, ProcessTypeOK, ProcessRight
<1>1. ASSUME NEW x \in Askers, PrimerStarts(x) \/ PrimerThread(x) \/ PrimerCompletes(x) PROVE Host'
  BY <1>0, <1>1, QuietKeeps, Apart DEF PrimerStarts, PrimerThread, PrimerCompletes, deciding
<1>2. ASSUME NEW x \in Askers, NEW b \in BOOLEAN, PrimerFails(x, b) PROVE Host'
  <2>1. CASE ~b
    BY <1>0, <1>2, <2>1, QuietKeeps, Apart DEF PrimerFails, deciding
  <2>2. CASE b
    <3>1. Recycle(at[x]) /\ UNCHANGED <<slots, deciding>> /\ primer[x].at = "turn"
      BY <1>2, <2>2 DEF PrimerFails
    <3>2. at[x] \in 1 .. gen
      BY <1>0, <3>1
    <3>3. /\ ProcessRight' /\ ProcMoves /\ ProcessTypeOK' /\ LegTypeOK'
          /\ \A d \in Decisions : LegsKept(d)
      BY <3>1, <3>2, RecycleMoves DEF Host, deciding
    <3>4. PhaseTypeOK' /\ \A d \in Decisions : Steady(d)
      BY <3>1, <3>3, GrantsSame, Apart DEF Host, PhaseTypeOK, deciding, Steady, PlaceKept
    <3> QED
      BY <3>3, <3>4, AllSteady
  <2> QED
    BY <2>1, <2>2
<1>3. CASE ProcessStarts \/ ProcessFails \/ CloseKills
  <2>1. /\ ProcessRight' /\ ProcMoves /\ ProcessTypeOK' /\ \A d \in Decisions : LegsKept(d)
    BY <1>3, ServiceMoves DEF Host
  <2>2. UNCHANGED <<slots, deciding, leg>>
    BY <1>3 DEF ProcessStarts, ProcessFails, CloseKills
  <2>3. PhaseTypeOK' /\ LegTypeOK' /\ \A d \in Decisions : Steady(d)
    BY <2>1, <2>2, GrantsSame, Apart DEF Host, PhaseTypeOK, LegTypeOK, deciding, Steady, PlaceKept
  <2> QED
    BY <2>1, <2>3, AllSteady
<1> QED
  BY <1>1, <1>2, <1>3 DEF Background

LEMMA LostKeeps == ASSUME Host, NEW g \in Gens, ProcessLost(g) PROVE Host'
<1>1. /\ ProcessRight' /\ ProcMoves /\ ProcessTypeOK' /\ LegTypeOK'
      /\ \A d \in Decisions : LegsKept(d)
  BY LostMoves DEF Host
<1>2. UNCHANGED <<slots, deciding>>
  BY DEF ProcessLost
<1>3. PhaseTypeOK' /\ \A d \in Decisions : Steady(d)
  BY <1>1, <1>2, GrantsSame, Apart DEF Host, PhaseTypeOK, deciding, Steady, PlaceKept
<1> QED
  BY <1>1, <1>3, AllSteady

\* close(): the decisions that wait for a slot are refused.
LEMMA CloseKeeps == ASSUME Host, SlotsTypeOK, Close PROVE Host'
<1>1. /\ UNCHANGED <<gone, at, found, chosen, fine, leg, process>>
      /\ phase' = [d \in Decisions |-> IF grant[d] = "waiting" THEN "end" ELSE phase[d]]
      /\ told' = [d \in Decisions |-> IF grant[d] = "waiting" THEN "unsent" ELSE told[d]]
      /\ \A h \in Holders : grant'[h] = IF grant[h] = "waiting" THEN "over" ELSE grant[h]
  BY DEF Close, Drain
<1>2. ProcessRight' /\ ProcMoves /\ ProcessTypeOK' /\ PhaseTypeOK' /\ LegTypeOK'
  BY <1>1, ProcessQuiet DEF Host, PhaseTypeOK, LegTypeOK
<1>3. ASSUME NEW d \in Decisions PROVE Right(d)'
  <2>1. Right(d)
    BY DEF Host, DecisionsRight
  <2>2. GrantKept(Hedge(d))
    BY <1>1, <2>1, Apart DEF Right, SlotKnown, GrantKept
  <2>3. LegsKept(d)
    BY <1>1, LegsSame
  <2>4. CASE grant[d] # "waiting"
    <3>1. Steady(d)
      BY <1>1, <2>2, <2>3, <2>4, Apart DEF Steady, PlaceKept, GrantKept
    <3> QED
      BY <1>2, <2>1, <3>1, SteadyStays DEF Host
  <2>5. CASE grant[d] = "waiting"
    <3>1. phase[d] = "slot" /\ phase'[d] = "end" /\ told'[d] = "unsent" /\ grant'[d] = "over"
      BY <1>1, <2>1, <2>5, Apart DEF Right, SlotKnown
    <3>2. Knows(d)' /\ Branched(d)'
      BY <1>1, <2>1, <3>1 DEF Right, Knows, Branched, Early, Using, First, Hedge
    <3>3. SlotKnown(d)'
      BY <1>1, <2>1, <2>2, <3>1 DEF Right, SlotKnown, Branched, GrantKept, Early, Using, Hedge
    <3>4. Finished(d)' /\ TurnKnown(d, First(d))' /\ TurnKnown(d, Hedge(d))'
      BY <1>1, <2>1, <3>1, <1>2 DEF Right, Finished, Over, Seen, TurnKnown, Branched, Early, First, Hedge, process
    <3> QED
      BY <3>2, <3>3, <3>4 DEF Right
  <2> QED
    BY <2>4, <2>5
<1> QED
  BY <1>2, <1>3 DEF Host, DecisionsRight

----------------------------------------------------------------------------
(* Every handler and every event                                            *)

LEMMA HandlersKeep ==
    ASSUME Host, SlotsTypeOK, SlotsConserved, sessions \in [Keys -> Askers \cup {Nobody}], spec \in Specs,
           NEW d \in Decisions, Handlers(d)
    PROVE  Host'
<1>1. CASE LeavesQueue(d) \/ Proceeds(d) \/ ProcessRefused(d) \/ Looks(d)
  BY <1>1, LeavesKeeps, ProceedsKeeps, RefusedKeeps, LooksKeeps
<1>2. CASE Opened(d) \/ OpenRefused(d) \/ OpenFails(d) \/ Admits(d) \/ AdmissionFails(d)
  BY <1>2, OpenedKeeps, OpenEndsKeeps, AdmitsKeeps
<1>3. CASE StartAnswered(d) \/ StartRefused(d) \/ StartUnanswered(d) \/ StartFailed(d)
  BY <1>3, StartKeeps, StartRefusedKeeps, UnansweredKeeps, OpenEndsKeeps
<1>4. CASE HedgeOpens(d) \/ HedgeWrites(d) \/ HedgeStarts(d) \/ HedgeFails(d, TRUE) \/ HedgeFails(d, FALSE)
  BY <1>4, HedgeKeeps
<1>5. CASE \/ LegDecides(d, "first") \/ LegDecides(d, "hedge") \/ TimesOut(d)
           \/ OtherStops(d) \/ OtherRecycled(d) \/ Ends(d) \/ Exits(d)
  BY <1>5, RaceKeeps, StopsKeeps, EndsKeeps
<1> QED
  BY <1>1, <1>2, <1>3, <1>4, <1>5 DEF Handlers

LEMMA HostKept ==
    ASSUME Host, SlotsTypeOK, SlotsConserved, sessions \in [Keys -> Askers \cup {Nobody}], spec \in Specs,
           PrimersRight, Next
    PROVE  Host'
<1>1. CASE Background
  BY <1>1, BackgroundKeeps DEF PrimersRight, Priming
<1>2. CASE Events
  <2>1. ASSUME NEW d \in Decisions, Decide(d) PROVE Host'
    BY <2>1, DecideKeeps
  <2>2. ASSUME NEW l \in Branches,
               TurnEnds(l, "completed") \/ TurnEnds(l, "failed") \/ TurnEnds(l, "interrupted") \/ Violates(l)
        PROVE  Host'
    BY <2>2, TurnKeeps
  <2> QED
    BY <1>2, <2>1, <2>2, CallersKeep, LostKeeps, CloseKeeps DEF Events
<1> QED
  BY <1>1, <1>2, HandlersKeep DEF Next

----------------------------------------------------------------------------
(* The decisions that use a session                                         *)

LEMMA UsersFinite == ASSUME NEW s PROVE IsFiniteSet(Users(s)) /\ Cardinality(Users(s)) \in Nat
<1>1. Users(s) \subseteq Holders
  BY CodexPrimedAssumption DEF Users
<1>2. IsFiniteSet(Users(s))
  BY <1>1, SlotsAssumption, FS_Subset
<1> QED
  BY <1>2, FS_CardinalityType

LEMMA UsersNone ==
    ASSUME Counted, NEW s \in Askers
    PROVE  sess[s].inUse = 0 <=> Users(s) = {}
  BY UsersFinite, FS_EmptySet DEF Counted

LEMMA UserCounts ==
    ASSUME Counted, NEW d \in Decisions, found[d] \in Askers, phase[d] \in Using
    PROVE  d \in Users(found[d]) /\ sess[found[d]].inUse \in Nat \ {0}
<1>1. d \in Users(found[d])
  BY DEF Users
<1>2. Cardinality(Users(found[d])) # 0
  BY <1>1, UsersFinite, FS_EmptySet
<1> QED
  BY <1>1, <1>2, UsersFinite DEF Counted

UsersSame == \A s \in Askers : Users(s)' = Users(s)

LEMMA UsersStay ==
    ASSUME \A d \in Decisions : /\ found'[d] = found[d]
                                /\ found[d] # Nobody => (phase'[d] \in Using <=> phase[d] \in Using)
    PROVE  UsersSame
  BY Apart DEF UsersSame, Users

LEMMA CountedSame ==
    ASSUME Counted, UsersSame, \A s \in Askers : sess'[s].inUse = sess[s].inUse
    PROVE  Counted'
  BY DEF Counted, UsersSame

LEMMA CountedStep ==
    ASSUME Counted, NEW d, NEW s \in Askers,
           \A r \in Askers \ {s} : Users(r)' = Users(r) /\ sess'[r].inUse = sess[r].inUse,
           \/ d \notin Users(s) /\ Users(s)' = Users(s) \cup {d} /\ sess'[s].inUse = sess[s].inUse + 1
           \/ d \in Users(s) /\ Users(s)' = Users(s) \ {d} /\ sess'[s].inUse = sess[s].inUse - 1
    PROVE  Counted'
<1>1. IsFiniteSet(Users(s)) /\ Cardinality(Users(s)) \in Nat /\ sess[s].inUse = Cardinality(Users(s))
  BY UsersFinite DEF Counted
<1>2. CASE d \notin Users(s) /\ Users(s)' = Users(s) \cup {d} /\ sess'[s].inUse = sess[s].inUse + 1
  <2>1. Cardinality(Users(s)') = Cardinality(Users(s)) + 1
    BY <1>1, <1>2, FS_AddElement
  <2> QED
    BY <1>1, <1>2, <2>1 DEF Counted
<1>3. CASE d \in Users(s) /\ Users(s)' = Users(s) \ {d} /\ sess'[s].inUse = sess[s].inUse - 1
  <2>1. Cardinality(Users(s)') = Cardinality(Users(s)) - 1
    BY <1>1, <1>3, FS_RemoveElement
  <2> QED
    BY <1>1, <1>3, <2>1 DEF Counted
<1> QED
  BY <1>2, <1>3

----------------------------------------------------------------------------
(* What a step may do to a session that it leaves in place                  *)

PrimerKept(x) ==
    /\ primer'[x] = primer[x] /\ sess'[x].gen = sess[x].gen
    /\ primer[x].at # "none" => at'[x] = at[x] /\ at[x] # starting'
    /\ x \in Decisions /\ phase'[x] \in Early => phase[x] \in Early
    /\ primer[x].at = "turn" /\ conn' = at[x] => x \in threads'
    /\ primer[x].at # "end" => /\ sess'[x].stale = sess[x].stale /\ sess'[x].inUse = sess[x].inUse
                               /\ \A k \in Keys : sessions'[k] # x
                               /\ \A d \in Decisions : found'[d] # x

LEMMA PrimingStays == ASSUME NEW x \in Askers, Priming(x), PrimerKept(x) PROVE Priming(x)'
  BY DEF Priming, PrimerKept

Keeps(s) ==
    /\ sess'[s].gen = sess[s].gen /\ (sess[s].stale => sess'[s].stale) /\ (sess[s].evicted => sess'[s].evicted)
    /\ s \in threads' => s \in threads
    /\ s \in InMap(sessions)' => sess'[s].stale = sess[s].stale
    /\ Serves(s)' =>
         /\ s \in threads \ threads' => /\ s \notin InMap(sessions)'
                                        /\ closed' \/ Users(s)' = {} \/ sess'[s].evicted
         /\ s \in threads' /\ ~closed' =>
              /\ s \in InMap(sessions) \ InMap(sessions)' => sess'[s].stale /\ Users(s)' # {}
              /\ sess[s].stale /\ Users(s) # {} => Users(s)' # {}
              /\ primer[s].at = "turn" => primer'[s].at = "turn"
         /\ ~closed' /\ Users(s)' # {} => Users(s) # {} \/ s \in InMap(sessions)
Shrinks == \A k \in Keys : sessions'[k] \in {sessions[k], Nobody}

LEMMA InMapIs ==
    ASSUME MapRight, spec \in Specs, sessions \in [Keys -> Askers \cup {Nobody}], NEW k \in Keys, sessions[k] # Nobody
    PROVE  sessions[k] \in InMap(sessions) /\ sessions[k] \in Askers
  BY DEF MapRight, InMap

LEMMA SessionsStay ==
    ASSUME PrimedTypeOK, spec \in Specs, MapRight, HeldRight, ThreadsUsed, conn' \in {conn, 0}, UNCHANGED spec,
           closed => closed', threads' \subseteq Askers, Shrinks, \A s \in Askers : Keeps(s)
    PROVE  MapRight' /\ HeldRight' /\ ThreadsUsed'
<1>1. \A s \in Askers : Serves(s)' => Serves(s)
  BY DEF Serves, Keeps
<1>2. MapRight'
  <2> SUFFICES ASSUME NEW k \in Keys, sessions'[k] # Nobody
               PROVE  /\ Key[sessions'[k]] = k /\ ~sess'[sessions'[k]].stale /\ sess'[sessions'[k]].gen # 0
                      /\ Serves(sessions[k])' => sessions'[k] \in threads'
    BY DEF MapRight, Key, Keys
  <2>1. sessions'[k] = sessions[k] /\ sessions[k] \in Askers /\ sessions[k] \in InMap(sessions)
    BY InMapIs DEF Shrinks, PrimedTypeOK
  <2>2. Keeps(sessions[k]) /\ Key[sessions[k]] = k /\ ~sess[sessions[k]].stale /\ sess[sessions[k]].gen # 0
        /\ (Serves(sessions[k]) => sessions[k] \in threads)
    BY <2>1 DEF MapRight
  <2>3. sessions[k] \in InMap(sessions)'
    BY <2>1, <2>2 DEF InMap, Key
  <2> QED
    BY <1>1, <2>1, <2>2, <2>3 DEF Keeps, Serves
<1>3. HeldRight'
  <2> SUFFICES ASSUME NEW s \in Askers, Users(s)' # {}, Serves(s)', ~closed'
               PROVE  s \in threads' \/ sess'[s].evicted
    BY DEF HeldRight
  <2>1. Keeps(s) /\ Serves(s) /\ ~closed
    BY <1>1
  <2>2. CASE Users(s) # {}
    BY <2>1, <2>2 DEF HeldRight, Keeps
  <2>3. CASE s \in InMap(sessions)
    <3>1. s \in threads
      BY <2>1, <2>3, KeyTyped, Apart DEF InMap, MapRight
    <3> QED
      BY <2>1, <3>1 DEF Keeps
  <2> QED
    BY <2>1, <2>2, <2>3 DEF Keeps
<1>4. ThreadsUsed'
  <2> SUFFICES ASSUME NEW s \in threads', Serves(s)', ~closed'
               PROVE  s \in InMap(sessions)' \/ (sess'[s].stale /\ Users(s)' # {}) \/ primer'[s].at = "turn"
    BY DEF ThreadsUsed
  <2>1. s \in Askers /\ s \in threads
    BY DEF Keeps
  <2>2. Keeps(s) /\ Serves(s) /\ ~closed
    BY <1>1, <2>1
  <2> QED
    BY <2>1, <2>2 DEF ThreadsUsed, Keeps
<1> QED
  BY <1>2, <1>3, <1>4

----------------------------------------------------------------------------
(* Steps that leave the sessions alone                                      *)

SessType   == [Askers -> [gen : 0 .. MaxGens, inUse : Nat, stale : BOOLEAN, warm : BOOLEAN, evicted : BOOLEAN]]
KeyRecord  == [last : Hashes \cup {Nobody}, volatile : BOOLEAN, priming : Askers \cup {Nobody}, epoch : Nat]
PrimerType == [Askers -> [at : {"none", "queued", "thread", "turn", "end"}, epoch : Nat]]

LEMMA SessionTypes ==
    PrimedTypeOK <=> /\ sessions \in [Keys -> Askers \cup {Nobody}] /\ sess \in SessType
                     /\ keys \in [Keys -> KeyRecord] /\ primer \in PrimerType /\ threads \subseteq Askers
  BY DEF PrimedTypeOK, SessType, KeyRecord, PrimerType

Sessions == PrimedTypeOK /\ SessionsRight

LEMMA Known ==
    ASSUME Inductive
    PROVE  /\ Host /\ SlotsTypeOK /\ SlotsConserved /\ spec \in Specs
           /\ PrimedTypeOK /\ PrimersRight /\ MapRight /\ Counted /\ HeldRight /\ ThreadsUsed
           /\ sessions \in [Keys -> Askers \cup {Nobody}]
           /\ \A d \in Decisions : Knows(d) /\ found[d] \in Askers \cup {Nobody}
           /\ \A x \in Askers : at[x] \in Nat /\ at[x] <= gen /\ at[x] <= MaxGens
           /\ gen \in Nat /\ MaxGens \in Nat /\ conn \in {0, gen} /\ starting \in {0, gen} /\ gen <= MaxGens
  BY CodexPrimedAssumption
     DEF Inductive, TypeOK, Host, SessionsRight, PrimedTypeOK, DecisionsRight, Right, PhaseTypeOK,
         ProcessTypeOK, ProcessRight

LEMMA QuietSessions ==
    ASSUME Inductive, UNCHANGED <<sessions, sess, primer, threads, found, spec>>, keys' \in [Keys -> KeyRecord],
           conn' \in {conn, 0}, closed => closed',
           \A d \in Decisions : /\ found[d] # Nobody => (phase'[d] \in Using <=> phase[d] \in Using)
                                /\ phase'[d] \in Early => phase[d] \in Early,
           \A x \in Askers : primer[x].at # "none" => at'[x] = at[x] /\ at[x] # starting'
    PROVE  Sessions'
<1>1. PrimedTypeOK'
  BY Known, SessionTypes DEF PrimedTypeOK, KeyRecord
<1>2. UsersSame
  BY UsersStay
<1>3. PrimersRight'
  <2> SUFFICES ASSUME NEW x \in Askers PROVE Priming(x)'
    BY DEF PrimersRight
  <2>1. Priming(x) /\ (at[x] = 0 => primer[x].at = "none")
    BY Known DEF PrimersRight, Priming
  <2>2. PrimerKept(x)
    BY <2>1 DEF Priming, PrimerKept
  <2> QED
    BY <2>1, <2>2, PrimingStays
<1>4. \A s \in Askers : Keeps(s)
  BY <1>2 DEF Keeps, InMap, Key, UsersSame
<1>5. MapRight' /\ HeldRight' /\ ThreadsUsed'
  BY <1>4, Known, SessionsStay DEF Shrinks, PrimedTypeOK
<1>6. Counted'
  BY <1>2, Known, CountedSame
<1> QED
  BY <1>1, <1>3, <1>5, <1>6 DEF Sessions, SessionsRight

\* A decision that has a session goes on with it.
LEMMA GoesOnSessions ==
    ASSUME Inductive, UNCHANGED <<primed, found, at, starting, spec, closing>>, conn' \in {conn, 0},
           NEW d \in Decisions, NEW to, phase' = [phase EXCEPT ![d] = to],
           \/ phase[d] \in Using /\ to \in Using
           \/ phase[d] \in Early /\ to \in Early \cup {"end"}
    PROVE  Sessions'
<1>1. \A x \in Askers : primer[x].at # "none" => at[x] # starting'
  BY Known DEF PrimersRight, Priming
<1>2. keys' \in [Keys -> KeyRecord] /\ (closed => closed')
  BY Known, SessionTypes DEF primed, closed
<1>3. \A e \in Decisions : phase'[e] = IF e = d THEN to ELSE phase[e]
  BY Known DEF Host, PhaseTypeOK
<1>4. \A e \in Decisions : found[e] # Nobody => phase[e] \notin Early
  BY Known DEF Knows
<1>5. \A e \in Decisions : /\ found[e] # Nobody => (phase'[e] \in Using <=> phase[e] \in Using)
                           /\ phase'[e] \in Early => phase[e] \in Early
  BY <1>3, <1>4 DEF Early, Using
<1> QED
  BY <1>1, <1>2, <1>5, QuietSessions DEF primed

LEMMA IdleSessions ==
    ASSUME Inductive, UNCHANGED <<primed, phase, found, at, spec>>, starting' \in {starting, 0}, conn' \in {conn, 0},
           closed => closed'
    PROVE  Sessions'
<1>1. \A x \in Askers : primer[x].at # "none" => at[x] # starting'
  BY Known DEF PrimersRight, Priming
<1>2. keys' \in [Keys -> KeyRecord]
  BY Known, SessionTypes DEF primed
<1> QED
  BY <1>1, <1>2, QuietSessions DEF primed

LEMMA RecycleConn == ASSUME NEW g, Recycle(g) PROVE conn' \in {conn, 0} /\ UNCHANGED <<gen, starting, spec>>
  BY DEF Recycle, fixed

LEMMA EarlySessions ==
    ASSUME Inductive, NEW d \in Decisions, Decide(d) \/ LeavesQueue(d) \/ Proceeds(d) \/ ProcessRefused(d)
    PROVE  Sessions'
<1>1. CASE Decide(d) \/ LeavesQueue(d) \/ ProcessRefused(d)
  <2>1. /\ UNCHANGED <<primed, found, at, starting, spec, closing, conn>> /\ phase[d] \in Early
        /\ \E to \in {"slot", "end"} : phase' = [phase EXCEPT ![d] = to]
    BY <1>1 DEF Decide, LeavesQueue, ProcessRefused, Settle, process, fixed, Early
  <2>2. PICK to \in {"slot", "end"} : phase' = [phase EXCEPT ![d] = to]
    BY <2>1
  <2>3. to \in Early \cup {"end"}
    BY DEF Early
  <2> QED
    BY <2>1, <2>2, <2>3, GoesOnSessions
<1>2. CASE Proceeds(d)
  <2>1. UNCHANGED <<primed, found, spec, closing>> /\ phase[d] = "slot"
    BY <1>2 DEF Proceeds, fixed
  <2>2. CASE Settle(d, "unsent") /\ UNCHANGED <<at, process>>
    BY <2>1, <2>2, GoesOnSessions DEF Settle, process, Early
  <2>3. CASE GetsProcess(d) /\ phase' = [phase EXCEPT ![d] = "process"] /\ UNCHANGED <<slots, told>>
    <3>1. /\ \A x \in Askers \ {d} : at'[x] = at[x]
          /\ conn' = conn /\ starting' \in {starting, gen + 1}
      BY <2>3, Known DEF GetsProcess, process, Host, PhaseTypeOK
    <3>2. phase[d] \in Early /\ found[d] = Nobody /\ primer[d].at = "none"
      BY <2>1, Known, Apart DEF Knows, Early, PrimersRight, Priming
    <3>3. \A x \in Askers : primer[x].at # "none" => at'[x] = at[x] /\ at[x] # starting'
      BY <3>1, <3>2, Known DEF PrimersRight, Priming
    <3>4. \A e \in Decisions : /\ found[e] # Nobody => (phase'[e] \in Using <=> phase[e] \in Using)
                               /\ phase'[e] \in Early => phase[e] \in Early
      BY <2>3, <3>2, Known DEF Host, PhaseTypeOK
    <3>5. keys' \in [Keys -> KeyRecord] /\ (closed => closed')
      BY <2>1, Known, SessionTypes DEF primed, closed
    <3> QED
      BY <2>1, <3>1, <3>3, <3>4, <3>5, QuietSessions DEF primed
  <2> QED
    BY <1>2, <2>2, <2>3 DEF Proceeds
<1> QED
  BY <1>1, <1>2

LEMMA BranchSessions ==
    ASSUME Inductive, NEW d \in Decisions,
           \/ Opened(d) \/ Admits(d) \/ StartAnswered(d) \/ StartUnanswered(d)
           \/ OtherStops(d) \/ OtherRecycled(d) \/ LegDecides(d, "first") \/ LegDecides(d, "hedge") \/ TimesOut(d)
           \/ Ends(d) /\ MustRecycle(d)
    PROVE  Sessions'
<1>1. \/ /\ UNCHANGED <<primed, found, at, starting, spec, closing>> /\ conn' \in {conn, 0}
         /\ phase[d] \in Using /\ \E to \in Using : phase' = [phase EXCEPT ![d] = to]
      \/ UNCHANGED <<primed, found, at, starting, conn, phase, spec, closing>>
  <2>1. CASE Opened(d) \/ Admits(d) \/ StartAnswered(d)
    BY <2>1 DEF Opened, Admits, StartAnswered, process, fixed, Using
  <2>2. CASE StartUnanswered(d)
    BY <2>2, RecycleConn DEF StartUnanswered, fixed, Using
  <2>3. CASE OtherStops(d)
    <3>1. phase[d] = "stopping" /\ UNCHANGED <<primed, found, at, spec, closing>>
      BY <2>3 DEF OtherStops, fixed
    <3>2. UNCHANGED process \/ Recycle(at[d])
      BY <2>3 DEF OtherStops
    <3>3. conn' \in {conn, 0} /\ starting' = starting
      BY <3>2, RecycleConn DEF process
    <3>4. \E to \in {"ending", "recycling"} : phase' = [phase EXCEPT ![d] = to]
      BY <2>3 DEF OtherStops
    <3> QED
      BY <3>1, <3>3, <3>4 DEF Using
  <2>4. CASE OtherRecycled(d)
    BY <2>4 DEF OtherRecycled, process, fixed, Using
  <2>5. ASSUME NEW c, LegDecides(d, c)
        PROVE  /\ UNCHANGED <<primed, found, at, starting, conn, spec, closing>>
               /\ \/ phase[d] \in Using /\ \E to \in Using : phase' = [phase EXCEPT ![d] = to]
                  \/ UNCHANGED phase
    BY <2>5 DEF LegDecides, Decided, process, fixed, Using
  <2>6. CASE TimesOut(d)
    BY <2>6 DEF TimesOut, Decided, process, fixed, Using
  <2>7. CASE Ends(d) /\ MustRecycle(d)
    <3>1. /\ phase[d] = "ending" /\ phase' = [phase EXCEPT ![d] = "exiting"] /\ Recycle(at[d])
          /\ UNCHANGED <<sess, keys, threads, at, found, sessions, primer, closing, fixed>>
      BY <2>7 DEF Ends
    <3> QED
      BY <3>1, RecycleConn DEF fixed, primed, Using
  <2> QED
    BY <2>1, <2>2, <2>3, <2>4, <2>5, <2>6, <2>7
<1>2. CASE UNCHANGED <<primed, found, at, starting, conn, phase, spec, closing>>
  BY <1>2, IdleSessions DEF closed
<1>3. CASE /\ UNCHANGED <<primed, found, at, starting, spec, closing>> /\ conn' \in {conn, 0}
           /\ phase[d] \in Using /\ \E to \in Using : phase' = [phase EXCEPT ![d] = to]
  BY <1>3, GoesOnSessions
<1> QED
  BY <1>1, <1>2, <1>3

LEMMA RaceSessions ==
    ASSUME Inductive,
           \/ \E d \in Decisions : \/ HedgeOpens(d) \/ HedgeWrites(d) \/ HedgeStarts(d) \/ GoesAway(d)
                                   \/ \E b \in BOOLEAN : HedgeFails(d, b)
           \/ \E l \in Branches : Violates(l) \/ \E how \in {"completed", "failed", "interrupted"} : TurnEnds(l, how)
           \/ ProcessFails \/ CloseKills
    PROVE  Sessions'
<1>1. ASSUME NEW d \in Decisions,
             \/ HedgeOpens(d) \/ HedgeWrites(d) \/ HedgeStarts(d) \/ GoesAway(d)
             \/ \E b \in BOOLEAN : HedgeFails(d, b)
      PROVE  UNCHANGED <<primed, phase, found, at, spec, closing, starting, conn>>
  BY <1>1 DEF HedgeOpens, HedgeWrites, HedgeStarts, HedgeFails, GoesAway, deciding, process, fixed
<1>2. ASSUME NEW l \in Branches,
             Violates(l) \/ \E how \in {"completed", "failed", "interrupted"} : TurnEnds(l, how)
      PROVE  UNCHANGED <<primed, phase, found, at, spec, closing, starting, conn>>
  BY <1>2 DEF Violates, TurnEnds, deciding, process, fixed
<1>3. CASE ProcessFails
  BY <1>3, IdleSessions DEF ProcessFails, deciding, fixed, closed
<1>4. CASE CloseKills
  BY <1>4, IdleSessions DEF CloseKills, deciding, fixed, closed
<1> QED
  BY <1>1, <1>2, <1>3, <1>4, IdleSessions DEF closed

----------------------------------------------------------------------------
(* A session is handed back                                                 *)

\* A session that is in the map, or in use, is no primer's any more.
LEMMA Primed ==
    ASSUME Inductive, NEW s \in Askers,
           s \in InMap(sessions) \/ (\E k \in Keys : sessions[k] = s) \/ (\E d \in Decisions : found[d] = s)
    PROVE  primer[s].at = "end" /\ at[s] # 0
<1>1. Key[s] \in Keys /\ Priming(s)
  BY KeyTyped, Known DEF PrimersRight
<1> QED
  BY <1>1 DEF InMap, Priming

\* The thread of a session that serves is deleted.
LEMMA Deleted ==
    ASSUME Inductive, UNCHANGED <<conn, gen>>, NEW S, NEW s \in S, sess'[s].gen = sess[s].gen, Serves(s)'
    PROVE  s \in DeletedBy(S)
  BY Known DEF Serves, DeletedBy

LEMMA BackSessions ==
    ASSUME Inductive, UNCHANGED <<primer, found, at, starting, conn, gen, spec, closing>>,
           keys' \in [Keys -> KeyRecord], sess' \in SessType, sessions' \in [Keys -> Askers \cup {Nobody}],
           NEW d \in Decisions, phase[d] \in Using, phase' = [phase EXCEPT ![d] = "end"],
           NEW s \in Askers, found[d] = s,
           \A r \in Askers \ {s} : sess'[r] = sess[r],
           /\ sess'[s].gen = sess[s].gen /\ sess'[s].evicted = sess[s].evicted
           /\ sess'[s].inUse = sess[s].inUse - 1 /\ (sess[s].stale => sess'[s].stale),
           threads' = (IF sess'[s].stale /\ sess[s].inUse = 1 THEN threads \ DeletedBy({s}) ELSE threads),
           \/ sessions' = sessions /\ sess'[s].stale = sess[s].stale
           \/ sessions' = OutOfMap(sessions, {s}) /\ sess'[s].stale
    PROVE  Sessions'
<1>1. PrimedTypeOK'
  <2>1. primer' \in PrimerType /\ threads' \subseteq Askers
    BY Known, SessionTypes
  <2> QED
    BY <2>1 DEF PrimedTypeOK, SessType, KeyRecord, PrimerType
<1>2. /\ d \in Users(s) /\ Users(s)' = Users(s) \ {d}
      /\ \A r \in Askers \ {s} : Users(r)' = Users(r)
  <2>1. \A e \in Decisions : phase'[e] = IF e = d THEN "end" ELSE phase[e]
    BY Known DEF Host, PhaseTypeOK
  <2> QED
    BY <2>1 DEF Users, Using
<1>3. Counted'
  BY <1>2, Known, CountedStep
<1>4. Users(s)' = {} <=> sess[s].inUse = 1
  <2>1. IsFiniteSet(Users(s)') /\ Cardinality(Users(s)') \in Nat
    BY <1>2, UsersFinite, FS_Subset, FS_CardinalityType
  <2>2. sess'[s].inUse = Cardinality(Users(s)') /\ sess[s].inUse \in Nat
    BY <1>3, Known, SessionTypes DEF Counted, SessType
  <2> QED
    BY <2>1, <2>2, FS_EmptySet
<1>5. primer[s].at = "end"
  BY Primed
<1>6. Shrinks /\ \A r \in Askers \ {s} : r \in InMap(sessions)' <=> r \in InMap(sessions)
  <2>1. \A k \in Keys : sessions'[k] = sessions[k] \/ (sessions[k] = s /\ sessions'[k] = Nobody)
    BY DEF OutOfMap
  <2>2. \A r \in Askers : Key[r] \in Keys /\ Key'[r] = Key[r]
    BY KeyTyped, Known DEF Key
  <2> QED
    BY <2>1, <2>2, Apart DEF Shrinks, InMap
<1>7. s \in InMap(sessions)' => sess'[s].stale = sess[s].stale /\ s \in InMap(sessions)
  <2>1. Key[s] \in Keys /\ Key'[s] = Key[s]
    BY KeyTyped, Known DEF Key
  <2> QED
    BY <2>1, Apart DEF InMap, OutOfMap
<1>8. s \in InMap(sessions) \ InMap(sessions)' => sess'[s].stale
  <2>1. Key'[s] = Key[s]
    BY DEF Key
  <2> QED
    BY <2>1 DEF InMap
<1>9. PrimersRight'
  <2> SUFFICES ASSUME NEW x \in Askers PROVE Priming(x)'
    BY DEF PrimersRight
  <2>1. Priming(x) /\ \A e \in Decisions : phase'[e] \in Early => phase[e] \in Early
    BY Known DEF PrimersRight, Host, PhaseTypeOK, Early
  <2>2. primer[x].at # "end" => x # s /\ sess'[x] = sess[x] /\ \A k \in Keys : sessions'[k] # x
    BY <1>5, <1>6, <2>1, Apart DEF Priming, Shrinks
  <2>3. primer[x].at = "turn" /\ conn' = at[x] => x \in threads'
    BY <2>1, <2>2 DEF Priming, DeletedBy
  <2>4. sess'[x].gen = sess[x].gen
    OBVIOUS
  <2>5. PrimerKept(x)
    BY <2>1, <2>2, <2>3, <2>4, Apart DEF Priming, PrimerKept
  <2> QED
    BY <2>1, <2>5, PrimingStays
<1>10. ASSUME NEW r \in Askers \ {s} PROVE Keeps(r)
  <2>1. (r \in threads' <=> r \in threads) /\ Users(r)' = Users(r) /\ sess'[r] = sess[r]
    BY <1>2 DEF DeletedBy
  <2> QED
    BY <1>6, <2>1 DEF Keeps
<1>11. Keeps(s)
  <2>1. (s \in threads' => s \in threads) /\ (s \in threads \ threads' => sess'[s].stale /\ sess[s].inUse = 1)
    OBVIOUS
  <2>2. s \in InMap(sessions)' => ~sess'[s].stale
    <3>1. s \in InMap(sessions) => ~sess[s].stale
      BY Known, KeyTyped, Apart DEF InMap, MapRight
    <3> QED
      BY <1>7, <3>1
  <2>3. Serves(s)' /\ s \in threads' /\ sess'[s].stale => Users(s)' # {}
    BY <1>4, Deleted
  <2> QED
    BY <1>2, <1>4, <1>5, <1>7, <1>8, <2>1, <2>2, <2>3 DEF Keeps
<1>12. threads' \subseteq Askers /\ (closed => closed') /\ \A r \in Askers : Keeps(r)
  BY <1>1, <1>10, <1>11 DEF PrimedTypeOK, closed
<1>13. MapRight' /\ HeldRight' /\ ThreadsUsed'
  BY <1>6, <1>12, Known, SessionsStay
<1> QED
  BY <1>1, <1>3, <1>9, <1>13 DEF Sessions, SessionsRight

LEMMA HandsBackSessions ==
    ASSUME Inductive, NEW d \in Decisions, phase[d] \in Using, phase' = [phase EXCEPT ![d] = "end"],
           NEW served \in BOOLEAN, HandsBack(d, served), keys' \in [Keys -> KeyRecord],
           UNCHANGED <<sessions, primer, found, at, starting, conn, gen, spec, closing>>
    PROVE  Sessions'
<1>1. found[d] \in Askers \cup {Nobody} /\ sess \in SessType
  BY Known, SessionTypes
<1>2. CASE found[d] = Nobody
  <2>1. UNCHANGED <<sess, threads>>
    BY <1>2 DEF HandsBack
  <2>2. \A e \in Decisions : phase'[e] = IF e = d THEN "end" ELSE phase[e]
    BY Known DEF Host, PhaseTypeOK
  <2>3. \A e \in Decisions : /\ found[e] # Nobody => (phase'[e] \in Using <=> phase[e] \in Using)
                             /\ phase'[e] \in Early => phase[e] \in Early
    BY <1>2, <2>2 DEF Early
  <2>4. \A x \in Askers : primer[x].at # "none" => at'[x] = at[x] /\ at[x] # starting'
    BY Known DEF PrimersRight, Priming
  <2> QED
    BY <2>1, <2>3, <2>4, QuietSessions DEF closed
<1>3. CASE found[d] # Nobody
  <2>. DEFINE s == found[d]
  <2>1. s \in Askers /\ sess[s].inUse \in Nat \ {0}
    BY <1>1, <1>3, Known, UserCounts
  <2>2. sess[s].inUse - 1 \in Nat
    BY <2>1
  <2>3. PICK w \in BOOLEAN : w = (sess[s].warm \/ served)
    OBVIOUS
  <2>4. /\ sess' = [sess EXCEPT ![s].inUse = sess[s].inUse - 1, ![s].warm = sess[s].warm \/ served]
        /\ threads' = IF sess[s].stale /\ sess[s].inUse = 1 THEN threads \ DeletedBy({s}) ELSE threads
    BY <1>3 DEF HandsBack
  <2>5. sess' = [sess EXCEPT ![s].inUse = sess[s].inUse - 1, ![s].warm = w]
    BY <2>3, <2>4
  <2>6. /\ sess' \in SessType /\ \A r \in Askers \ {s} : sess'[r] = sess[r]
        /\ sess'[s].gen = sess[s].gen /\ sess'[s].evicted = sess[s].evicted
        /\ sess'[s].inUse = sess[s].inUse - 1 /\ sess'[s].stale = sess[s].stale
    BY <1>1, <2>1, <2>2, <2>5 DEF SessType
  <2>7. sessions' \in [Keys -> Askers \cup {Nobody}]
    BY Known
  <2>. HIDE DEF s
  <2>8. found[d] = s
    BY DEF s
  <2>9. threads' = (IF sess'[s].stale /\ sess[s].inUse = 1 THEN threads \ DeletedBy({s}) ELSE threads)
    BY <2>4, <2>6
  <2> QED
    BY <2>1, <2>6, <2>7, <2>8, <2>9, BackSessions
<1> QED
  BY <1>2, <1>3

\* Every end of a decision that was on its way.
LEMMA EndSessions ==
    ASSUME Inductive, NEW d \in Decisions,
           \/ OpenFails(d) \/ AdmissionFails(d) \/ StartFailed(d) \/ StartRefused(d)
           \/ Ends(d) /\ ~MustRecycle(d)
           \/ Exits(d)
    PROVE  Sessions'
<1>0. keys \in [Keys -> KeyRecord]
  BY Known, SessionTypes
<1>1. ASSUME NEW what, Finish(d, what), phase[d] \in Using,
             UNCHANGED <<at, found, process, sessions, keys, primer, closing, fixed>>
      PROVE  Sessions'
  <2>1. phase' = [phase EXCEPT ![d] = "end"] /\ HandsBack(d, FALSE)
    BY <1>1 DEF Finish, Settle
  <2> QED
    BY <1>0, <1>1, <2>1, HandsBackSessions DEF process, fixed
<1>2. CASE OpenFails(d) \/ AdmissionFails(d) \/ StartFailed(d)
  BY <1>1, <1>2 DEF OpenFails, AdmissionFails, StartFailed, Using
<1>3. CASE StartRefused(d)
  <2>1. /\ phase' = [phase EXCEPT ![d] = "end"] /\ HandsBack(d, FALSE) /\ phase[d] \in Using
        /\ UNCHANGED <<at, found, process, sessions, keys, primer, closing, fixed>>
    BY <1>3 DEF StartRefused, Settle, Using
  <2> QED
    BY <1>0, <2>1, HandsBackSessions DEF process, fixed
<1>4. ASSUME NEW over, Reports(d, over), phase[d] \in Using,
             UNCHANGED <<at, found, process, sessions, primer, closing, fixed>>
      PROVE  Sessions'
  <2>1. PICK served \in BOOLEAN : served = (Outcome(d, over) = "answered")
    OBVIOUS
  <2>2. HandsBack(d, Outcome(d, over) = "answered") /\ phase' = [phase EXCEPT ![d] = "end"]
    BY <1>4 DEF Reports, Settle
  <2>3. HandsBack(d, served)
    BY <2>1, <2>2
  <2>4. keys' = keys \/ keys' = [keys EXCEPT ![Key[d]].volatile = FALSE]
    BY <1>4 DEF Reports
  <2>5. keys' \in [Keys -> KeyRecord]
    BY <1>0, <2>4 DEF KeyRecord
  <2> QED
    BY <1>4, <2>2, <2>3, <2>5, HandsBackSessions DEF process, fixed
<1>5. CASE Ends(d) /\ ~MustRecycle(d)
  BY <1>4, <1>5 DEF Ends, Using
<1>6. CASE Exits(d)
  BY <1>4, <1>6 DEF Exits, Using
<1> QED
  BY <1>2, <1>3, <1>5, <1>6

LEMMA OutTyped ==
    ASSUME NEW S, sessions \in [Keys -> Askers \cup {Nobody}]
    PROVE  OutOfMap(sessions, S) \in [Keys -> Askers \cup {Nobody}]
  BY DEF OutOfMap

LEMMA RefusedSessions == ASSUME Inductive, NEW d \in Decisions, OpenRefused(d) PROVE Sessions'
<1>. DEFINE s == found[d]
<1>1. /\ phase[d] \in Using /\ phase' = [phase EXCEPT ![d] = "end"]
      /\ UNCHANGED <<primer, found, at, starting, conn, gen, spec, closing, keys>>
      /\ s # Nobody /\ sessions' = OutOfMap(sessions, {s})
      /\ sess' = [sess EXCEPT ![s].stale = TRUE, ![s].inUse = sess[s].inUse - 1]
      /\ threads' = IF sess[s].inUse = 1 THEN threads \ DeletedBy({s}) ELSE threads
  BY DEF OpenRefused, Settle, Using, process, fixed
<1>2. s \in Askers /\ sess[s].inUse \in Nat \ {0} /\ sess \in SessType /\ keys \in [Keys -> KeyRecord]
  BY <1>1, Known, UserCounts, SessionTypes
<1>3. sess[s].inUse - 1 \in Nat
  BY <1>2
<1>4. /\ sess' \in SessType /\ \A r \in Askers \ {s} : sess'[r] = sess[r]
      /\ sess'[s].gen = sess[s].gen /\ sess'[s].evicted = sess[s].evicted
      /\ sess'[s].inUse = sess[s].inUse - 1 /\ sess'[s].stale
  BY <1>1, <1>2, <1>3 DEF SessType
<1>5. sessions' \in [Keys -> Askers \cup {Nobody}]
  BY <1>1, OutTyped, Known
<1>. HIDE DEF s
<1>6. found[d] = s
  BY DEF s
<1>7. threads' = (IF sess'[s].stale /\ sess[s].inUse = 1 THEN threads \ DeletedBy({s}) ELSE threads)
  BY <1>1, <1>4
<1> QED
  BY <1>1, <1>2, <1>4, <1>5, <1>6, <1>7, BackSessions

----------------------------------------------------------------------------
(* Sessions leave the map                                                   *)

\* What is left as it was of a session that is still to be installed.
Untouched(x) ==
    /\ sess'[x].gen = sess[x].gen
    /\ primer[x].at # "end" => /\ sess'[x] = sess[x] /\ (x \in threads => x \in threads')
                               /\ \A k \in Keys : sessions'[k] # x

LEMMA RetireEffect ==
    ASSUME Inductive, NEW S \in SUBSET InMap(sessions), NEW R \in SUBSET S, \A s \in S \ R : sess[s].gen # gen,
           Retire(R), sessions' = OutOfMap(sessions, S), UNCHANGED <<conn, gen, spec, closing>>, UsersSame,
           \A x \in Askers : primer[x].at = "turn" => primer'[x].at = "turn"
    PROVE  /\ sess' \in SessType /\ sessions' \in [Keys -> Askers \cup {Nobody}] /\ threads' \subseteq Askers
           /\ MapRight' /\ HeldRight' /\ ThreadsUsed' /\ Counted'
           /\ \A x \in Askers : Untouched(x)
<1>1. /\ sess \in SessType /\ threads \subseteq Askers /\ sessions \in [Keys -> Askers \cup {Nobody}]
      /\ S \subseteq Askers
  BY Known, SessionTypes DEF InMap
<1>2. \A s \in Askers : sess'[s] = IF s \in R THEN [sess[s] EXCEPT !.stale = TRUE] ELSE sess[s]
  BY DEF Retire
<1>3. \A s \in Askers : /\ sess'[s].gen = sess[s].gen /\ sess'[s].evicted = sess[s].evicted
                        /\ sess'[s].inUse = sess[s].inUse /\ sess'[s].warm = sess[s].warm
                        /\ sess'[s].stale = (IF s \in R THEN TRUE ELSE sess[s].stale)
  BY <1>1, <1>2 DEF SessType
<1>4. sess' \in SessType
  <2>1. sess' = [s \in Askers |-> sess'[s]]
    BY DEF Retire
  <2>2. \A s \in Askers : sess'[s] \in [gen : 0 .. MaxGens, inUse : Nat, stale : BOOLEAN, warm : BOOLEAN,
                                        evicted : BOOLEAN]
    BY <1>1, <1>2 DEF SessType
  <2> QED
    BY <2>1, <2>2 DEF SessType
<1>5. sessions' \in [Keys -> Askers \cup {Nobody}]
  BY <1>1, OutTyped
<1>6. threads' = threads \ DeletedBy({s \in R : sess[s].inUse = 0})
  BY DEF Retire
<1>7. Shrinks /\ \A k \in Keys : sessions'[k] = IF sessions[k] \in S THEN Nobody ELSE sessions[k]
  BY DEF OutOfMap, Shrinks
<1>8. \A s \in Askers : s \in InMap(sessions)' <=> s \in InMap(sessions) /\ s \notin S
  <2>1. \A s \in Askers : Key[s] \in Keys /\ Key'[s] = Key[s]
    BY KeyTyped, Known DEF Key
  <2> QED
    BY <1>7, <2>1, Apart DEF InMap
<1>9. Counted'
  BY <1>3, Known, CountedSame
<1>10. ASSUME NEW s \in Askers PROVE Keeps(s)
  <2>1. s \in R => s \in S
    OBVIOUS
  <2>2. sess[s].inUse = 0 <=> Users(s) = {}
    BY Known, UsersNone
  <2>3. Serves(s)' /\ s \in R /\ sess[s].inUse = 0 => s \notin threads'
    BY <1>3, <1>6, Known DEF Serves, DeletedBy
  <2>4. Serves(s)' => s \notin S \ R
    BY <1>3, Known DEF Serves
  <2>5. s \in threads \ threads' => s \in R /\ sess[s].inUse = 0
    BY <1>6 DEF DeletedBy
  <2> QED
    BY <1>3, <1>6, <1>8, <2>1, <2>2, <2>3, <2>4, <2>5 DEF Keeps, UsersSame
<1>11. MapRight' /\ HeldRight' /\ ThreadsUsed'
  BY <1>1, <1>6, <1>7, <1>10, Known, SessionsStay DEF closed
<1>12. ASSUME NEW x \in Askers PROVE Untouched(x)
  <2>1. primer[x].at # "end" => x \notin S /\ \A k \in Keys : sessions[k] # x
    BY Primed
  <2> QED
    BY <1>2, <1>3, <1>6, <1>7, <2>1, Apart DEF Untouched, DeletedBy
<1> QED
  BY <1>1, <1>4, <1>5, <1>6, <1>9, <1>11, <1>12

LEMMA UntouchedStays ==
    ASSUME Inductive, NEW x \in Askers, Untouched(x), primer'[x] = primer[x], at'[x] = at[x],
           UNCHANGED conn, starting' \in {starting, 0}, x \in Decisions /\ phase'[x] \in Early => phase[x] \in Early,
           primer[x].at # "end" => \A d \in Decisions : found'[d] # x
    PROVE  Priming(x)'
<1>1. Priming(x)
  BY Known DEF PrimersRight
<1>2. PrimerKept(x)
  BY <1>1 DEF PrimerKept, Priming, Untouched
<1> QED
  BY <1>1, <1>2, PrimingStays

LEMMA SessionsTyped ==
    ASSUME sess' \in SessType, sessions' \in [Keys -> Askers \cup {Nobody}], threads' \subseteq Askers,
           keys' \in [Keys -> KeyRecord], primer' \in PrimerType
    PROVE  PrimedTypeOK'
  BY DEF PrimedTypeOK, SessType, KeyRecord, PrimerType

LEMMA IdleEvicted ==
    ASSUME Inductive, NEW S \in SUBSET Unused, NEW K \in SUBSET Keys, EvictIdle(S, K)
    PROVE  Sessions'
<1>1. /\ Retire(S) /\ sessions' = OutOfMap(sessions, S)
      /\ UNCHANGED <<phase, found, at, gen, conn, starting, primer, closing, spec>>
  BY DEF EvictIdle, deciding, process, fixed
<1>2. UsersSame
  BY <1>1, UsersStay
<1>3. S \in SUBSET InMap(sessions) /\ S \in SUBSET S /\ \A s \in S \ S : sess[s].gen # gen
  BY DEF Unused
<1>4. /\ sess' \in SessType /\ sessions' \in [Keys -> Askers \cup {Nobody}] /\ threads' \subseteq Askers
      /\ MapRight' /\ HeldRight' /\ ThreadsUsed' /\ Counted'
      /\ \A x \in Askers : Untouched(x)
  BY <1>1, <1>2, <1>3, RetireEffect
<1>5. keys' \in [Keys -> KeyRecord]
  <2>1. keys \in [Keys -> KeyRecord]
    BY Known, SessionTypes
  <2>2. \A k \in Keys : [last |-> Nobody, volatile |-> FALSE, priming |-> Nobody, epoch |-> keys[k].epoch + 1] \in KeyRecord
    BY <2>1 DEF KeyRecord
  <2>3. keys' = [k \in Keys |-> IF k \in K THEN [last |-> Nobody, volatile |-> FALSE, priming |-> Nobody,
                                                epoch |-> keys[k].epoch + 1] ELSE keys[k]]
    BY DEF EvictIdle
  <2> QED
    BY <2>1, <2>2, <2>3
<1>6. PrimedTypeOK'
  BY <1>1, <1>4, <1>5, Known, SessionTypes, SessionsTyped
<1>7. ASSUME NEW x \in Askers PROVE Priming(x)'
  <2>1. primer[x].at # "end" => \A d \in Decisions : found[d] # x
    BY Known DEF PrimersRight, Priming
  <2> QED
    BY <1>1, <1>4, <2>1, UntouchedStays
<1> QED
  BY <1>4, <1>6, <1>7 DEF Sessions, SessionsRight, PrimersRight

----------------------------------------------------------------------------
(* Background primes                                                        *)

LEMMA PrimerEndsTyped ==
    ASSUME Inductive, NEW x \in Askers, PrimerEnds(x)
    PROVE  /\ keys' \in [Keys -> KeyRecord] /\ primer' \in PrimerType
           /\ primer'[x].at = "end" /\ \A y \in Askers \ {x} : primer'[y] = primer[y]
<1>1. keys \in [Keys -> KeyRecord] /\ primer \in PrimerType /\ Key[x] \in Keys
  BY Known, SessionTypes, KeyTyped
<1>2. keys' = [keys EXCEPT ![Key[x]].priming = IF @ = x THEN Nobody ELSE @]
  BY DEF PrimerEnds
<1>3. keys' \in [Keys -> KeyRecord]
  BY <1>1, <1>2 DEF KeyRecord
<1>4. primer' = [primer EXCEPT ![x].at = "end"]
  BY DEF PrimerEnds
<1>5. primer' \in PrimerType /\ primer'[x].at = "end" /\ \A y \in Askers \ {x} : primer'[y] = primer[y]
  BY <1>1, <1>4 DEF PrimerType
<1> QED
  BY <1>3, <1>5

LEMMA PrimerEndSessions ==
    ASSUME Inductive, NEW x \in Askers, PrimerEnds(x), primer[x].at # "none",
           UNCHANGED <<sessions, sess, phase, found, at, starting, gen, spec, closing>>, conn' \in {conn, 0},
           \/ threads' = threads \ {x} /\ primer[x].at # "end"
           \/ threads' = threads /\ (primer[x].at = "turn" => ~Serves(x)')
    PROVE  Sessions'
<1>1. /\ keys' \in [Keys -> KeyRecord] /\ primer' \in PrimerType
      /\ primer'[x].at = "end" /\ \A y \in Askers \ {x} : primer'[y] = primer[y]
  BY PrimerEndsTyped
<1>2. PrimedTypeOK'
  BY <1>1, Known, SessionTypes, SessionsTyped
<1>3. UsersSame
  BY UsersStay
<1>4. Counted'
  BY <1>3, Known, CountedSame
<1>5. \A y \in Askers : Priming(y)
  BY Known DEF PrimersRight
<1>6. x \notin threads' /\ x \in threads => Users(x) = {} /\ x \notin InMap(sessions)
  <2>1. Key[x] \in Keys
    BY KeyTyped, Known
  <2> QED
    BY <1>5, <2>1 DEF Priming, Users, InMap
<1>7. ASSUME NEW s \in Askers PROVE Keeps(s)
  <2>1. s \in InMap(sessions)' <=> s \in InMap(sessions)
    BY DEF InMap, Key
  <2> QED
    BY <1>1, <1>3, <1>6, <2>1 DEF Keeps, UsersSame
<1>8. MapRight' /\ HeldRight' /\ ThreadsUsed'
  BY <1>2, <1>7, Known, SessionsStay DEF Shrinks, PrimedTypeOK, closed
<1>9. ASSUME NEW y \in Askers PROVE Priming(y)'
  <2>1. CASE y = x
    BY <1>1, <1>5, <2>1 DEF Priming
  <2>2. CASE y # x
    <3>1. PrimerKept(y)
      BY <1>1, <1>5, <2>2 DEF Priming, PrimerKept
    <3> QED
      BY <1>5, <3>1, PrimingStays
  <2> QED
    BY <2>1, <2>2
<1> QED
  BY <1>2, <1>4, <1>8, <1>9 DEF Sessions, SessionsRight, PrimersRight

LEMMA RoomRetires ==
    ASSUME Inductive, NEW S, MakeRoom(S)
    PROVE  \E T \in SUBSET S : Retire(T) /\ sessions' = OutOfMap(sessions, T)
<1>1. CASE UNCHANGED <<sessions, sess, threads>>
  <2>1. sess' = [s \in Askers |-> IF s \in {} THEN [sess[s] EXCEPT !.stale = TRUE] ELSE sess[s]]
    BY <1>1, Known, SessionTypes DEF SessType
  <2>2. Retire({})
    BY <1>1, <2>1 DEF Retire, DeletedBy
  <2>3. sessions' = OutOfMap(sessions, {})
    BY <1>1, Known DEF OutOfMap
  <2> QED
    BY <2>2, <2>3
<1> QED
  BY <1>1 DEF MakeRoom

LEMMA PrimerStartSessions == ASSUME Inductive, NEW x \in Askers, PrimerStarts(x) PROVE Sessions'
<1>1. /\ UNCHANGED <<phase, found, at, starting, gen, conn, spec, closing>> /\ primer[x].at = "queued"
  BY DEF PrimerStarts, deciding, process, fixed
<1>2. CASE PrimerEnds(x) /\ UNCHANGED <<sessions, sess, threads>>
  BY <1>1, <1>2, PrimerEndSessions
<1>3. CASE /\ primer' = [primer EXCEPT ![x].at = "thread"] /\ UNCHANGED keys
           /\ MakeRoom({s \in Unused : Key[s] # Key[x]})
  <2>1. PICK T \in SUBSET {s \in Unused : Key[s] # Key[x]} : Retire(T) /\ sessions' = OutOfMap(sessions, T)
    BY <1>3, RoomRetires
  <2>2. /\ primer' \in PrimerType /\ primer'[x].at = "thread" /\ \A y \in Askers \ {x} : primer'[y] = primer[y]
        /\ keys' \in [Keys -> KeyRecord]
    BY <1>3, Known, SessionTypes DEF PrimerType
  <2>3. UsersSame
    BY <1>1, UsersStay
  <2>4. T \in SUBSET InMap(sessions) /\ T \in SUBSET T /\ \A s \in T \ T : sess[s].gen # gen
    BY DEF Unused
  <2>5. \A y \in Askers : primer[y].at = "turn" => primer'[y].at = "turn"
    BY <1>1, <2>2
  <2>6. /\ sess' \in SessType /\ sessions' \in [Keys -> Askers \cup {Nobody}] /\ threads' \subseteq Askers
        /\ MapRight' /\ HeldRight' /\ ThreadsUsed' /\ Counted'
        /\ \A y \in Askers : Untouched(y)
    BY <1>1, <2>1, <2>3, <2>4, <2>5, RetireEffect
  <2>7. PrimedTypeOK'
    BY <2>2, <2>6, SessionsTyped
  <2>8. \A y \in Askers : Priming(y) /\ (primer[y].at # "end" => \A d \in Decisions : found[d] # y)
    BY Known DEF PrimersRight, Priming
  <2>9. ASSUME NEW y \in Askers PROVE Priming(y)'
    <3>1. CASE y = x
      BY <1>1, <2>2, <2>6, <2>8, <3>1 DEF Priming, Untouched
    <3>2. CASE y # x
      BY <1>1, <2>2, <2>6, <2>8, <3>2, UntouchedStays
    <3> QED
      BY <3>1, <3>2
  <2> QED
    BY <2>6, <2>7, <2>9 DEF Sessions, SessionsRight, PrimersRight
<1> QED
  BY <1>2, <1>3 DEF PrimerStarts

LEMMA PrimerThreadSessions == ASSUME Inductive, NEW x \in Askers, PrimerThread(x) PROVE Sessions'
<1>1. /\ UNCHANGED <<phase, found, at, starting, gen, conn, spec, closing, sessions, keys>>
      /\ primer[x].at = "thread" /\ at[x] # 0 /\ threads' = threads \cup {x}
      /\ primer' = [primer EXCEPT ![x].at = "turn"] /\ sess' = [sess EXCEPT ![x].gen = at[x]]
  BY DEF PrimerThread, deciding, process, fixed, Talks
<1>2. /\ sess \in SessType /\ primer \in PrimerType /\ keys \in [Keys -> KeyRecord] /\ threads \subseteq Askers
      /\ at[x] \in 0 .. MaxGens
  BY Known, SessionTypes
<1>3. /\ sess' \in SessType /\ sess'[x].gen = at[x] /\ \A y \in Askers \ {x} : sess'[y] = sess[y]
      /\ sess'[x].stale = sess[x].stale /\ sess'[x].inUse = sess[x].inUse
  BY <1>1, <1>2 DEF SessType
<1>4. primer' \in PrimerType /\ primer'[x].at = "turn" /\ \A y \in Askers \ {x} : primer'[y] = primer[y]
  BY <1>1, <1>2 DEF PrimerType
<1>5. PrimedTypeOK'
  BY <1>1, <1>2, <1>3, <1>4, Known, SessionsTyped
<1>6. UsersSame
  BY <1>1, UsersStay
<1>7. Counted'
  BY <1>3, <1>6, Known, CountedSame
<1>8. \A y \in Askers : Priming(y)
  BY Known DEF PrimersRight
<1>9. Users(x) = {} /\ \A k \in Keys : sessions[k] # x
  BY <1>1, <1>8 DEF Priming, Users
<1>10. MapRight'
  BY <1>1, <1>3, <1>9, Known DEF MapRight, Key, Keys, Serves
<1>11. HeldRight'
  BY <1>1, <1>3, <1>6, <1>9, Known DEF HeldRight, Serves, closed, UsersSame
<1>12. ThreadsUsed'
  <2> SUFFICES ASSUME NEW s \in threads', Serves(s)', ~closed'
               PROVE  s \in InMap(sessions)' \/ (sess'[s].stale /\ Users(s)' # {}) \/ primer'[s].at = "turn"
    BY DEF ThreadsUsed
  <2>1. CASE s = x
    BY <1>4, <2>1
  <2>2. CASE s # x
    <3>1. s \in threads /\ s \in Askers /\ sess'[s] = sess[s] /\ Serves(s) /\ ~closed
      BY <1>1, <1>2, <1>3, <2>2 DEF Serves, closed
    <3>2. s \in InMap(sessions) => s \in InMap(sessions)'
      BY <1>1 DEF InMap, Key
    <3> QED
      BY <1>4, <1>6, <2>2, <3>1, <3>2, Known DEF ThreadsUsed, UsersSame
  <2> QED
    BY <2>1, <2>2
<1>13. ASSUME NEW y \in Askers PROVE Priming(y)'
  <2>1. CASE y = x
    BY <1>1, <1>3, <1>4, <1>8, <2>1 DEF Priming
  <2>2. CASE y # x
    <3>1. PrimerKept(y)
      BY <1>1, <1>3, <1>4, <1>8, <2>2 DEF Priming, PrimerKept
    <3> QED
      BY <1>8, <3>1, PrimingStays
  <2> QED
    BY <2>1, <2>2
<1> QED
  BY <1>5, <1>7, <1>10, <1>11, <1>12, <1>13 DEF Sessions, SessionsRight, PrimersRight

\* It is installed, and what its key had before is retired.
LEMMA InstallSessions ==
    ASSUME Inductive, NEW x \in Askers, PrimerCompletes(x), Wanted(x)
    PROVE  Sessions'
<1>. DEFINE S == {sessions[Key[x]]} \ {Nobody}
<1>1. /\ UNCHANGED <<phase, found, at, starting, gen, conn, spec, closing>> /\ primer[x].at = "turn"
      /\ sessions' = [sessions EXCEPT ![Key[x]] = x] /\ Retire(S)
      /\ primer' = [primer EXCEPT ![x].at = "end"]
  BY DEF PrimerCompletes, deciding, process, fixed
<1>2. /\ sess \in SessType /\ primer \in PrimerType /\ keys \in [Keys -> KeyRecord] /\ threads \subseteq Askers
      /\ sessions \in [Keys -> Askers \cup {Nobody}] /\ Key[x] \in Keys
  BY Known, SessionTypes, KeyTyped
<1>3. keys' \in [Keys -> KeyRecord]
  <2>1. PICK v \in BOOLEAN : v = (keys[Key[x]].volatile \/ \E s \in S : ~sess[s].warm)
    OBVIOUS
  <2>2. keys' = [keys EXCEPT ![Key[x]].priming = IF keys[Key[x]].priming = x THEN Nobody ELSE keys[Key[x]].priming,
                             ![Key[x]].volatile = v]
    BY <2>1 DEF PrimerCompletes
  <2> QED
    BY <1>2, <2>2 DEF KeyRecord
<1>4. primer' \in PrimerType /\ primer'[x].at = "end" /\ \A y \in Askers \ {x} : primer'[y] = primer[y]
  BY <1>1, <1>2 DEF PrimerType
<1>5. \A y \in Askers : Priming(y)
  BY Known DEF PrimersRight
<1>6. /\ x \notin S /\ S \subseteq InMap(sessions) /\ Users(x) = {} /\ \A k \in Keys : sessions[k] # x
      /\ \A s \in S : sessions[Key[x]] = s /\ Key[s] = Key[x]
  <2>1. \A k \in Keys : sessions[k] # x
    BY <1>1, <1>5 DEF Priming
  <2>2. Users(x) = {}
    BY <1>1, <1>5 DEF Priming, Users
  <2>3. sessions[Key[x]] # Nobody => sessions[Key[x]] \in InMap(sessions) /\ Key[sessions[Key[x]]] = Key[x]
    BY <1>2, Known, InMapIs DEF MapRight
  <2> QED
    BY <1>2, <2>1, <2>2, <2>3
<1>. S \subseteq Askers
  BY <1>6 DEF InMap
<1>. HIDE DEF S
<1>7. \A s \in Askers : sess'[s] = IF s \in S THEN [sess[s] EXCEPT !.stale = TRUE] ELSE sess[s]
  BY <1>1 DEF Retire
<1>8. \A s \in Askers : /\ sess'[s].gen = sess[s].gen /\ sess'[s].evicted = sess[s].evicted
                        /\ sess'[s].inUse = sess[s].inUse
                        /\ sess'[s].stale = (IF s \in S THEN TRUE ELSE sess[s].stale)
  BY <1>2, <1>7 DEF SessType
<1>9. sess' \in SessType
  <2>1. sess' = [s \in Askers |-> sess'[s]]
    BY <1>1 DEF Retire
  <2>2. \A s \in Askers : sess'[s] \in [gen : 0 .. MaxGens, inUse : Nat, stale : BOOLEAN, warm : BOOLEAN,
                                        evicted : BOOLEAN]
    BY <1>2, <1>7 DEF SessType
  <2> QED
    BY <2>1, <2>2 DEF SessType
<1>10. threads' = threads \ DeletedBy({s \in S : sess[s].inUse = 0})
  BY <1>1 DEF Retire
<1>11. /\ sessions' \in [Keys -> Askers \cup {Nobody}] /\ sessions'[Key[x]] = x
       /\ \A k \in Keys \ {Key[x]} : sessions'[k] = sessions[k]
  BY <1>1, <1>2
<1>12. PrimedTypeOK'
  BY <1>3, <1>4, <1>9, <1>10, <1>11, <1>2, SessionsTyped
<1>13. UsersSame
  BY <1>1, UsersStay
<1>14. Counted'
  BY <1>8, <1>13, Known, CountedSame
<1>15. \A s \in Askers : (Serves(s)' <=> Serves(s)) /\ (s \in threads' => s \in threads)
                         /\ (s \notin S /\ s \in threads => s \in threads')
  BY <1>1, <1>8, <1>10 DEF Serves, DeletedBy
<1>16. MapRight'
  <2> SUFFICES ASSUME NEW k \in Keys, sessions'[k] # Nobody
               PROVE  /\ Key[sessions'[k]] = k /\ ~sess'[sessions'[k]].stale /\ sess'[sessions'[k]].gen # 0
                      /\ Serves(sessions[k])' => sessions'[k] \in threads'
    BY <1>1 DEF MapRight, Key, Keys
  <2>1. CASE k = Key[x]
    <3>1. sessions'[k] = x /\ ~sess[x].stale /\ sess[x].gen = at[x] /\ at[x] # 0 /\ (conn = at[x] => x \in threads)
      BY <1>1, <1>5, <1>11, <2>1 DEF Priming
    <3> QED
      BY <1>6, <1>8, <1>15, <2>1, <3>1 DEF Serves
  <2>2. CASE k # Key[x]
    <3>1. sessions'[k] = sessions[k] /\ sessions[k] \in Askers
      BY <1>2, <1>11, <2>2
    <3>2. /\ Key[sessions[k]] = k /\ ~sess[sessions[k]].stale /\ sess[sessions[k]].gen # 0
          /\ Serves(sessions[k]) => sessions[k] \in threads
      BY <3>1, Known DEF MapRight
    <3>3. sessions[k] \notin S
      BY <1>6, <2>2, <3>1, <3>2
    <3> QED
      BY <1>8, <1>15, <3>1, <3>2, <3>3
  <2> QED
    BY <2>1, <2>2
<1>17. \A s \in S : sess[s].inUse = 0 => Users(s) = {}
  BY Known, UsersNone
<1>18. HeldRight'
  <2> SUFFICES ASSUME NEW s \in Askers, Users(s)' # {}, Serves(s)', ~closed'
               PROVE  s \in threads' \/ sess'[s].evicted
    BY DEF HeldRight
  <2>1. Serves(s) /\ ~closed /\ Users(s) # {} /\ (s \in threads \/ sess[s].evicted)
    BY <1>1, <1>13, <1>15, Known DEF HeldRight, closed, UsersSame
  <2> QED
    BY <1>8, <1>10, <1>17, <2>1 DEF DeletedBy
<1>19. ThreadsUsed'
  <2> SUFFICES ASSUME NEW s \in threads', Serves(s)', ~closed'
               PROVE  s \in InMap(sessions)' \/ (sess'[s].stale /\ Users(s)' # {}) \/ primer'[s].at = "turn"
    BY DEF ThreadsUsed
  <2>1. s \in threads /\ s \in Askers /\ Serves(s) /\ ~closed
    BY <1>1, <1>2, <1>10, <1>15 DEF closed
  <2>2. CASE s = x
    BY <1>1, <1>11, <2>2 DEF InMap, Key
  <2>3. CASE s \in S
    <3>1. sess[s].inUse # 0
      BY <1>10, <2>1, <2>3, Known DEF Serves, DeletedBy
    <3>2. Users(s) # {}
      BY <3>1, <2>1, Known, UsersNone
    <3> QED
      BY <1>8, <1>13, <2>1, <2>3, <3>2 DEF UsersSame
  <2>4. CASE s # x /\ s \notin S
    <3>1. s \in InMap(sessions) => s \in InMap(sessions)'
      <4>1. s \in InMap(sessions) => Key[s] \in Keys /\ Key[s] # Key[x]
        BY <2>1, <2>4, KeyTyped, Known, Apart DEF InMap, S
      <4> QED
        BY <1>1, <1>11, <4>1 DEF InMap, Key
    <3> QED
      BY <1>4, <1>8, <1>13, <2>1, <2>4, <3>1, Known DEF ThreadsUsed, UsersSame
  <2> QED
    BY <2>2, <2>3, <2>4
<1>20. ASSUME NEW y \in Askers PROVE Priming(y)'
  <2>1. CASE y = x
    BY <1>1, <1>4, <1>5, <1>8, <2>1 DEF Priming
  <2>2. CASE y # x
    <3>1. primer[y].at # "end" => y \notin S /\ \A k \in Keys : sessions'[k] # y
      BY <1>5, <1>6, <1>11, <1>2, <2>2 DEF Priming
    <3>2. PrimerKept(y)
      BY <1>1, <1>4, <1>5, <1>8, <1>15, <2>2, <3>1 DEF Priming, PrimerKept
    <3> QED
      BY <1>5, <3>2, PrimingStays
  <2> QED
    BY <2>1, <2>2
<1> QED
  BY <1>12, <1>14, <1>16, <1>18, <1>19, <1>20 DEF Sessions, SessionsRight, PrimersRight

LEMMA PrimerDoneSessions ==
    ASSUME Inductive, NEW x \in Askers, PrimerCompletes(x) \/ PrimerFails(x, TRUE) \/ PrimerFails(x, FALSE)
    PROVE  Sessions'
<1>1. CASE PrimerCompletes(x) /\ ~Wanted(x)
  <2>1. /\ PrimerEnds(x) /\ primer[x].at = "turn" /\ threads' = threads \ {x}
        /\ UNCHANGED <<sessions, sess, phase, found, at, starting, conn, gen, spec, closing>>
    BY <1>1 DEF PrimerCompletes, deciding, process, fixed
  <2> QED
    BY <2>1, PrimerEndSessions
<1>2. CASE PrimerFails(x, TRUE) \/ PrimerFails(x, FALSE)
  <2>1. /\ PrimerEnds(x) /\ primer[x].at \in {"thread", "turn"}
        /\ threads' = (IF Talks(at[x]) THEN threads \ {x} ELSE threads)
        /\ UNCHANGED <<sessions, sess, phase, found, at, spec, closing>>
    BY <1>2 DEF PrimerFails, deciding, fixed
  <2>2. conn' \in {conn, 0} /\ UNCHANGED <<gen, starting>>
    BY <1>2, RecycleConn DEF PrimerFails, process
  <2>3. primer[x].at = "turn" /\ Serves(x)' => Talks(at[x])
    <3>1. Priming(x) /\ (conn # 0 => proc[conn] = "up")
      BY Known DEF PrimersRight, Host, ProcessRight
    <3> QED
      BY <2>1, <2>2, <3>1 DEF Priming, Serves, Talks
  <2>4. \/ threads' = threads \ {x} /\ primer[x].at # "end"
        \/ threads' = threads /\ (primer[x].at = "turn" => ~Serves(x)')
    BY <2>1, <2>3
  <2> QED
    BY <2>1, <2>2, <2>4, PrimerEndSessions
<1> QED
  BY <1>1, <1>2, InstallSessions

----------------------------------------------------------------------------
(* The process, callers, and close()                                        *)

\* No session is on a process that is only starting.
LEMMA StartedSessions == ASSUME Inductive, ProcessStarts PROVE Sessions'
<1>1. /\ UNCHANGED <<phase, found, at, gen, sessions, sess, keys, primer, closing, spec>>
      /\ starting # 0 /\ conn' = starting /\ starting' = 0 /\ threads' = {}
  BY DEF ProcessStarts, deciding, fixed
<1>2. \A x \in Askers : Priming(x)
  BY Known DEF PrimersRight
<1>3. \A s \in Askers : ~Serves(s)'
  BY <1>1, <1>2 DEF Priming, Serves
<1>4. PrimedTypeOK'
  BY <1>1, Known, SessionTypes, SessionsTyped
<1>5. UsersSame
  BY <1>1, UsersStay
<1>6. Counted'
  BY <1>1, <1>5, Known, CountedSame
<1>7. MapRight'
  <2>1. \A k \in Keys : sessions'[k] # Nobody => sessions'[k] \in Askers
    BY <1>1, Known
  <2> QED
    BY <1>1, <1>3, <2>1, Known DEF MapRight, Key, Keys, Serves
<1>8. HeldRight' /\ ThreadsUsed'
  BY <1>1, <1>3 DEF HeldRight, ThreadsUsed
<1>9. ASSUME NEW x \in Askers PROVE Priming(x)'
  <2>1. PrimerKept(x)
    BY <1>1, <1>2 DEF Priming, PrimerKept
  <2> QED
    BY <1>2, <2>1, PrimingStays
<1> QED
  BY <1>4, <1>6, <1>7, <1>8, <1>9 DEF Sessions, SessionsRight, PrimersRight

\* The sessions of a process that is gone leave the map.
LEMMA LostSessions == ASSUME Inductive, NEW g \in Gens, ProcessLost(g) PROVE Sessions'
<1>1. /\ UNCHANGED <<phase, found, at, gen, starting, sess, keys, primer, threads, closing, spec>>
      /\ conn' = (IF conn = g THEN 0 ELSE conn)
      /\ sessions' = [k \in Keys |-> IF sessions[k] # Nobody /\ sess[sessions[k]].gen = g
                                     THEN Nobody ELSE sessions[k]]
  BY DEF ProcessLost, deciding, fixed
<1>2. \A x \in Askers : Priming(x)
  BY Known DEF PrimersRight
<1>3. sessions' \in [Keys -> Askers \cup {Nobody}] /\ Shrinks
  BY <1>1, Known DEF Shrinks
<1>4. PrimedTypeOK'
  BY <1>1, <1>3, Known, SessionTypes, SessionsTyped
<1>5. UsersSame
  BY <1>1, UsersStay
<1>6. Counted'
  BY <1>1, <1>5, Known, CountedSame
<1>7. ASSUME NEW s \in Askers PROVE Keeps(s)
  <2>1. Key[s] \in Keys /\ Key'[s] = Key[s]
    BY <1>1, KeyTyped, Known DEF Key
  <2>2. s \in InMap(sessions) \ InMap(sessions)' => sess[s].gen = g
    BY <1>1, <2>1, Apart DEF InMap
  <2>3. Serves(s)' => sess[s].gen # g
    BY <1>1 DEF Serves
  <2>4. s \in InMap(sessions)' => s \in InMap(sessions)
    BY <1>1, <2>1, Apart DEF InMap
  <2> QED
    BY <1>1, <1>5, <2>2, <2>3, <2>4 DEF Keeps, UsersSame
<1>8. MapRight' /\ HeldRight' /\ ThreadsUsed'
  BY <1>1, <1>3, <1>4, <1>7, Known, SessionsStay DEF closed, PrimedTypeOK
<1>9. ASSUME NEW x \in Askers PROVE Priming(x)'
  <2>1. primer[x].at # "end" => \A k \in Keys : sessions'[k] # x
    BY <1>2, <1>3, Apart DEF Priming, Shrinks
  <2>2. PrimerKept(x)
    BY <1>1, <1>2, <2>1 DEF Priming, PrimerKept
  <2> QED
    BY <1>2, <2>2, PrimingStays
<1> QED
  BY <1>4, <1>6, <1>8, <1>9 DEF Sessions, SessionsRight, PrimersRight

\* evict() deletes the thread whoever uses it.
LEMMA EvictSessions == ASSUME Inductive, NEW k \in Keys, Evict(k) PROVE Sessions'
<1>. DEFINE S == {sessions[k]} \ {Nobody}
<1>1. /\ UNCHANGED <<phase, found, at, gen, conn, starting, primer, closing, spec>>
      /\ sessions' = OutOfMap(sessions, S) /\ threads' = threads \ DeletedBy(S)
      /\ sess' = [s \in Askers |-> IF s \in S THEN [sess[s] EXCEPT !.evicted = TRUE] ELSE sess[s]]
      /\ keys' = [keys EXCEPT ![k] = [last |-> Nobody, volatile |-> FALSE, priming |-> Nobody, epoch |-> 1]]
  BY DEF Evict, deciding, process, fixed
<1>2. /\ sess \in SessType /\ keys \in [Keys -> KeyRecord] /\ threads \subseteq Askers
      /\ sessions \in [Keys -> Askers \cup {Nobody}] /\ primer \in PrimerType
  BY Known, SessionTypes
<1>3. S \subseteq InMap(sessions) /\ S \subseteq Askers
  BY <1>2, Known, InMapIs
<1>. HIDE DEF S
<1>4. \A x \in Askers : Priming(x)
  BY Known DEF PrimersRight
<1>5. keys' \in [Keys -> KeyRecord]
  BY <1>1, <1>2 DEF KeyRecord
<1>6. \A s \in Askers : /\ sess'[s].gen = sess[s].gen /\ sess'[s].stale = sess[s].stale
                        /\ sess'[s].inUse = sess[s].inUse
                        /\ sess'[s].evicted = (IF s \in S THEN TRUE ELSE sess[s].evicted)
  BY <1>1, <1>2 DEF SessType
<1>7. sess' \in SessType
  <2>1. \A s \in Askers : [sess[s] EXCEPT !.evicted = TRUE] \in
            [gen : 0 .. MaxGens, inUse : Nat, stale : BOOLEAN, warm : BOOLEAN, evicted : BOOLEAN]
    BY <1>2 DEF SessType
  <2> QED
    BY <1>1, <1>2, <2>1 DEF SessType
<1>8. sessions' \in [Keys -> Askers \cup {Nobody}] /\ Shrinks
      /\ \A j \in Keys : sessions'[j] = IF sessions[j] \in S THEN Nobody ELSE sessions[j]
  BY <1>1, <1>2, OutTyped DEF Shrinks, OutOfMap
<1>9. PrimedTypeOK'
  BY <1>1, <1>2, <1>5, <1>7, <1>8, SessionsTyped
<1>10. UsersSame
  BY <1>1, UsersStay
<1>11. Counted'
  BY <1>6, <1>10, Known, CountedSame
<1>12. ASSUME NEW s \in Askers PROVE Keeps(s)
  <2>1. Key[s] \in Keys /\ Key'[s] = Key[s]
    BY <1>1, KeyTyped, Known DEF Key
  <2>2. s \in InMap(sessions)' <=> s \in InMap(sessions) /\ s \notin S
    BY <1>8, <2>1, Apart DEF InMap
  <2>3. Serves(s)' /\ s \in S => s \notin threads'
    BY <1>1, <1>6, Deleted
  <2>4. s \in threads \ threads' => s \in S
    BY <1>1 DEF DeletedBy
  <2> QED
    BY <1>1, <1>6, <1>10, <2>2, <2>3, <2>4 DEF Keeps, UsersSame
<1>13. MapRight' /\ HeldRight' /\ ThreadsUsed'
  BY <1>1, <1>8, <1>9, <1>12, Known, SessionsStay DEF closed, PrimedTypeOK
<1>14. ASSUME NEW x \in Askers PROVE Priming(x)'
  <2>1. primer[x].at # "end" => x \notin S /\ \A j \in Keys : sessions'[j] # x
    BY <1>3, <1>4, <1>8, Primed, Apart DEF Priming
  <2>2. primer[x].at = "turn" /\ conn' = at[x] => x \in threads'
    BY <1>1, <1>4, <2>1 DEF Priming, DeletedBy
  <2>3. PrimerKept(x)
    BY <1>1, <1>4, <1>6, <2>1, <2>2 DEF Priming, PrimerKept
  <2> QED
    BY <1>4, <2>3, PrimingStays
<1> QED
  BY <1>9, <1>11, <1>13, <1>14 DEF Sessions, SessionsRight, PrimersRight

LEMMA ClosedSessions == ASSUME Inductive, Close PROVE Sessions'
<1>1. /\ UNCHANGED <<found, at, gen, conn, starting, sess, keys, primer, spec>> /\ closed'
      /\ phase' = [d \in Decisions |-> IF grant[d] = "waiting" THEN "end" ELSE phase[d]]
      /\ threads' = threads \ DeletedBy(InMap(sessions)) /\ sessions' = [k \in Keys |-> Nobody]
  BY DEF Close, process, fixed, closed
<1>2. \A x \in Askers : Priming(x)
  BY Known DEF PrimersRight
<1>3. /\ sessions' \in [Keys -> Askers \cup {Nobody}] /\ threads' \subseteq Askers
  BY <1>1, Known, SessionTypes
<1>4. PrimedTypeOK'
  BY <1>1, <1>3, Known, SessionTypes, SessionsTyped
<1>5. \A d \in Decisions : grant[d] = "waiting" => found[d] = Nobody /\ phase[d] = "slot"
  BY Known DEF Host, DecisionsRight, Right, SlotKnown, Knows, Early
<1>6. UsersSame
  <2>1. \A d \in Decisions : /\ found'[d] = found[d]
                             /\ found[d] # Nobody => (phase'[d] \in Using <=> phase[d] \in Using)
    BY <1>1, <1>5
  <2> QED
    BY <2>1, UsersStay
<1>7. Counted'
  BY <1>1, <1>6, Known, CountedSame
<1>8. MapRight' /\ HeldRight' /\ ThreadsUsed'
  BY <1>1 DEF MapRight, HeldRight, ThreadsUsed
<1>9. ASSUME NEW x \in Askers PROVE Priming(x)'
  <2>1. primer[x].at # "end" => x \notin InMap(sessions)
    BY Primed
  <2>2. primer[x].at = "turn" /\ conn' = at[x] => x \in threads'
    BY <1>1, <1>2, <2>1 DEF Priming, DeletedBy
  <2>3. x \in Decisions /\ phase'[x] \in Early => phase[x] \in Early
    BY <1>1 DEF Early
  <2>4. PrimerKept(x)
    BY <1>1, <1>2, <2>2, <2>3, Apart DEF Priming, PrimerKept
  <2> QED
    BY <1>2, <2>4, PrimingStays
<1> QED
  BY <1>4, <1>7, <1>8, <1>9 DEF Sessions, SessionsRight, PrimersRight

----------------------------------------------------------------------------
(* A key is primed for a context                                            *)

LEMMA KeyPrimesTyped ==
    ASSUME Inductive, NEW x \in Askers, NEW ks \in KeyRecord, NEW force, KeyPrimes(x, ks, force)
    PROVE  /\ keys' \in [Keys -> KeyRecord] /\ primer' \in PrimerType
           /\ \A y \in Askers \ {x} : primer'[y] = primer[y]
           /\ primer'[x] = primer[x] \/ primer'[x].at = "queued"
<1>1. /\ keys \in [Keys -> KeyRecord] /\ primer \in PrimerType /\ Key[x] \in Keys /\ Hash[x] \in Hashes
  BY Known, SessionTypes, KeyTyped
<1>2. ks.priming \in Askers \cup {Nobody} /\ ks.epoch \in Nat
  BY DEF KeyRecord
<1>3. PICK pr \in Askers \cup {Nobody} :
         keys' = [keys EXCEPT ![Key[x]] = [ks EXCEPT !.last = Hash[x], !.priming = pr]]
  <2>1. CASE Primes(x, ks, force)
    BY <2>1 DEF KeyPrimes
  <2>2. CASE ~Primes(x, ks, force)
    <3>1. keys' = [keys EXCEPT ![Key[x]] = [ks EXCEPT !.last = Hash[x], !.priming = ks.priming]]
      BY <2>2 DEF KeyPrimes
    <3> QED
      BY <1>2, <3>1
  <2> QED
    BY <2>1, <2>2
<1>4. keys' \in [Keys -> KeyRecord]
  <2>1. [ks EXCEPT !.last = Hash[x], !.priming = pr] \in KeyRecord
    BY <1>1 DEF KeyRecord
  <2> QED
    BY <1>1, <1>3, <2>1
<1>5. primer' = primer \/ primer' = [primer EXCEPT ![x] = [at |-> "queued", epoch |-> ks.epoch]]
  BY DEF KeyPrimes
<1>6. primer' \in PrimerType /\ (\A y \in Askers \ {x} : primer'[y] = primer[y])
      /\ (primer'[x] = primer[x] \/ primer'[x].at = "queued")
  BY <1>1, <1>2, <1>5 DEF PrimerType
<1> QED
  BY <1>4, <1>6

\* prime()
LEMMA WarmSessions == ASSUME Inductive, NEW x \in Warmups, Warm(x) PROVE Sessions'
<1>. x \in Askers /\ x \notin Decisions
  BY Apart
<1>1. /\ UNCHANGED <<phase, found, conn, gen, starting, sessions, sess, threads, closing, spec>>
      /\ at[x] = 0 /\ conn # 0 /\ at' = [at EXCEPT ![x] = conn]
  BY DEF Warm, process, fixed
<1>2. /\ keys \in [Keys -> KeyRecord] /\ primer \in PrimerType /\ Key[x] \in Keys /\ Hash[x] \in Hashes
      /\ keys[Key[x]] \in KeyRecord
  BY Known, SessionTypes, KeyTyped
<1>3. /\ keys' \in [Keys -> KeyRecord] /\ primer' \in PrimerType
      /\ \A y \in Askers \ {x} : primer'[y] = primer[y]
      /\ primer'[x] = primer[x] \/ primer'[x].at = "queued"
  <2>1. CASE keys' = [keys EXCEPT ![Key[x]].last = Hash[x]] /\ UNCHANGED primer
    BY <1>2, <2>1 DEF KeyRecord
  <2>2. CASE KeyPrimes(x, keys[Key[x]], TRUE)
    BY <1>2, <2>2, KeyPrimesTyped
  <2> QED
    BY <2>1, <2>2 DEF Warm
<1>4. PrimedTypeOK'
  BY <1>1, <1>3, Known, SessionTypes, SessionsTyped
<1>5. \A y \in Askers : Priming(y)
  BY Known DEF PrimersRight
<1>6. UsersSame
  BY <1>1, UsersStay
<1>7. Counted'
  BY <1>1, <1>6, Known, CountedSame
<1>8. primer[x].at = "none" /\ starting = 0 /\ at'[x] = conn /\ \A y \in Askers \ {x} : at'[y] = at[y]
  BY <1>1, <1>5, Known DEF Priming, Host, ProcessRight, PhaseTypeOK
<1>9. ASSUME NEW s \in Askers PROVE Keeps(s)
  <2>1. primer[s].at = "turn" => primer'[s].at = "turn"
    BY <1>3, <1>8
  <2> QED
    BY <1>1, <1>6, <2>1 DEF Keeps, InMap, Key, UsersSame
<1>10. MapRight' /\ HeldRight' /\ ThreadsUsed'
  BY <1>1, <1>4, <1>9, Known, SessionsStay DEF closed, PrimedTypeOK, Shrinks
<1>11. ASSUME NEW y \in Askers PROVE Priming(y)'
  <2>1. CASE y = x
    BY <1>1, <1>3, <1>5, <1>8, <2>1 DEF Priming
  <2>2. CASE y # x
    <3>1. PrimerKept(y)
      BY <1>1, <1>3, <1>5, <1>8, <2>2 DEF Priming, PrimerKept
    <3> QED
      BY <1>5, <3>1, PrimingStays
  <2> QED
    BY <2>1, <2>2
<1> QED
  BY <1>4, <1>7, <1>10, <1>11 DEF Sessions, SessionsRight, PrimersRight

\* A decision that finds its session takes a reference to it.
LEMMA TakenSessions ==
    ASSUME Inductive, NEW d \in Decisions, phase[d] = "process", phase' = [phase EXCEPT ![d] = "opening"],
           NEW s \in InMap(sessions), found' = [found EXCEPT ![d] = s], sess' = [sess EXCEPT ![s].inUse = @ + 1],
           UNCHANGED <<at, conn, gen, starting, sessions, threads, primer, closing, spec>>,
           keys' \in [Keys -> KeyRecord]
    PROVE  Sessions'
<1>1. s \in Askers /\ sess \in SessType /\ primer[s].at = "end"
  BY Known, SessionTypes, Primed DEF InMap
<1>2. /\ sess' \in SessType /\ sess'[s].inUse = sess[s].inUse + 1 /\ \A r \in Askers \ {s} : sess'[r] = sess[r]
      /\ sess'[s].gen = sess[s].gen /\ sess'[s].stale = sess[s].stale /\ sess'[s].evicted = sess[s].evicted
  BY <1>1 DEF SessType
<1>3. \A e \in Decisions : /\ phase'[e] = IF e = d THEN "opening" ELSE phase[e]
                           /\ found'[e] = IF e = d THEN s ELSE found[e]
  BY Known DEF Host, PhaseTypeOK
<1>4. /\ d \notin Users(s) /\ Users(s)' = Users(s) \cup {d}
      /\ \A r \in Askers \ {s} : Users(r)' = Users(r)
  BY <1>3 DEF Users, Using
<1>5. Counted'
  BY <1>1, <1>2, <1>4, Known, CountedStep
<1>6. PrimedTypeOK'
  BY <1>2, Known, SessionTypes, SessionsTyped
<1>7. ASSUME NEW r \in Askers PROVE Keeps(r)
  <2>1. (r \in InMap(sessions)' <=> r \in InMap(sessions)) /\ (Users(r) # {} => Users(r)' # {})
        /\ (r # s => Users(r)' = Users(r))
    BY <1>4 DEF InMap, Key
  <2> QED
    BY <1>2, <2>1 DEF Keeps
<1>8. MapRight' /\ HeldRight' /\ ThreadsUsed'
  BY <1>6, <1>7, Known, SessionsStay DEF closed, PrimedTypeOK, Shrinks
<1>9. ASSUME NEW y \in Askers PROVE Priming(y)'
  <2>1. Priming(y) /\ \A e \in Decisions : phase'[e] \in Early => phase[e] \in Early
    BY <1>3, Known DEF PrimersRight, Early
  <2>2. primer[y].at # "end" => y # s /\ sess'[y] = sess[y]
    BY <1>1, <1>2
  <2>3. PrimerKept(y)
    BY <1>2, <1>3, <2>1, <2>2 DEF Priming, PrimerKept
  <2> QED
    BY <2>1, <2>3, PrimingStays
<1> QED
  BY <1>5, <1>6, <1>8, <1>9 DEF Sessions, SessionsRight, PrimersRight

LEMMA LooksSessions == ASSUME Inductive, NEW d \in Decisions, Looks(d) PROVE Sessions'
<1>. DEFINE k    == Key[d]
            s    == sessions[k]
            ok   == s # Nobody /\ Hash[s] = Hash[d] /\ sess[s].gen = gen
            S    == IF s = Nobody \/ ok THEN {} ELSE {s}
            R    == {x \in S : sess[x].gen = gen}
            ks   == [keys[k] EXCEPT !.volatile = @ \/ \E x \in R : ~sess[x].warm]
            used == ok /\ d \notin gone
<1>1. /\ phase[d] = "process" /\ starting # at[d]
      /\ UNCHANGED <<at, conn, gen, starting, closing, spec>>
      /\ sessions' = OutOfMap(sessions, S)
      /\ IF used THEN sess' = [sess EXCEPT ![s].inUse = @ + 1] /\ UNCHANGED threads ELSE Retire(R)
      /\ IF ok THEN keys' = [keys EXCEPT ![k].last = Hash[d]] /\ UNCHANGED primer
         ELSE KeyPrimes(d, ks, FALSE)
      /\ found' = IF used THEN [found EXCEPT ![d] = s] ELSE found
      /\ phase' = [phase EXCEPT ![d] = IF d \in gone THEN "end" ELSE "opening"]
  BY DEF Looks, process, fixed, Settle
<1>2. /\ d \in Askers /\ k \in Keys /\ Hash[d] \in Hashes /\ keys \in [Keys -> KeyRecord] /\ keys[k] \in KeyRecord
      /\ primer \in PrimerType /\ s \in Askers \cup {Nobody} /\ sessions \in [Keys -> Askers \cup {Nobody}]
  BY Known, SessionTypes, KeyTyped, Apart
<1>3. s # Nobody => s \in InMap(sessions)
  BY <1>2, Known, InMapIs
<1>4. /\ keys' \in [Keys -> KeyRecord] /\ primer' \in PrimerType
      /\ \A y \in Askers \ {d} : primer'[y] = primer[y]
      /\ primer'[d] = primer[d] \/ primer'[d].at = "queued"
  <2>1. CASE ok
    <3>1. keys' = [keys EXCEPT ![k].last = Hash[d]] /\ UNCHANGED primer
      BY <1>1, <2>1
    <3>. HIDE DEF k
    <3> QED
      BY <1>2, <3>1 DEF KeyRecord
  <2>2. CASE ~ok
    <3>1. KeyPrimes(d, ks, FALSE)
      BY <1>1, <2>2
    <3>2. ks \in KeyRecord
      <4>1. PICK v \in BOOLEAN : v = (keys[k].volatile \/ \E x \in R : ~sess[x].warm)
        OBVIOUS
      <4>2. ks = [keys[k] EXCEPT !.volatile = v]
        BY <4>1
      <4>. HIDE DEF ks, k
      <4> QED
        BY <1>2, <4>2 DEF KeyRecord
    <3>. HIDE DEF ks
    <3> QED
      BY <1>2, <3>1, <3>2, KeyPrimesTyped
  <2> QED
    BY <2>1, <2>2
<1>5. CASE used
  <2>1. sessions' = sessions
    <3>1. S = {}
      BY <1>5
    <3> QED
      BY <1>1, <1>2, <3>1 DEF OutOfMap
  <2>2. /\ primer' = primer /\ found' = [found EXCEPT ![d] = s] /\ phase' = [phase EXCEPT ![d] = "opening"]
        /\ sess' = [sess EXCEPT ![s].inUse = @ + 1] /\ threads' = threads /\ s \in InMap(sessions)
    BY <1>1, <1>3, <1>5
  <2>. HIDE DEF s
  <2> QED
    BY <1>1, <1>4, <2>1, <2>2, TakenSessions
<1>6. CASE ~used
  <2>1. S \in SUBSET InMap(sessions) /\ R \in SUBSET S /\ \A x \in S \ R : sess[x].gen # gen
    BY <1>3
  <2>2. Retire(R) /\ sessions' = OutOfMap(sessions, S) /\ found' = found
    BY <1>1, <1>6
  <2>3. found[d] = Nobody /\ primer[d].at = "none" /\ at[d] # 0
    BY <1>1, <1>2, Known DEF Knows, Early, PrimersRight, Priming
  <2>4. \A e \in Decisions : phase'[e] = IF e # d THEN phase[e] ELSE IF d \in gone THEN "end" ELSE "opening"
    BY <1>1, Known DEF Host, PhaseTypeOK
  <2>. HIDE DEF S, R, k
  <2>5. UsersSame
    BY <2>2, <2>3, <2>4, UsersStay
  <2>6. \A x \in Askers : primer[x].at = "turn" => primer'[x].at = "turn"
    BY <1>4, <2>3
  <2>7. /\ sess' \in SessType /\ sessions' \in [Keys -> Askers \cup {Nobody}] /\ threads' \subseteq Askers
        /\ MapRight' /\ HeldRight' /\ ThreadsUsed' /\ Counted'
        /\ \A x \in Askers : Untouched(x)
    BY <1>1, <2>1, <2>2, <2>5, <2>6, RetireEffect
  <2>8. PrimedTypeOK'
    BY <1>4, <2>7, SessionsTyped
  <2>9. \A y \in Askers : Priming(y) /\ (primer[y].at # "end" => \A e \in Decisions : found[e] # y)
    BY Known DEF PrimersRight, Priming
  <2>10. ASSUME NEW y \in Askers PROVE Priming(y)'
    <3>1. CASE y = d
      <4>1. phase'[d] \notin Early
        BY <2>4 DEF Early
      <4> QED
        BY <1>1, <1>4, <2>2, <2>3, <2>7, <2>9, <3>1, <4>1 DEF Priming, Untouched
    <3>2. CASE y # d
      <4>1. y \in Decisions /\ phase'[y] \in Early => phase[y] \in Early
        BY <2>4, <3>2
      <4> QED
        BY <1>1, <1>4, <2>2, <2>7, <2>9, <3>2, <4>1, UntouchedStays
    <3> QED
      BY <3>1, <3>2
  <2> QED
    BY <2>7, <2>8, <2>10 DEF Sessions, SessionsRight, PrimersRight
<1> QED
  BY <1>5, <1>6

----------------------------------------------------------------------------
(* The invariant, and what it implies                                       *)

LEMMA SessionsKept == ASSUME Inductive, Next PROVE Sessions'
<1>1. ASSUME NEW d \in Decisions, Handlers(d) PROVE Sessions'
  <2>1. CASE LeavesQueue(d) \/ Proceeds(d) \/ ProcessRefused(d) \/ Looks(d)
    BY <2>1, EarlySessions, LooksSessions
  <2>2. CASE \/ Opened(d) \/ Admits(d) \/ StartAnswered(d) \/ StartUnanswered(d)
             \/ LegDecides(d, "first") \/ LegDecides(d, "hedge") \/ TimesOut(d)
             \/ OtherStops(d) \/ OtherRecycled(d)
    BY <2>2, BranchSessions
  <2>3. CASE OpenRefused(d) \/ OpenFails(d) \/ AdmissionFails(d) \/ StartRefused(d) \/ StartFailed(d)
    BY <2>3, RefusedSessions, EndSessions
  <2>4. CASE Ends(d) \/ Exits(d)
    BY <2>4, BranchSessions, EndSessions
  <2>5. CASE HedgeOpens(d) \/ HedgeWrites(d) \/ HedgeStarts(d) \/ HedgeFails(d, TRUE) \/ HedgeFails(d, FALSE)
    BY <2>5, RaceSessions
  <2> QED
    BY <1>1, <2>1, <2>2, <2>3, <2>4, <2>5 DEF Handlers
<1>2. CASE Background
  BY <1>2, PrimerStartSessions, PrimerThreadSessions, PrimerDoneSessions, StartedSessions, RaceSessions
     DEF Background
<1>3. CASE Events
  <2>1. ASSUME NEW d \in Decisions, Decide(d) \/ GoesAway(d) PROVE Sessions'
    BY <2>1, EarlySessions, RaceSessions
  <2>2. ASSUME NEW l \in Branches,
               TurnEnds(l, "completed") \/ TurnEnds(l, "failed") \/ TurnEnds(l, "interrupted") \/ Violates(l)
        PROVE  Sessions'
    BY <2>2, RaceSessions
  <2> QED
    BY <1>3, <2>1, <2>2, WarmSessions, LostSessions, IdleEvicted, EvictSessions, ClosedSessions DEF Events
<1> QED
  BY <1>1, <1>2, <1>3 DEF Next

LEMMA ScenarioKept ==
    ASSUME Inductive, Next
    PROVE  closing' \in {"open", "dropping", "closed"} /\ spec' \in Specs
<1>. closing \in {"open", "dropping", "closed"} /\ spec \in Specs
  BY DEF Inductive, TypeOK
<1>1. ASSUME NEW d \in Decisions, Handlers(d) PROVE UNCHANGED <<closing, spec>>
  BY <1>1 DEF Handlers, LeavesQueue, Proceeds, ProcessRefused, Looks, Opened, OpenRefused, OpenFails, Admits,
      AdmissionFails, StartAnswered, StartRefused, StartUnanswered, StartFailed, HedgeOpens, HedgeWrites,
      HedgeStarts, HedgeFails, LegDecides, TimesOut, OtherStops, OtherRecycled, Ends, Exits, fixed
<1>2. CASE Background
  BY <1>2 DEF Background, PrimerStarts, PrimerThread, PrimerCompletes, PrimerFails, ProcessStarts,
      ProcessFails, CloseKills, fixed
<1>3. CASE Events
  BY <1>3 DEF Events, Decide, GoesAway, Warm, TurnEnds, Violates, ProcessLost, EvictIdle, Evict, Close, fixed
<1> QED
  BY <1>1, <1>2, <1>3 DEF Next

LEMMA SlotsKept == ASSUME SlotsTypeOK, SlotsConserved, [Next]_vars PROVE SlotsTypeOK' /\ SlotsConserved'
  BY HostSteps, SlotsInvStep DEF SlotsInv

LEMMA InitInductive == Init => Inductive
<1> SUFFICES ASSUME Init PROVE Inductive
  OBVIOUS
<1>0. /\ SlotsTypeOK /\ SlotsConserved /\ spec \in Specs /\ MaxGens \in Nat
      /\ \A h \in Holders : grant[h] = "none"
  BY SlotsInitInv, CodexPrimedAssumption DEF Init, SlotsInv, SlotsInit
<1>1. PhaseTypeOK /\ LegTypeOK
  <2>1. {} \in SUBSET {"others", "chosen"} /\ 0 \in 0 .. MaxGens
    BY <1>0
  <2> QED
    BY <2>1 DEF Init, PhaseTypeOK, LegTypeOK
<1>2. ProcessTypeOK
  BY <1>0 DEF Init, ProcessTypeOK
<1>3. PrimedTypeOK
  BY <1>0 DEF Init, PrimedTypeOK
<1>4. TypeOK
  BY <1>0, <1>1, <1>2, <1>3 DEF Init, TypeOK
<1>5. ProcessRight
  BY DEF Init, ProcessRight
<1>6. DecisionsRight
  <2> SUFFICES ASSUME NEW d \in Decisions PROVE Right(d)
    BY DEF DecisionsRight
  <2>1. /\ leg[First(d)].st = "none" /\ leg[First(d)].run = "no" /\ ~leg[First(d)].lost
        /\ leg[Hedge(d)].st = "none" /\ leg[Hedge(d)].run = "no" /\ ~leg[Hedge(d)].lost
        /\ phase[d] = "idle" /\ told[d] = "none" /\ grant[d] = "none" /\ grant[Hedge(d)] = "none"
        /\ found[d] = Nobody /\ chosen[d] = "first" /\ fine[d] = {}
    BY <1>0, Apart DEF Init
  <2> QED
    BY <2>1 DEF Right, Knows, SlotKnown, Branched, Finished, TurnKnown, Early, Using
<1>7. PrimersRight /\ MapRight /\ HeldRight /\ ThreadsUsed
  BY Apart DEF Init, PrimersRight, Priming, MapRight, HeldRight, Serves, ThreadsUsed
<1>8. Counted
  <2>1. ASSUME NEW s \in Askers PROVE Users(s) = {} /\ sess[s].inUse = 0
    BY Apart DEF Init, Users
  <2> QED
    BY <2>1, FS_EmptySet DEF Counted
<1> QED
  BY <1>0, <1>4, <1>5, <1>6, <1>7, <1>8 DEF Inductive, SessionsRight

LEMMA NextInductive == ASSUME Inductive, Next PROVE Inductive'
<1>1. SlotsTypeOK' /\ SlotsConserved'
  BY Known, SlotsKept
<1>2. Host'
  BY Known, HostKept
<1>3. PrimedTypeOK' /\ SessionsRight'
  BY SessionsKept DEF Sessions
<1>4. TypeOK'
  BY <1>1, <1>2, <1>3, ScenarioKept DEF TypeOK, Host
<1> QED
  BY <1>1, <1>2, <1>3, <1>4 DEF Inductive, Host

LEMMA StutterInductive == ASSUME Inductive, UNCHANGED vars PROVE Inductive'
<1>1. UNCHANGED <<slots, deciding, leg, process, primed, closing, fixed>>
  BY DEF vars
<1>2. SlotsTypeOK' /\ SlotsConserved'
  BY <1>1, Known, SlotsKept
<1>3. Host'
  BY <1>1, Known, QuietKeeps DEF Host, PhaseTypeOK, ProcessRight, deciding, process
<1>4. Sessions'
  BY <1>1, IdleSessions DEF deciding, process, fixed, closed
<1>5. TypeOK'
  BY <1>1, <1>2, <1>3, <1>4 DEF Inductive, TypeOK, Host, Sessions, fixed
<1> QED
  BY <1>2, <1>3, <1>4, <1>5 DEF Inductive, Host, Sessions

\* Each of its parts needs the others: where each decision is, which branches and slots it
\* has, what is known of its process, who uses which session, and which threads are kept.
THEOREM Invariance == Spec => []Inductive
<1>1. Inductive /\ [Next]_vars => Inductive'
  BY NextInductive, StutterInductive
<1> QED
  BY <1>1, InitInductive, PTL DEF Spec

\* The variables of the host have their types, whatever fails and whoever closes it.
THEOREM HostTyped == Spec => []TypeOK
<1>1. Inductive => TypeOK
  BY DEF Inductive
<1> QED
  BY <1>1, Invariance, PTL

LEMMA Reported ==
    ASSUME Inductive, NEW d \in Decisions
    PROVE  /\ Right(d) /\ chosen[d] \in {"first", "hedge"}
           /\ told[d] \in {"answered", "unsent", "settled", "unsettled"} => phase[d] = "end"
           /\ told[d] = "unsent" => leg[Hedge(d)].run = "no"
           /\ <<chosen[d], d>> \in {First(d), Hedge(d)} /\ Other(d) \in {First(d), Hedge(d)}
<1>1. Right(d) /\ chosen[d] \in {"first", "hedge"} /\ phase[d] \in {"idle", "slot", "process", "end"} \cup Using
  BY DEF Inductive, DecisionsRight, TypeOK, PhaseTypeOK, Using
<1> QED
  BY <1>1 DEF Right, Knows, Using, Finished, TurnKnown, First, Hedge, Other

\* No caller hears that nothing was dispatched when something was, or that its decision is
\* settled while the turn it reports may go on, or another runs that joined the race
\* (_turn, _stopBranch, DecisionError): whatever the process, the hedge and the runtime do.
THEOREM CallersToldTruly == Spec => []ToldTruly
<1>1. ASSUME Inductive PROVE ToldTruly
  <2> SUFFICES ASSUME NEW d \in Decisions
               PROVE  /\ told[d] = "unsent" => leg[First(d)].run = "no" /\ leg[Hedge(d)].run = "no"
                      /\ told[d] = "answered" => leg[<<chosen[d], d>>].run = "completed"
                      /\ told[d] \in {"answered", "settled"} =>
                           /\ leg[<<chosen[d], d>>].run = "running" => proc[at[d]] = "gone"
                           /\ leg[Other(d)].run = "running" =>
                                 leg[Other(d)].st = "starting" \/ proc[at[d]] # "up"
    BY DEF ToldTruly
  <2> QED
    BY <1>1, Reported DEF Right, Finished, Over, Seen
<1> QED
  BY <1>1, Invariance, PTL

\* A broken text only policy, or a turn that may run unseen, always costs the process
\* (_settle, _recycle).
THEOREM ViolationsCostProcess == Spec => []ViolationsRecycle
<1>1. ASSUME Inductive PROVE ViolationsRecycle
  BY <1>1, Reported DEF ViolationsRecycle, Right, Finished, Seen, Unknown
<1> QED
  BY <1>1, Invariance, PTL

\* Base threads are kept while they are needed and deleted when they are not: a map, a count
\* of references and a primer that cross retirements, evictions and lost processes (_retire,
\* _drop, _primeInBackground).
THEOREM ThreadsKept == Spec => []BasesHeld
<1>1. ASSUME Inductive PROVE BasesHeld
  <2> SUFFICES ASSUME conn # 0, gen = conn, ~closed
               PROVE  /\ \A s \in InMap(sessions) : sess[s].gen = conn => s \in threads
                      /\ \A d \in Decisions :
                           phase[d] = "opening" /\ found[d] # Nobody =>
                              found[d] \in threads \/ sess[found[d]].evicted \/ sess[found[d]].gen # conn
                      /\ \A s \in threads : sess[s].gen = conn =>
                           s \in InMap(sessions) \/ sess[s].inUse > 0 \/ primer[s].at = "turn"
    BY DEF BasesHeld
  <2>1. \A s \in InMap(sessions) : sess[s].gen = conn => s \in threads
    <3>1. \A s \in InMap(sessions) : s \in Askers /\ Key[s] \in Keys /\ sessions[Key[s]] = s /\ s # Nobody
      BY <1>1, Known, KeyTyped, Apart DEF InMap
    <3> QED
      BY <1>1, <3>1, Known DEF MapRight, Serves
  <2>2. ASSUME NEW d \in Decisions, phase[d] = "opening", found[d] # Nobody
        PROVE  found[d] \in threads \/ sess[found[d]].evicted \/ sess[found[d]].gen # conn
    <3>1. found[d] \in Askers /\ d \in Users(found[d])
      BY <1>1, <2>2, Known DEF Users, Using
    <3> QED
      BY <1>1, <3>1, Known DEF HeldRight, Serves
  <2>3. ASSUME NEW s \in threads, sess[s].gen = conn
        PROVE  s \in InMap(sessions) \/ sess[s].inUse > 0 \/ primer[s].at = "turn"
    <3>1. s \in Askers /\ sess[s].inUse \in Nat
      BY <1>1, Known, SessionTypes DEF SessType
    <3>2. Users(s) # {} => sess[s].inUse > 0
      BY <1>1, <3>1, Known, UsersNone
    <3> QED
      BY <1>1, <2>3, <3>2, Known DEF ThreadsUsed, Serves
  <2> QED
    BY <2>1, <2>2, <2>3
<1> QED
  BY <1>1, Invariance, PTL

----------------------------------------------------------------------------
(* The slots bound the turns                                                *)

Runs(l) == leg[l].run = "running" /\ ~Unknown(l) /\ proc[at[l[2]]] = "up"

\* The slot a branch runs in is its decision's, or its own.
SlotOf(l) == IF l = Hedge(l[2]) /\ grant[l] = "held" THEN l ELSE l[2]

LEMMA RunsInSlot ==
    ASSUME Inductive, NEW d \in Decisions
    PROVE  /\ Runs(First(d)) => grant[d] = "held"
           /\ Runs(Hedge(d)) => \/ grant[Hedge(d)] = "held"
                                \/ grant[d] = "held" /\ ~Runs(First(d))
<1>1. Right(d) /\ phase[d] \in {"idle", "slot", "process", "end"} \cup Using /\ First(d)[2] = d /\ Hedge(d)[2] = d
      /\ chosen[d] \in {"first", "hedge"}
  BY Reported DEF Inductive, TypeOK, PhaseTypeOK, Using, First, Hedge
<1>2. leg[First(d)].run = "running" /\ proc[at[d]] = "up" => phase[d] \in Using
  BY <1>1 DEF Right, Branched, TurnKnown, Finished, Over, Early
<1>3. Runs(First(d)) => grant[d] = "held"
  BY <1>1, <1>2 DEF Runs, Right, SlotKnown
<1>4. ASSUME Runs(Hedge(d)), grant[Hedge(d)] # "held" PROVE grant[d] = "held" /\ ~Runs(First(d))
  <2>1. proc[at[d]] = "up" /\ leg[Hedge(d)].run = "running" /\ leg[Hedge(d)].st # "failed"
    BY <1>1, <1>4 DEF Runs, Unknown
  <2>2. leg[Hedge(d)].st \notin {"none", "refused", "opening", "open", "starting", "failed"}
    BY <1>1, <1>4, <2>1 DEF Right, TurnKnown, SlotKnown
  <2>3. phase[d] = "ending" /\ chosen[d] = "hedge"
    <3>1. phase[d] \notin {"idle", "slot", "process", "opening", "admitting", "starting", "failing"}
      BY <1>1, <2>2 DEF Right, Branched, Early
    <3>2. phase[d] # "end"
      BY <1>1, <2>1, <2>2 DEF Right, Finished, Over
    <3>3. phase[d] \notin {"recycling", "exiting"}
      BY <1>1, <2>1 DEF Right, Knows
    <3>4. leg[Hedge(d)].st \in {"going", "read", "over"}
      <4>1. leg[Hedge(d)].st \in {"none", "refused", "opening", "open", "starting", "going", "read", "failed", "over"}
        BY Apart DEF Inductive, TypeOK, LegTypeOK
      <4> QED
        BY <2>2, <4>1
    <3>5. phase[d] \notin {"racing", "stopping"}
      BY <1>1, <1>4, <3>4 DEF Right, SlotKnown, Branched
    <3>6. phase[d] = "ending"
      BY <1>1, <3>1, <3>2, <3>3, <3>5 DEF Using
    <3>7. chosen[d] = "first" => Over(d, Hedge(d))
      BY <1>1, <3>6 DEF Right, Finished, Other
    <3> QED
      BY <1>1, <2>1, <2>2, <3>6, <3>7 DEF Over
  <2>4. Over(d, First(d)) /\ leg[First(d)].st = "over"
    BY <1>1, <2>3 DEF Right, Finished, Other, Branched
  <2> QED
    BY <1>1, <2>1, <2>3, <2>4 DEF Right, SlotKnown, Over, Runs, Using
<1> QED
  BY <1>3, <1>4

\* No more turns run on the shared process than there are slots: a turn runs in its
\* decision's slot, or in its hedge's, and no two run in one (_turn, tryAcquire, release).
THEOREM TurnsBounded == Spec => []RunsWithinLimit
<1>1. ASSUME Inductive PROVE RunsWithinLimit
  <2>. DEFINE S == {l \in Branches : leg[l].run = "running" /\ ~Unknown(l) /\ proc[at[l[2]]] = "up"}
              F == [l \in S |-> SlotOf(l)]
  <2>1. SlotsTypeOK /\ SlotsConserved /\ limit \in Nat
    BY <1>1, Known, SlotsAssumption DEF SlotsTypeOK
  <2>2. IsFiniteSet(Held) /\ Cardinality(Held) \in Nat /\ Cardinality(Held) <= limit
    <3>1. IsFiniteSet(Held)
      BY SlotsAssumption, FS_Subset DEF Held
    <3> QED
      BY <2>1, <3>1, FS_CardinalityType DEF SlotsConserved
  <2>3. ASSUME NEW l \in S
        PROVE  /\ l[2] \in Decisions /\ Runs(l) /\ (l = First(l[2]) \/ l = Hedge(l[2]))
               /\ SlotOf(l) \in Held
    <3>1. l[2] \in Decisions /\ Runs(l) /\ (l = First(l[2]) \/ l = Hedge(l[2]))
      BY BranchOf DEF Runs
    <3>2. l[2] \in Holders /\ Hedge(l[2]) \in Holders
      BY <3>1, Apart
    <3> QED
      BY <1>1, <3>1, <3>2, RunsInSlot DEF SlotOf, Held
  <2>4. ASSUME NEW l \in S, NEW m \in S, SlotOf(l) = SlotOf(m)
        PROVE  l = m
    <3>1. l[2] \in Decisions /\ m[2] \in Decisions
      BY <2>3
    <3>2. CASE l = Hedge(l[2]) /\ grant[l] = "held"
      <4>1. m = Hedge(m[2]) /\ grant[m] = "held"
        BY <2>4, <3>1, <3>2, Apart DEF SlotOf
      <4> QED
        BY <2>4, <3>2, <4>1 DEF SlotOf
    <3>3. CASE m = Hedge(m[2]) /\ grant[m] = "held"
      <4>1. l = Hedge(l[2]) /\ grant[l] = "held"
        BY <2>4, <3>1, <3>3, Apart DEF SlotOf
      <4> QED
        BY <2>4, <3>3, <4>1 DEF SlotOf
    <3>4. CASE ~(l = Hedge(l[2]) /\ grant[l] = "held") /\ ~(m = Hedge(m[2]) /\ grant[m] = "held")
      <4>1. l[2] = m[2]
        BY <2>4, <3>4 DEF SlotOf
      <4> QED
        BY <1>1, <2>3, <3>4, <4>1, RunsInSlot
    <3> QED
      BY <3>2, <3>3, <3>4
  <2>. HIDE DEF S
  <2>5. F \in [S -> Held] /\ \A l, m \in S : F[l] = F[m] => l = m
    BY <2>3, <2>4
  <2>6. F \in Injection(S, Held)
    BY <2>5, Fun_IsInj
  <2>7. Cardinality(S) <= Cardinality(Held) /\ IsFiniteSet(S)
    BY <2>2, <2>6, FS_Injection
  <2>8. Cardinality(S) \in Nat
    BY <2>7, FS_CardinalityType
  <2>9. Cardinality(S) <= limit
    BY <2>1, <2>2, <2>7, <2>8
  <2> QED
    BY <2>9 DEF RunsWithinLimit, S
<1> QED
  BY <1>1, Invariance, PTL
=============================================================================
