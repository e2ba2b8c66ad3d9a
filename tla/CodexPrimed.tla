------------------------------ MODULE CodexPrimed ------------------------------
(***************************************************************************)
(* CodexPrimedSessions (src/src/codex-primed.ts): decisions answered by    *)
(* ephemeral forks of primed threads, all on one shared app-server.        *)
(*                                                                         *)
(* A decision takes a slot, waits for the process, finds its key's primed  *)
(* session or runs inline on a fresh thread while the key is primed in the *)
(* background, opens its branch, is admitted, and starts its turn.  A slow *)
(* turn is hedged by a second branch in a free slot; the first to answer   *)
(* wins and the other is stopped.  What cannot be stopped, broke the text  *)
(* only policy, or was never acknowledged costs every decision the         *)
(* process: it is recycled, and the next decision starts another.          *)
(*                                                                         *)
(* A session, and its base thread, is named by the call that primed it.  A *)
(* branch is <<"first", d>> or <<"hedge", d>>, and the latter is also the  *)
(* name of its slot.  A process is named by its generation.                *)
(***************************************************************************)
EXTENDS Slots

CONSTANTS
    Decisions,      \* the decide() calls
    Warmups,        \* the prime() calls
    Specs,          \* the scenarios: the key and the context of each call, and what may happen
    Nobody,         \* no session, no context
    MaxSessions,    \* maxSessions
    MaxGens         \* bound: the processes

Branches == {"first", "hedge"} \X Decisions
Askers   == Decisions \cup Warmups
Keys     == UNION {{r.key[x] : x \in Askers} : r \in Specs}
Hashes   == UNION {{r.hash[x] : x \in Askers} : r \in Specs}
Gens     == 1 .. MaxGens

ASSUME CodexPrimedAssumption ==
    /\ Holders = Decisions \cup ({"hedge"} \X Decisions)
    /\ Decisions \cap (Warmups \cup ({"hedge"} \X Decisions)) = {}
    /\ Nobody \notin Askers \cup Hashes
    /\ MaxSessions \in Nat \ {0} /\ MaxGens \in Nat

VARIABLES
    phase, told,    \* where decide() is suspended; what its caller was told
    gone,           \* the deadlines that passed and the signals that aborted
    at,             \* the process of each decision, and of each primer
    found,          \* the session a decision forks from
    chosen,         \* the branch it reports: the winner, or the first
    fine,           \* which of its branches are known to be over: "others", "chosen"
    leg,            \* each branch and its turn: [st, run, bad, lost]
    gen, conn, starting,    \* _generation; _conn and _starting, by generation, or 0
    proc,           \* the processes
    failed,         \* those whose start failed
    sessions,       \* _sessions
    sess,           \* each session: [gen, inUse, stale, warm, evicted]
    keys,           \* _keys: [last, volatile, priming, epoch]; a new epoch is a new KeyState
    primer,         \* each background prime: where it is, and the KeyState it is for
    threads,        \* the base threads the runtime keeps
    closing,        \* close()
    spec            \* the scenario

Key  == spec.key
Hash == spec.hash

\* Bounds of a scenario: its slots, the decisions whose deadline passes or whose signal aborts, those
\* slow enough to be hedged, and what may go wrong: "exit", "silent", "refuses", "fails",
\* "violates", "limited", "prime" (a primer fails), "breaks" (it breaks the policy),
\* "idle", "evict", "close".
Leavers == spec.leavers
Hedged  == spec.hedged
Faults  == spec.faults

deciding == <<phase, told, gone, at, found, chosen, fine>>
process  == <<gen, conn, starting, proc, failed>>
primed   == <<sessions, sess, keys, primer, threads>>
fixed     == <<spec, limit>>
vars     == <<slots, deciding, leg, process, primed, closing, fixed>>

closed == closing # "open"

PhaseTypeOK ==
    /\ phase \in [Decisions -> {"idle", "slot", "process", "opening", "admitting", "starting",
                                "failing", "racing", "stopping", "recycling", "ending", "exiting", "end"}]
    /\ told \in [Decisions -> {"none", "pending", "answered", "unsent", "settled", "unsettled"}]
    /\ gone \subseteq Decisions /\ at \in [Askers -> 0 .. MaxGens]
    /\ found \in [Decisions -> Askers \cup {Nobody}]
    /\ chosen \in [Decisions -> {"first", "hedge"}]
    /\ fine \in [Decisions -> SUBSET {"others", "chosen"}]
LegTypeOK ==
    leg \in [Branches -> [st : {"none", "refused", "opening", "open", "starting", "going", "read",
                                "failed", "over"},
                          run : {"no", "running", "completed", "failed", "interrupted"},
                          bad : BOOLEAN, lost : BOOLEAN]]
ProcessTypeOK ==
    /\ gen \in 0 .. MaxGens /\ conn \in 0 .. MaxGens /\ starting \in 0 .. MaxGens
    /\ proc \in [Gens -> {"none", "up", "killed", "gone"}] /\ failed \subseteq Gens
PrimedTypeOK ==
    /\ sessions \in [Keys -> Askers \cup {Nobody}]
    /\ sess \in [Askers -> [gen : 0 .. MaxGens, inUse : Nat, stale : BOOLEAN, warm : BOOLEAN,
                            evicted : BOOLEAN]]
    /\ keys \in [Keys -> [last : Hashes \cup {Nobody}, volatile : BOOLEAN,
                          priming : Askers \cup {Nobody}, epoch : Nat]]
    /\ primer \in [Askers -> [at : {"none", "queued", "thread", "turn", "end"}, epoch : Nat]]
    /\ threads \subseteq Askers
TypeOK ==
    /\ SlotsTypeOK /\ PhaseTypeOK /\ LegTypeOK /\ ProcessTypeOK /\ PrimedTypeOK
    /\ closing \in {"open", "dropping", "closed"} /\ spec \in Specs

Init ==
    /\ SlotsInit /\ spec \in Specs /\ limit = spec.limit
    /\ phase = [d \in Decisions |-> "idle"] /\ told = [d \in Decisions |-> "none"] /\ gone = {}
    /\ at = [x \in Askers |-> 0] /\ found = [d \in Decisions |-> Nobody]
    /\ chosen = [d \in Decisions |-> "first"] /\ fine = [d \in Decisions |-> {}]
    /\ leg = [l \in Branches |-> [st |-> "none", run |-> "no", bad |-> FALSE, lost |-> FALSE]]
    /\ gen = 0 /\ conn = 0 /\ starting = 0 /\ proc = [g \in Gens |-> "none"] /\ failed = {}
    /\ sessions = [k \in Keys |-> Nobody]
    /\ sess = [x \in Askers |-> [gen |-> 0, inUse |-> 0, stale |-> FALSE, warm |-> FALSE, evicted |-> FALSE]]
    /\ keys = [k \in Keys |-> [last |-> Nobody, volatile |-> FALSE, priming |-> Nobody, epoch |-> 0]]
    /\ primer = [x \in Askers |-> [at |-> "none", epoch |-> 0]] /\ threads = {}
    /\ closing = "open"

----------------------------------------------------------------------------
(* The shared process (_process, _lost, _wakeBranches, _recycle)            *)

Ended(l)   == leg[l].run \in {"completed", "failed", "interrupted"}
Tracked(l) == leg[l].st \in {"open", "starting", "going", "read"}
Talks(g)   == g # 0 /\ proc[g] \in {"up", "killed"}

\* _wakeBranches: every branch on it fails now, not at its deadline.
Woken(g) ==
    [l \in Branches |-> IF at[l[2]] = g /\ Tracked(l) /\ ~Ended(l)
                        THEN [leg[l] EXCEPT !.lost = TRUE] ELSE leg[l]]

RecycleKeeping(g) ==
    /\ conn' = (IF conn = g THEN 0 ELSE conn) /\ leg' = Woken(g)
    /\ UNCHANGED <<gen, starting, failed, proc, fixed>>
Recycle(g) ==
    /\ conn' = (IF conn = g THEN 0 ELSE conn) /\ leg' = Woken(g)
    /\ proc' = [proc EXCEPT ![g] = IF @ = "up" THEN "killed" ELSE @]
    /\ UNCHANGED <<gen, starting, failed, fixed>>

\* _process: the current one, the one that is starting, or a new one.  Bound: MaxGens
\* stands for the pause after repeated failures.
Reuses == IF conn # 0 THEN conn ELSE starting
GetsProcess(x) ==
    IF Reuses # 0 THEN at' = [at EXCEPT ![x] = Reuses] /\ UNCHANGED process
    ELSE /\ gen < MaxGens
         /\ gen' = gen + 1 /\ starting' = gen + 1 /\ at' = [at EXCEPT ![x] = gen + 1]
         /\ proc' = [proc EXCEPT ![gen + 1] = "up"] /\ UNCHANGED <<conn, failed>>

\* It answered initialize, and the threads a crashed process left were deleted (_sweep).
ProcessStarts ==
    /\ starting # 0 /\ proc[starting] = "up" /\ ~closed
    /\ conn' = starting /\ starting' = 0 /\ threads' = {}
    /\ UNCHANGED <<slots, deciding, leg, gen, proc, failed, sessions, sess, keys, primer, closing, fixed>>

ProcessFails ==
    /\ starting # 0 /\ (closed \/ proc[starting] = "gone" \/ "silent" \in Faults)
    /\ failed' = failed \cup {starting} /\ starting' = 0
    /\ proc' = [proc EXCEPT ![starting] = IF @ = "up" THEN "killed" ELSE @]
    /\ UNCHANGED <<slots, deciding, leg, gen, conn, primed, closing, fixed>>

\* The connection closed: _lost.
ProcessLost(g) ==
    /\ \/ proc[g] = "killed"
       \/ proc[g] = "up" /\ "exit" \in Faults
    /\ proc' = [proc EXCEPT ![g] = "gone"] /\ conn' = (IF conn = g THEN 0 ELSE conn)
    /\ leg' = Woken(g)
    /\ sessions' = [k \in Keys |-> IF sessions[k] # Nobody /\ sess[sessions[k]].gen = g
                                   THEN Nobody ELSE sessions[k]]
    /\ UNCHANGED <<slots, deciding, gen, starting, failed, sess, keys, primer, threads, closing, fixed>>

----------------------------------------------------------------------------
(* Sessions (_drop, _retire, _makeRoom, _evictIdle, evict)                  *)

InMap(ss) == {s \in Askers : ss[Key[s]] = s}

\* _drop: the base thread is deleted if the process that has it is the current one.
DeletedBy(S) == {s \in S : conn # 0 /\ sess[s].gen = gen}
OutOfMap(ss, S) == [k \in Keys |-> IF ss[k] \in S THEN Nobody ELSE ss[k]]

\* _retire: out of service; deleted now, or when its last decision finishes.
RetireNow(S) ==
    /\ sess' = [s \in Askers |-> IF s \in S THEN [sess[s] EXCEPT !.stale = TRUE] ELSE sess[s]]
    /\ threads' = threads \ DeletedBy(S)
Retire(S) ==
    /\ sess' = [s \in Askers |-> IF s \in S THEN [sess[s] EXCEPT !.stale = TRUE] ELSE sess[s]]
    /\ threads' = threads \ DeletedBy({s \in S : sess[s].inUse = 0})

\* A decision hands its session back: the last one drops a stale one.
HandsBack(d, served) ==
    LET s == found[d]
    IN IF s = Nobody THEN UNCHANGED <<sess, threads>>
       ELSE /\ sess' = [sess EXCEPT ![s].inUse = @ - 1, ![s].warm = @ \/ served]
            /\ threads' = IF sess[s].stale /\ sess[s].inUse = 1 THEN threads \ DeletedBy({s}) ELSE threads

Unused == {s \in InMap(sessions) : sess[s].inUse = 0}

\* _evictIdle, with the key states nobody uses.
EvictIdle(S, K) ==
    /\ "idle" \in Faults /\ ~closed /\ S \cup K # {}
    /\ \A k \in K : keys[k].priming = Nobody /\ sessions[k] = Nobody /\ keys[k].last # Nobody
    /\ Retire(S) /\ sessions' = OutOfMap(sessions, S)
    /\ keys' = [k \in Keys |-> IF k \in K THEN [last |-> Nobody, volatile |-> FALSE, priming |-> Nobody,
                                                epoch |-> keys[k].epoch + 1] ELSE keys[k]]
    /\ UNCHANGED <<slots, deciding, leg, process, primer, closing, fixed>>

\* _makeRoom, as far as there are sessions nobody uses.
MakeRoom(S) ==
    LET size == Cardinality(InMap(sessions))
    IN IF size < MaxSessions \/ S = {} THEN UNCHANGED <<sessions, sess, threads>>
       ELSE \E T \in SUBSET S :
              /\ T = S \/ size - Cardinality(T) = MaxSessions - 1
              /\ size - Cardinality(T) >= MaxSessions - 1
              /\ Retire(T) /\ sessions' = OutOfMap(sessions, T)

\* evict(): unlike _retire it deletes the base thread whoever forks from it.
Evict(k) ==
    /\ "evict" \in Faults /\ ~closed /\ keys[k].last # Nobody /\ \A j \in Keys : keys[j].epoch = 0
    /\ keys' = [keys EXCEPT ![k] = [last |-> Nobody, volatile |-> FALSE, priming |-> Nobody, epoch |-> 1]]
    /\ LET S == {sessions[k]} \ {Nobody}
       IN /\ sessions' = OutOfMap(sessions, S) /\ threads' = threads \ DeletedBy(S)
          /\ sess' = [s \in Askers |-> IF s \in S THEN [sess[s] EXCEPT !.evicted = TRUE] ELSE sess[s]]
    /\ UNCHANGED <<slots, deciding, leg, process, primer, closing, fixed>>

----------------------------------------------------------------------------
(* Background primes (prime, _primeInBackground, _prime)                    *)

\* The primer of ks, the state of its key, after the key's context became that of x.
Primes(x, ks, force) ==
    /\ ks.priming = Nobody \/ Hash[ks.priming] # Hash[x]
    /\ force \/ ~ks.volatile \/ ks.last = Hash[x]
KeyPrimes(x, ks, force) ==
    /\ keys' = [keys EXCEPT ![Key[x]] =
                  [ks EXCEPT !.last = Hash[x], !.priming = IF Primes(x, ks, force) THEN x ELSE @]]
    /\ primer' = IF Primes(x, ks, force) THEN [primer EXCEPT ![x] = [at |-> "queued", epoch |-> ks.epoch]]
                 ELSE primer

\* prime().  Bound: when the process is up.
Warm(x) ==
    /\ x \in spec.warm /\ at[x] = 0 /\ conn # 0 /\ ~closed
    /\ at' = [at EXCEPT ![x] = conn]
    /\ LET s == sessions[Key[x]]
       IN IF s # Nobody /\ Hash[s] = Hash[x] /\ sess[s].gen = gen
          THEN keys' = [keys EXCEPT ![Key[x]].last = Hash[x]] /\ UNCHANGED primer
          ELSE KeyPrimes(x, keys[Key[x]], TRUE)
    /\ UNCHANGED <<slots, phase, told, gone, found, chosen, fine, leg, process, sessions, sess, threads, closing, fixed>>

PrimerEnds(x) ==
    /\ primer' = [primer EXCEPT ![x].at = "end"]
    /\ keys' = [keys EXCEPT ![Key[x]].priming = IF @ = x THEN Nobody ELSE @]

\* With a slot of its own kind: a stale primer ends, another makes room.  One whose key
\* was evicted looks at the context its key had by then, which is not kept here: either.
\* Bound: the slots of primers are as many as primers.
PrimerStarts(x) ==
    /\ primer[x].at = "queued"
    /\ LET kept == keys[Key[x]].epoch = primer[x].epoch
       IN \/ /\ closed \/ conn # at[x] \/ (kept => keys[Key[x]].last # Hash[x])
             /\ PrimerEnds(x) /\ UNCHANGED <<sessions, sess, threads>>
          \/ /\ ~closed /\ conn = at[x] /\ (kept => keys[Key[x]].last = Hash[x])
             /\ primer' = [primer EXCEPT ![x].at = "thread"] /\ UNCHANGED keys
             /\ MakeRoom({s \in Unused : Key[s] # Key[x]})
    /\ UNCHANGED <<slots, deciding, leg, process, closing, fixed>>

PrimerThread(x) ==
    /\ primer[x].at = "thread" /\ Talks(at[x])
    /\ primer' = [primer EXCEPT ![x].at = "turn"] /\ threads' = threads \cup {x}
    /\ sess' = [sess EXCEPT ![x].gen = at[x]]
    /\ UNCHANGED <<slots, deciding, leg, process, sessions, keys, closing, fixed>>

\* It completed: installed if it is still what its key wants, deleted if not.
Wanted(x) ==
    /\ ~closed /\ keys[Key[x]].epoch = primer[x].epoch /\ keys[Key[x]].last = Hash[x] /\ at[x] = gen
    /\ LET s == sessions[Key[x]] IN s # Nobody => Hash[s] # Hash[x] \/ sess[s].gen # gen
PrimerCompletes(x) ==
    /\ primer[x].at = "turn" /\ Talks(at[x])
    /\ IF Wanted(x)
       THEN LET S == {sessions[Key[x]]} \ {Nobody}
            IN /\ sessions' = [sessions EXCEPT ![Key[x]] = x] /\ Retire(S)
               /\ keys' = [keys EXCEPT ![Key[x]].priming = IF @ = x THEN Nobody ELSE @,
                                       ![Key[x]].volatile = @ \/ \E s \in S : ~sess[s].warm]
               /\ primer' = [primer EXCEPT ![x].at = "end"]
       ELSE PrimerEnds(x) /\ threads' = threads \ {x} /\ UNCHANGED <<sessions, sess>>
    /\ UNCHANGED <<slots, deciding, leg, process, closing, fixed>>

\* It failed or timed out, and its thread is deleted; after a violation, or a turn/start
\* that was never answered, the process is recycled.
PrimerFails(x, recycles) ==
    /\ primer[x].at \in {"thread", "turn"} /\ ("prime" \in Faults \/ ~Talks(at[x]))
    /\ PrimerEnds(x)
    /\ threads' = IF Talks(at[x]) THEN threads \ {x} ELSE threads
    /\ IF recycles THEN primer[x].at = "turn" /\ "breaks" \in Faults /\ Recycle(at[x])
       ELSE UNCHANGED <<leg, process>>
    /\ UNCHANGED <<slots, deciding, sessions, sess, closing, fixed>>

----------------------------------------------------------------------------
(* decide(): up to its branch                                               *)

Settle(d, what) ==
    /\ phase' = [phase EXCEPT ![d] = "end"] /\ told' = [told EXCEPT ![d] = what]
    /\ Release(d)

\* The end of _decide: the session is handed back and the branch forgotten.
Forgotten(l) == [leg EXCEPT ![l].st = IF @ = "none" THEN @ ELSE "over"]
Finish(d, what) == Settle(d, what) /\ HandsBack(d, FALSE) /\ leg' = Forgotten(<<chosen[d], d>>)

Decide(d) ==
    /\ phase[d] = "idle"
    /\ IF closed
       THEN /\ phase' = [phase EXCEPT ![d] = "end"] /\ told' = [told EXCEPT ![d] = "unsent"]
            /\ UNCHANGED slots
       ELSE /\ Acquire(d)
            /\ phase' = [phase EXCEPT ![d] = "slot"] /\ told' = [told EXCEPT ![d] = "pending"]
    /\ UNCHANGED <<gone, at, found, chosen, fine, leg, process, primed, closing, fixed>>

\* The deadline passes, or the caller aborts.
GoesAway(d) ==
    /\ d \in Leavers \ gone /\ told[d] = "pending"
    /\ gone' = gone \cup {d}
    /\ UNCHANGED <<slots, phase, told, at, found, chosen, fine, leg, process, primed, closing, fixed>>

LeavesQueue(d) ==
    /\ phase[d] = "slot" /\ grant[d] = "waiting" /\ d \in gone
    /\ Leave(d)
    /\ phase' = [phase EXCEPT ![d] = "end"] /\ told' = [told EXCEPT ![d] = "unsent"]
    /\ UNCHANGED <<gone, at, found, chosen, fine, leg, process, primed, closing, fixed>>

Proceeds(d) ==
    /\ phase[d] = "slot" /\ grant[d] = "held"
    /\ IF d \in gone \/ closed \/ (Reuses = 0 /\ gen = MaxGens)
       THEN Settle(d, "unsent") /\ UNCHANGED <<at, process>>
       ELSE GetsProcess(d) /\ phase' = [phase EXCEPT ![d] = "process"] /\ UNCHANGED <<slots, told>>
    /\ UNCHANGED <<gone, found, chosen, fine, leg, primed, closing, fixed>>

\* The process did not start, or the account is blocked (_checkLimits).
ProcessRefused(d) ==
    /\ phase[d] = "process"
    /\ at[d] \in failed \/ (starting # at[d] /\ "limited" \in Faults)
    /\ Settle(d, "unsent")
    /\ UNCHANGED <<gone, at, found, chosen, fine, leg, process, primed, closing, fixed>>

\* The key's session is found, or retired for another context and primed off the path;
\* a decision that is still wanted opens its branch.
Looks(d) ==
    /\ phase[d] = "process" /\ starting # at[d] /\ at[d] \notin failed
    /\ LET k  == Key[d]
           s  == sessions[k]
           ok == s # Nobody /\ Hash[s] = Hash[d] /\ sess[s].gen = gen
           S  == IF s = Nobody \/ ok THEN {} ELSE {s}
           R  == {x \in S : sess[x].gen = gen}
           ks == [keys[k] EXCEPT !.volatile = @ \/ \E x \in R : ~sess[x].warm]
           used == ok /\ d \notin gone
       IN /\ sessions' = OutOfMap(sessions, S)
          /\ IF used THEN sess' = [sess EXCEPT ![s].inUse = @ + 1] /\ UNCHANGED threads ELSE Retire(R)
          /\ IF ok THEN keys' = [keys EXCEPT ![k].last = Hash[d]] /\ UNCHANGED primer
             ELSE KeyPrimes(d, ks, FALSE)
          /\ found' = IF used THEN [found EXCEPT ![d] = s] ELSE found
    /\ IF d \in gone THEN Settle(d, "unsent")
       ELSE phase' = [phase EXCEPT ![d] = "opening"] /\ UNCHANGED <<slots, told>>
    /\ UNCHANGED <<gone, at, chosen, fine, leg, process, closing, fixed>>

\* thread/fork of the base thread, or thread/start, is answered.
HasBase(d) == found[d] # Nobody => found[d] \in threads /\ sess[found[d]].gen = at[d]
Opened(d) ==
    /\ phase[d] = "opening" /\ Talks(at[d]) /\ HasBase(d)
    /\ phase' = [phase EXCEPT ![d] = "admitting"]
    /\ leg' = [leg EXCEPT ![<<"first", d>>].st = "open"]
    /\ UNCHANGED <<slots, told, gone, at, found, chosen, fine, process, primed, closing, fixed>>

\* The runtime has no such thread: the session is retired, and this decision is the
\* last to hand it back, or not.
OpenRefused(d) ==
    /\ phase[d] = "opening" /\ Talks(at[d])
    /\ found[d] # Nobody /\ (~HasBase(d) \/ "refuses" \in Faults)
    /\ Settle(d, "unsent")
    /\ LET s == found[d]
       IN /\ sessions' = OutOfMap(sessions, {s})
          /\ sess' = [sess EXCEPT ![s].stale = TRUE, ![s].inUse = @ - 1]
          /\ threads' = IF sess[s].inUse = 1 THEN threads \ DeletedBy({s}) ELSE threads
    /\ UNCHANGED <<gone, at, found, chosen, fine, leg, process, keys, primer, closing, fixed>>

\* No answer before the deadline, or ever.
OpenFails(d) ==
    /\ phase[d] = "opening" /\ (d \in gone \/ ~Talks(at[d]))
    /\ Finish(d, "unsent")
    /\ UNCHANGED <<gone, at, found, chosen, fine, process, sessions, keys, primer, closing, fixed>>

\* onAdmission returned, and the deadline, the signal and the process are looked at
\* again: turn/start is written.
Writes(l) == leg' = [leg EXCEPT ![l].st = "starting", ![l].run = "running"]
Writable(d) == d \notin gone /\ conn = at[d] /\ ~closed
Admits(d) ==
    /\ phase[d] = "admitting" /\ Writable(d)
    /\ phase' = [phase EXCEPT ![d] = "starting"] /\ Writes(<<"first", d>>)
    /\ UNCHANGED <<slots, told, gone, at, found, chosen, fine, process, primed, closing, fixed>>

AdmissionFails(d) ==
    /\ phase[d] = "admitting" /\ (~Writable(d) \/ "refuses" \in Faults)
    /\ Finish(d, "unsent")
    /\ UNCHANGED <<gone, at, found, chosen, fine, process, sessions, keys, primer, closing, fixed>>

----------------------------------------------------------------------------
(* _turn: one turn, its hedge and their race                                *)

StartAnswered(d) ==
    /\ phase[d] = "starting" /\ Talks(at[d])
    /\ phase' = [phase EXCEPT ![d] = "racing"] /\ leg' = [leg EXCEPT ![<<"first", d>>].st = "going"]
    /\ UNCHANGED <<slots, told, gone, at, found, chosen, fine, process, primed, closing, fixed>>

\* The runtime refused it: nothing runs.
StartRefused(d) ==
    /\ phase[d] = "starting" /\ "refuses" \in Faults /\ Talks(at[d])
    /\ leg[<<"first", d>>].run = "running"
    /\ Settle(d, "settled") /\ HandsBack(d, FALSE)
    /\ leg' = [leg EXCEPT ![<<"first", d>>].st = "over", ![<<"first", d>>].run = "no"]
    /\ UNCHANGED <<gone, at, found, chosen, fine, process, sessions, keys, primer, closing, fixed>>

\* Nobody knows whether it runs until the process is gone.
StartUnanswered(d) ==
    /\ phase[d] = "starting" /\ (d \in gone \/ ~Talks(at[d]))
    /\ Recycle(at[d]) /\ phase' = [phase EXCEPT ![d] = "failing"]
    /\ UNCHANGED <<slots, told, gone, at, found, chosen, fine, primed, closing, fixed>>
StartFailed(d) ==
    /\ phase[d] = "failing"
    /\ Finish(d, IF proc[at[d]] = "gone" THEN "settled" ELSE "unsettled")
    /\ UNCHANGED <<gone, at, found, chosen, fine, process, sessions, keys, primer, closing, fixed>>

\* The hedge's time: only in a free slot, and not when the first already ended.
First(d) == <<"first", d>>
Hedge(d) == <<"hedge", d>>
Attention(l) == Ended(l) \/ leg[l].bad \/ leg[l].lost
HedgeOpens(d) ==
    /\ phase[d] = "racing" /\ d \in Hedged /\ leg[Hedge(d)].st = "none"
    /\ ~Attention(First(d)) /\ TryAcquire(Hedge(d))
    /\ leg' = [leg EXCEPT ![Hedge(d)].st = IF grant'[Hedge(d)] = "held" THEN "opening" ELSE "refused"]
    /\ UNCHANGED <<deciding, process, primed, closing, fixed>>

\* Its branch is there, and its turn is written whatever became of the race.
HedgeWrites(d) ==
    /\ leg[Hedge(d)].st = "opening" /\ Talks(at[d]) /\ HasBase(d)
    /\ Writes(Hedge(d))
    /\ UNCHANGED <<slots, deciding, process, primed, closing, fixed>>

\* It joins the race, if there still is one.
HedgeStarts(d) ==
    /\ phase[d] = "racing" /\ leg[Hedge(d)].st = "starting" /\ Talks(at[d])
    /\ leg' = [leg EXCEPT ![Hedge(d)].st = "going"]
    /\ UNCHANGED <<slots, deciding, process, primed, closing, fixed>>

\* It could not open or start; without the runtime's own refusal its turn may run.
Unknown(l) == leg[l].st = "failed" /\ leg[l].run # "no"
HedgeFails(d, refused) ==
    LET l == Hedge(d)
    IN /\ phase[d] = "racing" /\ leg[l].st \in {"opening", "starting"}
       /\ IF refused
          THEN /\ Talks(at[d])
               /\ \/ leg[l].st = "opening" /\ ("refuses" \in Faults \/ ~HasBase(d))
                  \/ leg[l].st = "starting" /\ "refuses" \in Faults /\ leg[l].run = "running"
          ELSE d \in gone \/ ~Talks(at[d])
       /\ Release(l)
       /\ leg' = [leg EXCEPT ![l].st = "failed", ![l].run = IF refused THEN "no" ELSE @]
       /\ UNCHANGED <<deciding, process, primed, closing, fixed>>

Legs(d) == {l \in {First(d), Hedge(d)} : leg[l].st \in {"going", "read"}}
Decided(d, c) ==
    /\ chosen' = [chosen EXCEPT ![d] = c]
    /\ IF Legs(d) = {<<c, d>>}
       THEN phase' = [phase EXCEPT ![d] = "ending"] /\ fine' = [fine EXCEPT ![d] = {"others"}]
       ELSE phase' = [phase EXCEPT ![d] = "stopping"] /\ UNCHANGED fine

\* A branch that failed natively leaves the other to answer; a completion, a violation
\* or a loss decides.
FailsAlone(d, l) ==
    /\ leg[l].run \in {"failed", "interrupted"} /\ ~leg[l].bad /\ ~leg[l].lost
    /\ \E o \in Legs(d) \ {l} : ~Ended(o) /\ ~leg[o].lost
LegDecides(d, c) ==
    LET l == <<c, d>>
    IN /\ phase[d] = "racing" /\ leg[l].st = "going" /\ Attention(l)
       /\ IF FailsAlone(d, l) THEN leg' = [leg EXCEPT ![l].st = "read"] /\ UNCHANGED <<phase, chosen, fine>>
          ELSE Decided(d, c) /\ UNCHANGED leg
    /\ UNCHANGED <<slots, told, gone, at, found, process, primed, closing, fixed>>

TimesOut(d) ==
    /\ phase[d] = "racing" /\ d \in gone
    /\ Decided(d, "first")
    /\ UNCHANGED <<slots, told, gone, at, found, leg, process, primed, closing, fixed>>

\* _stopBranch: interrupted, and given two seconds; a violation or no answer recycles.
Other(d) == IF chosen[d] = "first" THEN Hedge(d) ELSE First(d)
HedgeDone(d) == IF grant[Hedge(d)] = "held" THEN Release(Hedge(d)) ELSE UNCHANGED slots
Stopped(l) == Ended(l) \/ leg[l].lost
OtherStops(d) ==
    /\ phase[d] = "stopping"
    /\ LET o == Other(d)
       IN IF Stopped(o) /\ ~leg[o].bad
          THEN /\ phase' = [phase EXCEPT ![d] = "ending"] /\ fine' = [fine EXCEPT ![d] = {"others"}]
               /\ leg' = Forgotten(o) /\ HedgeDone(d) /\ UNCHANGED process
          ELSE /\ phase' = [phase EXCEPT ![d] = "recycling"]
               /\ fine' = [fine EXCEPT ![d] = IF Stopped(o) THEN {"others"} ELSE {}]
               /\ Recycle(at[d]) /\ UNCHANGED slots
    /\ UNCHANGED <<told, gone, at, found, chosen, primed, closing, fixed>>
OtherRecycled(d) ==
    /\ phase[d] = "recycling"
    /\ phase' = [phase EXCEPT ![d] = "ending"]
    /\ fine' = [fine EXCEPT ![d] = IF proc[at[d]] = "gone" THEN {"others"} ELSE @]
    /\ leg' = Forgotten(Other(d)) /\ HedgeDone(d)
    /\ UNCHANGED <<told, gone, at, found, chosen, process, primed, closing, fixed>>

\* The same for the branch it reports, which was waited for or interrupted.  A hedge that
\* did not join the race is not looked at.
Broken(l)   == leg[l].bad /\ leg[l].st \notin {"starting", "failed"}
Violated(d) == Broken(First(d)) \/ Broken(Hedge(d))
Outcome(d, over) ==
    LET l == <<chosen[d], d>>
        ok == over /\ "others" \in fine[d]
    IN IF leg[l].run = "completed" /\ ~Violated(d) THEN "answered"
       ELSE IF ok \/ (Ended(l) /\ ~Violated(d)) THEN "settled" ELSE "unsettled"
MustRecycleUnlessOver(d) == ~Ended(<<chosen[d], d>>)
MustRecycle(d) == Violated(d) \/ Unknown(Hedge(d)) \/ ~Ended(<<chosen[d], d>>)

\* An answer from a primed session makes its key worth priming again.
Reports(d, over) ==
    LET what == Outcome(d, over)
    IN /\ Settle(d, what) /\ leg' = Forgotten(<<chosen[d], d>>)
       /\ HandsBack(d, what = "answered")
       /\ keys' = IF what = "answered" /\ found[d] # Nobody /\ ~sess[found[d]].evicted
                  THEN [keys EXCEPT ![Key[d]].volatile = FALSE] ELSE keys

Ends(d) ==
    /\ phase[d] = "ending"
    /\ IF MustRecycle(d)
       THEN /\ phase' = [phase EXCEPT ![d] = "exiting"] /\ Recycle(at[d])
            /\ fine' = [fine EXCEPT ![d] = @ \cup IF Ended(<<chosen[d], d>>) THEN {"chosen"} ELSE {}]
            /\ UNCHANGED <<slots, told, sess, keys, threads>>
       ELSE Reports(d, TRUE) /\ UNCHANGED <<fine, process>>
    /\ UNCHANGED <<gone, at, found, chosen, sessions, primer, closing, fixed>>
Exits(d) ==
    /\ phase[d] = "exiting"
    /\ Reports(d, proc[at[d]] = "gone" \/ "chosen" \in fine[d])
    /\ UNCHANGED <<gone, at, found, chosen, fine, process, sessions, primer, closing, fixed>>

----------------------------------------------------------------------------
(* The runtime, and close()                                                 *)

Interrupted(l) ==
    LET d == l[2]
    IN leg[l].bad \/ (phase[d] = "stopping" /\ l = Other(d)) \/ (phase[d] = "ending" /\ l = <<chosen[d], d>>)
TurnEnds(l, how) ==
    /\ leg[l].run = "running" /\ Talks(at[l[2]]) /\ told[l[2]] = "pending"
    /\ how = "failed" => "fails" \in Faults
    /\ how = "interrupted" => Interrupted(l)
    /\ leg' = [leg EXCEPT ![l].run = how]
    /\ UNCHANGED <<slots, deciding, process, primed, closing, fixed>>

\* An item or a request that no text only turn has, or an MCP server that starts, also
\* before the turn (_notification, _serverRequest).  Bound: once.
Violates(l) ==
    /\ "violates" \in Faults /\ Talks(at[l[2]])
    /\ Tracked(l) /\ (\A o \in Branches : ~leg[o].bad) /\ told[l[2]] = "pending"
    /\ leg' = [leg EXCEPT ![l].bad = TRUE]
    /\ UNCHANGED <<slots, deciding, process, primed, closing, fixed>>

\* close(): the waiters are refused, the sessions dropped, the process killed.
Close ==
    /\ "close" \in Faults /\ ~closed /\ closing' = "dropping"
    /\ Drain
    /\ phase' = [d \in Decisions |-> IF grant[d] = "waiting" THEN "end" ELSE phase[d]]
    /\ told' = [d \in Decisions |-> IF grant[d] = "waiting" THEN "unsent" ELSE told[d]]
    /\ threads' = threads \ DeletedBy(InMap(sessions)) /\ sessions' = [k \in Keys |-> Nobody]
    /\ UNCHANGED <<gone, at, found, chosen, fine, leg, process, sess, keys, primer, fixed>>
CloseKills ==
    /\ closing = "dropping" /\ closing' = "closed"
    /\ proc' = [g \in Gens |-> IF g = conn /\ proc[g] = "up" THEN "killed" ELSE proc[g]] /\ conn' = 0
    /\ UNCHANGED <<slots, deciding, leg, gen, starting, failed, primed, fixed>>

----------------------------------------------------------------------------
Handlers(d) ==
    \/ LeavesQueue(d) \/ Proceeds(d) \/ ProcessRefused(d) \/ Looks(d)
    \/ Opened(d) \/ OpenRefused(d) \/ OpenFails(d) \/ Admits(d) \/ AdmissionFails(d)
    \/ StartAnswered(d) \/ StartRefused(d) \/ StartUnanswered(d) \/ StartFailed(d)
    \/ HedgeOpens(d) \/ HedgeWrites(d) \/ HedgeStarts(d)
    \/ HedgeFails(d, TRUE) \/ HedgeFails(d, FALSE)
    \/ LegDecides(d, "first") \/ LegDecides(d, "hedge") \/ TimesOut(d)
    \/ OtherStops(d) \/ OtherRecycled(d) \/ Ends(d) \/ Exits(d)
Background ==
    \/ \E x \in Askers : PrimerStarts(x) \/ PrimerThread(x) \/ PrimerCompletes(x)
    \/ \E x \in Askers : PrimerFails(x, TRUE) \/ PrimerFails(x, FALSE)
    \/ ProcessStarts \/ ProcessFails \/ CloseKills
Events ==
    \/ \E d \in Decisions : Decide(d) \/ GoesAway(d)
    \/ \E x \in Warmups : Warm(x)
    \/ \E l \in Branches : TurnEnds(l, "completed") \/ TurnEnds(l, "failed") \/ TurnEnds(l, "interrupted")
    \/ \E l \in Branches : Violates(l)
    \/ \E g \in Gens : ProcessLost(g)
    \/ \E S \in SUBSET Unused, K \in SUBSET Keys : EvictIdle(S, K)
    \/ \E k \in Keys : Evict(k)
    \/ Close

Next == (\E d \in Decisions : Handlers(d)) \/ Background \/ Events

Spec == Init /\ [][Next]_vars

----------------------------------------------------------------------------
(* Properties                                                               *)

\* No more turns run on the shared process than there are slots (hedges included, which
\* take one of their own, _turn), but for a hedge whose turn/start was never answered: a
\* decision lets go of its slot when its turns are over, or their process is killed.
RunsWithinLimit ==
    Cardinality({l \in Branches : /\ leg[l].run = "running" /\ ~Unknown(l)
                                  /\ proc[at[l[2]]] = "up"}) <= limit

\* A caller is told that its decision was not dispatched only if nothing was written for
\* it, and that it is settled only if the branch it reports is over, or the exit of its
\* process was seen, and every other that joined the race is over or lost its process
\* (_turn, _stopBranch, DecisionError).
ToldTruly ==
    \A d \in Decisions :
        /\ told[d] = "unsent" => leg[First(d)].run = "no" /\ leg[Hedge(d)].run = "no"
        /\ told[d] = "answered" => leg[<<chosen[d], d>>].run = "completed"
        /\ told[d] \in {"answered", "settled"} =>
             /\ leg[<<chosen[d], d>>].run = "running" => proc[at[d]] = "gone"
             /\ leg[Other(d)].run = "running" => leg[Other(d)].st = "starting" \/ proc[at[d]] # "up"

\* A decision never reports with its process still serving after a branch whose turn was
\* accepted broke the text only policy ("a violation always recycles"), or when a turn may
\* run unseen; a hedge that is still starting is not looked at.
ViolationsRecycle ==
    \A d \in Decisions : told[d] \in {"answered", "settled", "unsettled"} =>
        \A l \in {First(d), Hedge(d)} :
           leg[l].st # "starting" /\ (Unknown(l) \/ (leg[l].bad /\ leg[l].run # "no")) => proc[at[d]] # "up"

\* A base thread lives as long as it is needed and no longer (_retire, _drop,
\* _primeInBackground): on the current process of an open host, a session in the map, or
\* one a decision still forks from, has its thread, unless evict() took it; and a thread
\* is in the map, in use, or being primed.
BasesHeld ==
    conn # 0 /\ gen = conn /\ proc[conn] = "up" /\ ~closed =>
        /\ \A s \in InMap(sessions) : sess[s].gen = conn => s \in threads
        /\ \A d \in Decisions :
             phase[d] = "opening" /\ found[d] # Nobody => LET s == found[d] IN
                s \in threads \/ sess[s].evicted \/ sess[s].gen # conn
        /\ \A s \in threads : sess[s].gen = conn =>
             s \in InMap(sessions) \/ sess[s].inUse > 0 \/ primer[s].at = "turn"

\* src/src/codex-primed.ts:833 "The decision is settled only when every branch it started
\* is": nothing of a decision that was told so runs on a process in service.
BranchesOver ==
    \A d \in Decisions : told[d] \in {"answered", "settled"} =>
        \A l \in {First(d), Hedge(d)} : leg[l].run = "running" => proc[at[d]] # "up"
=============================================================================
