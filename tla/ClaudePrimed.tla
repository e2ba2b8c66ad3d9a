----------------------------- MODULE ClaudePrimed -----------------------------
(***************************************************************************)
(* ClaudePrimedSessions (src/src/claude-primed.ts): decisions answered by  *)
(* short-lived forks of one primed conversation per key.                   *)
(*                                                                         *)
(* A decision takes a slot, finds or primes its key's session in the key's *)
(* queue, and sends on the session's spare process or on a new fork.  The  *)
(* wait for the session is bounded, the lookup itself is not: it runs on   *)
(* for the next decision.  When the decision is over its process is        *)
(* disposed of and the spare replaced beside other decisions (cleanup).    *)
(* Sessions are dropped by a changed context, for room, when idle, on      *)
(* evict() and on close(), while decisions still fork from their           *)
(* transcript.                                                             *)
(*                                                                         *)
(* A session is named by the decision that primed it; processes are        *)
(* external, <<"base", d>>, <<"branch", d>> and <<"spare", d>>.            *)
(***************************************************************************)
EXTENDS Slots

CONSTANTS
    Evicts,         \* the evict() calls
    Specs,          \* what is asked: the key of each decision and evict, and their contexts
    Bare,           \* the contexts that are empty: nothing is primed for them
    MaxSessions,    \* maxSessions
    Nobody,         \* no session, no process
    Leavers,        \* bound: the decisions whose deadline passes or whose signal aborts
    Spared,         \* config.spare
    Faults          \* what may go wrong: "prime", "refuses", "limited", "exit",
                    \* "idle", "close"

Decisions == Holders
Tasks == Decisions \cup Evicts
Keys  == UNION {{r.key[x] : x \in Tasks} : r \in Specs}
Procs == {"base", "branch", "spare"} \X Decisions

\* Who drops a session: a lookup, an evict(), or one of these.
Droppers == {"idle", "late", "close"}

ASSUME ClaudePrimedAssumption ==
    /\ Evicts \cap Decisions = {} /\ Droppers \cap Tasks = {}
    /\ Nobody \notin Tasks \cup Procs \cup Droppers

VARIABLES
    phase, told,    \* where decide() is suspended; what its caller was told, if settled
    gone,           \* the deadlines that passed and the signals that aborted
    task, queue,    \* the lookups and evicts of a key and where they are; KeyedQueue
    sessions,       \* _sessions
    sess,           \* each session: [inUse, stale, spare, cleanup]
    held,           \* the session a decision has a reference to (`taken`)
    branch,         \* the process a decision sends on
    cleanup,        \* the cleanup each decision started
    drop,           \* the _drop of each session: where it is, what it waits for, is it close()'s
    files,          \* the transcripts on disk
    proc, turn,     \* the processes; the decisions' turns in them
    closing,        \* close()
    spec            \* the one of Specs that is asked

Key  == spec.key
Hash == spec.hash

deciding == <<phase, told, gone, held, branch, cleanup>>
keyed    == <<task, queue, sessions, sess, drop>>
outside  == <<files, proc, turn>>
fixed     == <<spec, limit>>
vars     == <<slots, deciding, keyed, outside, closing, fixed>>

closed == closing # "open"

DecidingTyped ==
    /\ phase \in [Decisions -> {"idle", "slot", "lookup", "cleaning", "replacing", "branching",
                                "admitting", "turn", "disposing", "end"}]
    /\ told \in [Decisions -> {"none", "pending", "answered", "unsent", "settled", "unsettled"}]
    /\ gone \subseteq Decisions
    /\ held \in [Decisions -> Decisions \cup {Nobody}]
    /\ branch \in [Decisions -> Procs \cup {Nobody}]
    /\ cleanup \in [Decisions -> [at : {"none", "disposing", "starting", "end"}, of : Decisions \cup {Nobody}]]
KeyedTyped ==
    /\ task \in [Tasks -> {"none", "queued", "dropping", "room", "priming", "primed", "refusing", "end"}]
    /\ queue \in [Keys -> Seq(Tasks)]
    /\ sessions \in [Keys -> Decisions \cup {Nobody}]
    /\ sess \in [Decisions -> [inUse : Nat, stale : BOOLEAN, spare : Procs \cup {Nobody},
                               cleanup : Decisions \cup {Nobody}]]
    /\ drop \in [Decisions -> [at : {"none", "cleanup", "spare", "end"}, on : Decisions \cup {Nobody},
                               by : Tasks \cup Droppers \cup {Nobody}]]
OutsideTyped ==
    /\ files \subseteq Decisions
    /\ proc \in [Procs -> {"none", "up", "killed", "gone"}]
    /\ turn \in [Decisions -> {"none", "running", "over"}]
TypeOK ==
    /\ SlotsTypeOK /\ DecidingTyped /\ KeyedTyped /\ OutsideTyped
    /\ closing \in {"open", "disposing", "dropping", "closed"} /\ spec \in Specs

Init ==
    /\ SlotsInit
    /\ phase = [d \in Decisions |-> "idle"] /\ told = [d \in Decisions |-> "none"] /\ gone = {}
    /\ task = [x \in Tasks |-> "none"] /\ queue = [k \in Keys |-> <<>>]
    /\ sessions = [k \in Keys |-> Nobody]
    /\ sess = [d \in Decisions |-> [inUse |-> 0, stale |-> FALSE, spare |-> Nobody, cleanup |-> Nobody]]
    /\ held = [d \in Decisions |-> Nobody] /\ branch = [d \in Decisions |-> Nobody]
    /\ cleanup = [d \in Decisions |-> [at |-> "none", of |-> Nobody]]
    /\ drop = [d \in Decisions |-> [at |-> "none", on |-> Nobody, by |-> Nobody]]
    /\ files = {} /\ proc = [p \in Procs |-> "none"] /\ turn = [d \in Decisions |-> "none"]
    /\ closing = "open" /\ spec \in Specs

----------------------------------------------------------------------------
(* Processes and transcripts (_owned, _dispose, _branch, _retire, _release) *)

\* _owned: a process that close() knows of.
Started(p) == [proc EXCEPT ![p] = "up"]

Killed(ps) == [p \in Procs |-> IF p \in ps /\ proc[p] = "up" THEN "killed" ELSE proc[p]]

Bared(s) == Hash[s] \in Bare

\* _retire: the transcript goes, and with it the session.
RetiredFrom(ss, s) == [ss EXCEPT ![s].stale = FALSE]
Retire(ss, s) == sess' = RetiredFrom(ss, s) /\ files' = files \ {s}

\* _release: the last reference to a stale session retires it.
ReleaseSession(s) ==
    LET ss == [sess EXCEPT ![s].inUse = @ - 1]
    IN IF ss[s].stale /\ ss[s].inUse = 0 THEN Retire(ss, s) ELSE sess' = ss /\ UNCHANGED files

\* decide() settles its caller and gives its slot back.
Settle(d, what) ==
    /\ phase' = [phase EXCEPT ![d] = "end"] /\ told' = [told EXCEPT ![d] = what]
    /\ Release(d)

\* The end of _decide once it has a session: the reference is returned, and the
\* process is disposed of and the spare replaced off the caller's path.
Finish(d, what) ==
    /\ Settle(d, what)
    /\ LET s == held[d]
           ss == [sess EXCEPT ![s].inUse = @ - 1, ![s].cleanup = d]
       IN IF ss[s].stale /\ ss[s].inUse = 0 THEN Retire(ss, s) ELSE sess' = ss /\ UNCHANGED files
    /\ held' = [held EXCEPT ![d] = Nobody]
    /\ cleanup' = [cleanup EXCEPT ![d] = [at |-> "disposing", of |-> held[d]]]
    /\ proc' = Killed({branch[d]})

----------------------------------------------------------------------------
(* decide(), up to its session                                              *)

\* Refused when closed; otherwise it asks for a slot.
Decide(d) ==
    /\ phase[d] = "idle"
    /\ IF closed
       THEN /\ phase' = [phase EXCEPT ![d] = "end"] /\ told' = [told EXCEPT ![d] = "unsent"]
            /\ UNCHANGED slots
       ELSE /\ Acquire(d)
            /\ phase' = [phase EXCEPT ![d] = "slot"] /\ told' = [told EXCEPT ![d] = "pending"]
    /\ UNCHANGED <<gone, held, branch, cleanup, keyed, outside, closing, fixed>>

\* The deadline passes, or the caller aborts.
GoesAway(d) ==
    /\ d \in Leavers \ gone /\ told[d] = "pending"
    /\ gone' = gone \cup {d}
    /\ UNCHANGED <<slots, phase, told, held, branch, cleanup, keyed, outside, closing, fixed>>

LeavesQueue(d) ==
    /\ phase[d] = "slot" /\ grant[d] = "waiting" /\ d \in gone
    /\ Leave(d)
    /\ phase' = [phase EXCEPT ![d] = "end"] /\ told' = [told EXCEPT ![d] = "unsent"]
    /\ UNCHANGED <<gone, held, branch, cleanup, keyed, outside, closing, fixed>>

\* _checkLimits: the account is blocked and no poll cleared it.
LimitRefuses(d) ==
    /\ phase[d] = "slot" /\ grant[d] = "held" /\ "limited" \in Faults
    /\ Settle(d, "unsent")
    /\ UNCHANGED <<gone, held, branch, cleanup, keyed, outside, closing, fixed>>

\* With the slot: refused, or queued under its key.
Queued(x) ==
    /\ task' = [task EXCEPT ![x] = "queued"]
    /\ queue' = [queue EXCEPT ![Key[x]] = Append(@, x)]
Proceeds(d) ==
    /\ phase[d] = "slot" /\ grant[d] = "held"
    /\ IF closed \/ d \in gone
       THEN Settle(d, "unsent") /\ UNCHANGED <<task, queue>>
       ELSE /\ Queued(d) /\ phase' = [phase EXCEPT ![d] = "lookup"]
            /\ UNCHANGED <<slots, told>>
    /\ UNCHANGED <<gone, held, branch, cleanup, sessions, sess, drop, outside, closing, fixed>>

\* The wait for the session ends first: a reference it was given is handed back.
GivesUp(d) ==
    /\ phase[d] = "lookup" /\ d \in gone
    /\ Settle(d, "unsent")
    /\ IF held[d] = Nobody THEN UNCHANGED <<held, sess, files>>
       ELSE held' = [held EXCEPT ![d] = Nobody] /\ ReleaseSession(held[d])
    /\ UNCHANGED <<gone, branch, cleanup, task, queue, sessions, drop, proc, turn, closing, fixed>>

----------------------------------------------------------------------------
(* The key's queue: _decide's lookup, evict() and _drop                     *)

Abandoned(d) == phase[d] # "lookup"
Runs(x) == queue[Key[x]] # <<>> /\ Head(queue[Key[x]]) = x
TaskEnds(x) ==
    /\ task' = [task EXCEPT ![x] = "end"]
    /\ queue' = [queue EXCEPT ![Key[x]] = Tail(@)]

\* _drop begins: out of the map, then the session's last cleanup is awaited.
OutOfMap(s) == sessions' = [sessions EXCEPT ![Key[s]] = IF @ = s THEN Nobody ELSE @]
BeginDrop(s, by) ==
    /\ OutOfMap(s)
    /\ drop' = [drop EXCEPT ![s] = [at |-> "cleanup", on |-> sess[s].cleanup, by |-> by]]

\* Without a session of its context in the map the lookup drops the one there,
\* then makes room.
InMap == {s \in Decisions : sessions[Key[s]] = s}
Take(d, s) ==
    /\ held' = [held EXCEPT ![d] = s]
    /\ sess' = [sess EXCEPT ![s].inUse = @ + 1]

LookupFails(d) ==
    /\ task[d] = "queued" /\ Runs(d) /\ (closed \/ Abandoned(d))
    /\ TaskEnds(d)
    /\ UNCHANGED <<slots, deciding, sessions, sess, drop, outside, closing, fixed>>

LookupFinds(d) ==
    /\ task[d] = "queued" /\ Runs(d) /\ ~closed /\ ~Abandoned(d)
    /\ LET s == sessions[Key[d]] IN s # Nobody /\ Hash[s] = Hash[d] /\ Take(d, s)
    /\ TaskEnds(d)
    /\ UNCHANGED <<slots, phase, told, gone, branch, cleanup, sessions, drop, outside, closing, fixed>>

LookupDrops(d) ==
    /\ task[d] = "queued" /\ Runs(d) /\ ~closed /\ ~Abandoned(d)
    /\ LET s == sessions[Key[d]]
       IN IF s = Nobody THEN task' = [task EXCEPT ![d] = "room"] /\ UNCHANGED <<sessions, drop>>
          ELSE /\ Hash[s] # Hash[d] /\ BeginDrop(s, d)
               /\ task' = [task EXCEPT ![d] = "dropping"]
    /\ UNCHANGED <<slots, deciding, queue, sess, outside, closing, fixed>>

\* Room is made by dropping an idle session, if there is one.
Idle == {s \in InMap : sess[s].inUse = 0}
MakesRoom(d) ==
    /\ task[d] = "room" /\ Cardinality(InMap) >= MaxSessions
    /\ \E s \in Idle : BeginDrop(s, d)
    /\ task' = [task EXCEPT ![d] = "dropping"]
    /\ UNCHANGED <<slots, deciding, queue, sess, outside, closing, fixed>>

\* _prime installs it: closed meanwhile, it is dropped at once.
InstallAnyway(d) ==
    /\ sessions' = [sessions EXCEPT ![Key[d]] = d]
    /\ TaskEnds(d) /\ UNCHANGED drop
    /\ sess' = [sess EXCEPT ![d].inUse = IF Abandoned(d) THEN 0 ELSE 1]
    /\ held' = IF Abandoned(d) THEN held ELSE [held EXCEPT ![d] = d]
Install(d) ==
    /\ sessions' = [sessions EXCEPT ![Key[d]] = IF closed THEN Nobody ELSE d]
    /\ IF closed
       THEN /\ drop' = [drop EXCEPT ![d] = [at |-> "cleanup", on |-> Nobody, by |-> "late"]]
            /\ task' = [task EXCEPT ![d] = "refusing"] /\ UNCHANGED <<queue, sess, held>>
       ELSE /\ TaskEnds(d) /\ UNCHANGED drop
            /\ sess' = [sess EXCEPT ![d].inUse = IF Abandoned(d) THEN 0 ELSE 1]
            /\ held' = IF Abandoned(d) THEN held ELSE [held EXCEPT ![d] = d]

\* Without a context there is nothing to prime: no process, no transcript.
Primes(d) ==
    /\ task[d] = "room" /\ (Cardinality(InMap) < MaxSessions \/ Idle = {})
    /\ IF closed \/ Abandoned(d)
       THEN TaskEnds(d) /\ UNCHANGED <<sessions, sess, drop, held, files, proc>>
       ELSE IF Bared(d) THEN Install(d) /\ UNCHANGED <<files, proc>>
       ELSE /\ task' = [task EXCEPT ![d] = "priming"]
            /\ proc' = Started(<<"base", d>>) /\ files' = files \cup {d}
            /\ UNCHANGED <<queue, sessions, sess, drop, held>>
    /\ UNCHANGED <<slots, phase, told, gone, branch, cleanup, turn, closing, fixed>>

\* The primer completed: its process is disposed of before the session is installed.
PrimerCompletes(d) ==
    /\ task[d] = "priming" /\ proc[<<"base", d>>] = "up"
    /\ task' = [task EXCEPT ![d] = "primed"] /\ proc' = Killed({<<"base", d>>})
    /\ UNCHANGED <<slots, deciding, queue, sessions, sess, drop, files, turn, closing, fixed>>

Primed(d) ==
    /\ task[d] = "primed" /\ Install(d)
    /\ UNCHANGED <<slots, phase, told, gone, branch, cleanup, outside, closing, fixed>>

\* It failed, timed out, was killed or used a tool: the transcript goes too.
PrimeFails(d) ==
    /\ task[d] \in {"priming", "primed"}
    /\ "prime" \in Faults \/ proc[<<"base", d>>] # "up"
    /\ task[d] = "primed" => "prime" \in Faults
    /\ TaskEnds(d) /\ proc' = Killed({<<"base", d>>}) /\ files' = files \ {d}
    /\ UNCHANGED <<slots, deciding, sessions, sess, drop, turn, closing, fixed>>

\* The lookup failed: the caller is told.
LookupFailed(d) ==
    /\ phase[d] = "lookup" /\ task[d] = "end" /\ held[d] = Nobody
    /\ Settle(d, "unsent")
    /\ UNCHANGED <<gone, held, branch, cleanup, keyed, outside, closing, fixed>>

\* Bound: not after close().
Evict(e) ==
    /\ task[e] = "none" /\ ~closed
    /\ Queued(e)
    /\ UNCHANGED <<slots, deciding, sessions, sess, drop, outside, closing, fixed>>

EvictRuns(e) ==
    /\ task[e] = "queued" /\ Runs(e)
    /\ LET s == sessions[Key[e]]
       IN IF s = Nobody THEN TaskEnds(e) /\ UNCHANGED <<sessions, drop>>
          ELSE BeginDrop(s, e) /\ task' = [task EXCEPT ![e] = "dropping"] /\ UNCHANGED queue
    /\ UNCHANGED <<slots, deciding, sess, outside, closing, fixed>>

\* _evictIdle, beside the queues.  Bound: not with an evict() in one behaviour.
EvictIdle(s) ==
    /\ "idle" \in Faults /\ s \in Idle /\ ~closed /\ \A e \in Evicts : task[e] = "none"
    /\ BeginDrop(s, "idle")
    /\ UNCHANGED <<slots, deciding, task, queue, sess, outside, closing, fixed>>

\* The cleanup is over: the spare is taken and disposed of.
DropTakesSpare(s) ==
    /\ drop[s].at = "cleanup" /\ (drop[s].on # Nobody => cleanup[drop[s].on].at = "end")
    /\ OutOfMap(s)
    /\ proc' = Killed({sess[s].spare})
    /\ sess' = [sess EXCEPT ![s].spare = Nobody]
    /\ drop' = [drop EXCEPT ![s].at = "spare"]
    /\ UNCHANGED <<slots, deciding, task, queue, files, turn, closing, fixed>>

\* Decisions that still fork from it keep the transcript, but on close.
KeepsTranscriptNever(s) == FALSE
KeepsTranscript(s) == sess[s].inUse > 0 /\ drop[s].by \notin {"close", "late"}
DropEnds(s) ==
    /\ drop[s].at = "spare"
    /\ IF KeepsTranscript(s)
       THEN sess' = [sess EXCEPT ![s].stale = TRUE] /\ UNCHANGED files
       ELSE Retire(sess, s)
    /\ drop' = [drop EXCEPT ![s] = [at |-> "end", on |-> Nobody, by |-> Nobody]]
    /\ LET x == drop[s].by
       IN IF x \in Evicts THEN TaskEnds(x)
          ELSE IF x \in Decisions THEN task' = [task EXCEPT ![x] = "room"] /\ UNCHANGED queue
          ELSE IF task[s] = "refusing" THEN TaskEnds(s)
          ELSE UNCHANGED <<task, queue>>
    /\ UNCHANGED <<slots, deciding, sessions, proc, turn, closing, fixed>>

----------------------------------------------------------------------------
(* decide(), with its session                                               *)

Receives(d) ==
    /\ phase[d] = "lookup" /\ held[d] # Nobody
    /\ phase' = [phase EXCEPT ![d] = "cleaning"]
    /\ UNCHANGED <<slots, told, gone, held, branch, cleanup, keyed, outside, closing, fixed>>

\* The session's cleanup is awaited, at most until the deadline; then its spare is
\* taken, and replaced by a fork if it is not alive.
Cleaned(d) ==
    LET c == sess[held[d]].cleanup IN c # Nobody => cleanup[c].at = "end"
TakesSpare(d) ==
    /\ phase[d] = "cleaning" /\ Cleaned(d) /\ ~closed /\ d \notin gone
    /\ LET p == sess[held[d]].spare
       IN /\ branch' = [branch EXCEPT ![d] = IF p # Nobody /\ proc[p] = "up" THEN p ELSE <<"branch", d>>]
          /\ phase' = [phase EXCEPT ![d] = IF p # Nobody /\ proc[p] = "up" THEN "admitting" ELSE "replacing"]
    /\ sess' = [sess EXCEPT ![held[d]].spare = Nobody]
    /\ UNCHANGED <<slots, told, gone, held, cleanup, task, queue, sessions, drop, outside, closing, fixed>>

CleaningFails(d) ==
    /\ phase[d] = "cleaning" /\ (d \in gone \/ (closed /\ Cleaned(d)))
    /\ Finish(d, "unsent")
    /\ UNCHANGED <<gone, branch, task, queue, sessions, drop, turn, closing, fixed>>

\* The dead spare is disposed of, and a fork of the base starts.
StartsBranch(d) ==
    /\ phase[d] = "replacing"
    /\ phase' = [phase EXCEPT ![d] = "branching"]
    /\ proc' = Started(<<"branch", d>>)
    /\ UNCHANGED <<slots, told, gone, held, branch, cleanup, keyed, files, turn, closing, fixed>>

BranchStarted(d) ==
    /\ phase[d] = "branching"
    /\ IF proc[branch[d]] = "up"
       THEN /\ phase' = [phase EXCEPT ![d] = "admitting"]
            /\ UNCHANGED <<slots, told, held, cleanup, sess, files, proc>>
       ELSE Finish(d, "unsent")
    /\ UNCHANGED <<gone, branch, task, queue, sessions, drop, turn, closing, fixed>>

\* The caller's onAdmission returned, with the deadline, the signal and close()
\* looked at again; or it threw, or the process is gone.
Writable(d) == ~closed /\ d \notin gone
Dispatches(d) ==
    /\ phase[d] = "admitting" /\ Writable(d) /\ proc[branch[d]] = "up"
    /\ phase' = [phase EXCEPT ![d] = "turn"] /\ turn' = [turn EXCEPT ![d] = "running"]
    /\ UNCHANGED <<slots, told, gone, held, branch, cleanup, keyed, files, proc, closing, fixed>>

AdmissionRefused(d) ==
    /\ phase[d] = "admitting"
    /\ "refuses" \in Faults \/ ~Writable(d) \/ proc[branch[d]] # "up"
    /\ Finish(d, "unsent")
    /\ UNCHANGED <<gone, branch, task, queue, sessions, drop, turn, closing, fixed>>

\* The result came: the caller is answered, or told that the turn failed.
ResultComes(d, what) ==
    /\ phase[d] = "turn" /\ turn[d] = "over" /\ proc[branch[d]] = "up"
    /\ Finish(d, what)
    /\ UNCHANGED <<gone, branch, task, queue, sessions, drop, turn, closing, fixed>>

\* It did not come in time, or the process is gone: interrupted, then disposed of.
SendFails(d) ==
    /\ phase[d] = "turn" /\ (d \in gone \/ proc[branch[d]] # "up")
    /\ phase' = [phase EXCEPT ![d] = "disposing"] /\ proc' = Killed({branch[d]})
    /\ UNCHANGED <<slots, told, gone, held, branch, cleanup, keyed, files, turn, closing, fixed>>

\* Settled when the turn's end or the process's exit was seen.
ReportsUnseen(d) ==
    /\ phase[d] = "disposing"
    /\ Finish(d, "settled")
    /\ UNCHANGED <<gone, branch, task, queue, sessions, drop, turn, closing, fixed>>
Reports(d) ==
    /\ phase[d] = "disposing"
    /\ \E what \in {"settled", "unsettled"} :
         /\ what = "settled" => turn[d] = "over" \/ proc[branch[d]] = "gone"
         /\ Finish(d, what)
    /\ UNCHANGED <<gone, branch, task, queue, sessions, drop, turn, closing, fixed>>

----------------------------------------------------------------------------
(* Cleanups, close() and the processes                                      *)

\* The decision's process is disposed of; one spare per key that is still served.
Refills(s) == Spared /\ ~closed /\ sess[s].spare = Nobody /\ sessions[Key[s]] = s
CleanupRefills(d) ==
    /\ cleanup[d].at = "disposing"
    /\ LET s == cleanup[d].of
       IN IF Refills(s)
          THEN /\ cleanup' = [cleanup EXCEPT ![d].at = "starting"]
               /\ sess' = [sess EXCEPT ![s].spare = <<"spare", d>>]
               /\ proc' = Started(<<"spare", d>>)
          ELSE cleanup' = [cleanup EXCEPT ![d] = [at |-> "end", of |-> Nobody]] /\ UNCHANGED <<sess, proc>>
    /\ UNCHANGED <<slots, phase, told, gone, held, branch, task, queue, sessions, drop, files, turn, closing, fixed>>

\* The spare started, or failed to and is forgotten.
CleanupEnds(d) ==
    /\ cleanup[d].at = "starting"
    /\ cleanup' = [cleanup EXCEPT ![d] = [at |-> "end", of |-> Nobody]]
    /\ LET s == cleanup[d].of
       IN sess' = IF proc[<<"spare", d>>] # "up" /\ sess[s].spare = <<"spare", d>>
                  THEN [sess EXCEPT ![s].spare = Nobody] ELSE sess
    /\ UNCHANGED <<slots, phase, told, gone, held, branch, task, queue, sessions, drop, outside, closing, fixed>>

\* close(): who waits for a slot is refused and every live process is killed; then
\* the sessions are dropped, and the stale ones retired.
Close ==
    /\ "close" \in Faults /\ ~closed
    /\ closing' = "disposing" /\ Drain
    /\ phase' = [d \in Decisions |-> IF grant[d] = "waiting" THEN "end" ELSE phase[d]]
    /\ told' = [d \in Decisions |-> IF grant[d] = "waiting" THEN "unsent" ELSE told[d]]
    /\ proc' = Killed(Procs)
    /\ UNCHANGED <<gone, held, branch, cleanup, keyed, files, turn, fixed>>

CloseDrops ==
    /\ closing = "disposing" /\ closing' = "dropping"
    /\ sessions' = [k \in Keys |-> Nobody]
    /\ drop' = [s \in Decisions |-> IF s \in InMap
                                    THEN [at |-> "cleanup", on |-> sess[s].cleanup, by |-> "close"] ELSE drop[s]]
    /\ UNCHANGED <<slots, deciding, task, queue, sess, outside, fixed>>

CloseEnds ==
    /\ closing = "dropping" /\ \A s \in Decisions : drop[s].by # "close"
    /\ closing' = "closed"
    /\ LET stale == {s \in Decisions : sess[s].stale}
       IN /\ sess' = [s \in Decisions |-> IF s \in stale
                                          THEN [sess[s] EXCEPT !.stale = FALSE] ELSE sess[s]]
          /\ files' = files \ stale
    /\ UNCHANGED <<slots, deciding, task, queue, sessions, drop, proc, turn, fixed>>

\* Bound: a killed process exits while a decision waits to see it; a process ends on
\* its own, one in a behaviour, while it is a spare or a decision's (a primer's end is
\* PrimeFails).
ProcExits(p) ==
    /\ \/ proc[p] = "killed" /\ \E d \in Decisions : phase[d] = "disposing" /\ branch[d] = p
       \/ /\ proc[p] = "up" /\ "exit" \in Faults /\ p[1] # "base"
          /\ \A q \in Procs : proc[q] # "gone"
    /\ proc' = [proc EXCEPT ![p] = "gone"]
    /\ UNCHANGED <<slots, deciding, keyed, files, turn, closing, fixed>>

TurnEnds(d) ==
    /\ turn[d] = "running" /\ phase[d] # "end" /\ proc[branch[d]] # "gone"
    /\ turn' = [turn EXCEPT ![d] = "over"]
    /\ UNCHANGED <<slots, deciding, keyed, files, proc, closing, fixed>>

----------------------------------------------------------------------------
Handlers(d) ==
    \/ LeavesQueue(d) \/ LimitRefuses(d) \/ Proceeds(d) \/ GivesUp(d) \/ LookupFailed(d) \/ Receives(d)
    \/ TakesSpare(d) \/ CleaningFails(d) \/ StartsBranch(d) \/ BranchStarted(d)
    \/ Dispatches(d) \/ SendFails(d) \/ Reports(d)
    \/ ResultComes(d, "answered") \/ ResultComes(d, "settled")
    \/ AdmissionRefused(d)
Lookup(d) ==
    \/ LookupFails(d) \/ LookupFinds(d) \/ LookupDrops(d) \/ MakesRoom(d) \/ Primes(d)
    \/ PrimerCompletes(d) \/ Primed(d) \/ PrimeFails(d)
Background ==
    \/ \E e \in Evicts : EvictRuns(e)
    \/ \E s \in Decisions : DropTakesSpare(s) \/ DropEnds(s)
    \/ \E d \in Decisions : CleanupRefills(d) \/ CleanupEnds(d)
    \/ CloseDrops \/ CloseEnds
Events ==
    \/ \E d \in Decisions : Decide(d) \/ GoesAway(d) \/ TurnEnds(d) \/ EvictIdle(d)
    \/ \E e \in Evicts : Evict(e)
    \/ \E p \in Procs : ProcExits(p)
    \/ Close

Next == (\E d \in Decisions : Handlers(d) \/ Lookup(d)) \/ Background \/ Events

Spec == Init /\ [][Next]_vars

----------------------------------------------------------------------------
(* Properties                                                               *)

Holding(s) == {d \in Decisions : held[d] = s}
Dropped(s) == drop[s].at \in {"cleanup", "spare"}

\* While the host is open, the session of a decision that has not sent yet keeps its
\* transcript (_drop, _retire, _release), whatever drops the session meanwhile: a new
\* context, eviction, idleness, the need of room; and a session lets go of its
\* transcript when it is out of the map and the last decision left it, in whichever
\* order these happen.
TranscriptsHeld ==
    /\ \A d \in Decisions : held[d] # Nobody /\ ~closed /\ ~Bared(held[d]) => held[d] \in files
    /\ \A s \in files : \/ s \in InMap \/ Dropped(s) \/ task[s] \in {"priming", "primed"}
                        \/ sess[s].stale /\ Holding(s) # {}
    /\ \A s \in Decisions : sess[s].inUse = Cardinality(Holding(s))

\* A caller is told once, that its turn is settled only if the turn or its process is
\* over, and that it was not dispatched only if it was not (_decide, DecisionError).
ToldTruly ==
    \A d \in Decisions :
        /\ told[d] \in {"answered", "settled"} => turn[d] = "over" \/ proc[branch[d]] = "gone"
        /\ told[d] = "unsent" => turn[d] = "none"

\* When close() returned and the decisions, lookups and cleanups that were under way
\* are over, nothing is left: no process is up, no transcript is on disk (close(), the
\* closed checks of the lookup and of the cleanup).
ClosedClean ==
    (/\ closing = "closed"
     /\ \A d \in Decisions : phase[d] \in {"idle", "end"} /\ cleanup[d].at \in {"none", "end"}
     /\ \A x \in Tasks : task[x] \in {"none", "end"}
     /\ \A s \in Decisions : ~Dropped(s))
    => files = {} /\ \A p \in Procs : proc[p] # "up"
=============================================================================
