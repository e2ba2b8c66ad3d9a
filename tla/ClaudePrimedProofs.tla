------------------------- MODULE ClaudePrimedProofs -------------------------
(***************************************************************************)
(* Proofs about ClaudePrimed, for any decisions, keys, contexts and faults. *)
(* The host is a Slots whatever runs beside its decisions.  Then, over an   *)
(* inductive invariant of where each decision is suspended, what each key's *)
(* queue runs, and whose session is in the map, being dropped, stale or     *)
(* referred to: transcripts are kept while they are forked from and let go  *)
(* of afterwards, callers are told what is true, and close() leaves nothing.*)
(*                                                                         *)
(* At the end is the proof about InstanceLimits.                           *)
(***************************************************************************)
EXTENDS ClaudePrimed, SlotsProofs, InstanceLimits

SlotsStep == SlotsNext \/ UNCHANGED <<limit, slots>>

\* The actions of a decision that take, pass on or leave a slot.
LEMMA DecisionSteps ==
    ASSUME NEW d \in Decisions, UNCHANGED limit,
           \/ Acquire(d) \/ Leave(d) \/ Release(d) \/ UNCHANGED slots
    PROVE  SlotsStep
  BY DEF SlotsStep, SlotsNext, Decisions, slots

LEMMA HandlersStep == ASSUME NEW d \in Decisions, Handlers(d) PROVE SlotsStep
<1>1. CASE LeavesQueue(d)
  BY <1>1, DecisionSteps DEF LeavesQueue, fixed
<1>2. CASE LimitRefuses(d) \/ LookupFailed(d) \/ GivesUp(d)
  BY <1>2, DecisionSteps DEF LimitRefuses, LookupFailed, GivesUp, Settle, fixed
<1>3. CASE Proceeds(d)
  BY <1>3, DecisionSteps DEF Proceeds, Settle, fixed
<1>4. CASE Receives(d) \/ TakesSpare(d) \/ StartsBranch(d) \/ Dispatches(d) \/ SendFails(d)
  BY <1>4, DecisionSteps DEF Receives, TakesSpare, StartsBranch, Dispatches, SendFails, fixed
<1>5. CASE CleaningFails(d) \/ AdmissionRefused(d) \/ Reports(d)
           \/ ResultComes(d, "answered") \/ ResultComes(d, "settled")
  BY <1>5, DecisionSteps DEF CleaningFails, AdmissionRefused, Reports, ResultComes, Finish, Settle, fixed
<1>6. CASE BranchStarted(d)
  BY <1>6, DecisionSteps DEF BranchStarted, Finish, Settle, fixed
<1> QED
  BY <1>1, <1>2, <1>3, <1>4, <1>5, <1>6 DEF Handlers

\* Lookups, primers, drops and cleanups run beside the decisions and have no slot.
LEMMA LookupStep == ASSUME NEW d \in Decisions, Lookup(d) PROVE SlotsStep
<1>1. CASE LookupFails(d) \/ LookupFinds(d) \/ LookupDrops(d) \/ MakesRoom(d)
  BY <1>1 DEF SlotsStep, LookupFails, LookupFinds, LookupDrops, MakesRoom, fixed
<1>2. CASE Primes(d) \/ PrimerCompletes(d) \/ Primed(d) \/ PrimeFails(d)
  BY <1>2 DEF SlotsStep, Primes, PrimerCompletes, Primed, PrimeFails, fixed
<1> QED
  BY <1>1, <1>2 DEF Lookup

LEMMA BackgroundStep == Background => SlotsStep
  BY DEF Background, SlotsStep, EvictRuns, DropTakesSpare, DropEnds, CleanupRefills, CleanupEnds,
         CloseDrops, CloseEnds, fixed

LEMMA EventsStep == Events => SlotsStep
<1> SUFFICES ASSUME Events PROVE SlotsStep
  OBVIOUS
<1>1. ASSUME NEW d \in Decisions, Decide(d) PROVE SlotsStep
  BY <1>1, DecisionSteps DEF Decide, fixed
<1>2. ASSUME NEW d \in Decisions, GoesAway(d) \/ TurnEnds(d) \/ EvictIdle(d) PROVE SlotsStep
  BY <1>2 DEF SlotsStep, GoesAway, TurnEnds, EvictIdle, fixed
<1>3. ASSUME NEW e \in Evicts, Evict(e) PROVE SlotsStep
  BY <1>3 DEF SlotsStep, Evict, fixed
<1>4. ASSUME NEW p \in Procs, ProcExits(p) PROVE SlotsStep
  BY <1>4 DEF SlotsStep, ProcExits, fixed
<1>5. CASE Close
  BY <1>5 DEF SlotsStep, SlotsNext, Close, fixed
<1> QED
  BY <1>1, <1>2, <1>3, <1>4, <1>5 DEF Events

LEMMA HostSteps == ASSUME [Next]_vars PROVE [SlotsNext]_<<limit, slots>>
<1>1. CASE UNCHANGED vars
  BY <1>1 DEF vars, fixed
<1>2. CASE Next
  BY <1>2, HandlersStep, LookupStep, BackgroundStep, EventsStep DEF Next, SlotsStep
<1> QED
  BY <1>1, <1>2

\* The host with all that runs beside its decisions implements the semaphore of primed.ts.
THEOREM ImplementsSlots == Spec => SlotsSpec
<1>1. Init => SlotsInit
  BY DEF Init
<1>2. [Next]_vars => [SlotsNext]_<<limit, slots>>
  BY HostSteps
<1> QED
  BY <1>1, <1>2, PTL DEF Spec, SlotsSpec

\* Whatever ends a decision (its answer, its deadline, its process, a failed primer,
\* close()), the slots of the host are conserved: release, leave and drain, in _decide's
\* finally and in close(), for any number of decisions.
THEOREM HostSlotsHeld == Spec => []SlotsConserved
  BY ImplementsSlots, SlotsHeld, PTL
----------------------------------------------------------------------------
(* The inductive invariant                                                  *)

Forking == {"cleaning", "replacing", "branching", "admitting", "turn", "disposing"}
Active  == {"dropping", "room", "priming", "primed", "refusing"}

\* What the place where a decision is suspended says of it.
Knows(d) ==
    /\ grant[d] = "waiting" => phase[d] = "slot"
    /\ phase[d] = "idle" => told[d] = "none"
    /\ phase[d] \in {"slot", "lookup"} \cup Forking => told[d] = "pending"
    /\ phase[d] \in {"idle", "slot"} => task[d] = "none"
    /\ phase[d] \in Forking => held[d] # Nobody
    /\ held[d] # Nobody => phase[d] \in {"lookup"} \cup Forking
    /\ phase[d] # "end" => cleanup[d].at = "none"
    /\ phase[d] \in {"replacing", "branching"} => branch[d] = <<"branch", d>>
    /\ phase[d] \in {"admitting", "turn", "disposing"} => branch[d] # Nobody
    /\ phase[d] \notin {"turn", "disposing", "end"} => turn[d] = "none"
    /\ told[d] \in {"answered", "settled", "unsettled"} => branch[d] # Nobody
PhaseKnows == \A d \in Decisions : Knows(d)

\* Processes are started once.
Starts(d) ==
    /\ phase[d] \in {"idle", "slot", "lookup", "cleaning", "replacing"} => proc[<<"branch", d>>] = "none"
    /\ proc[<<"branch", d>>] = "up" => phase[d] \in {"branching", "admitting", "turn"} /\ branch[d] = <<"branch", d>>
    /\ cleanup[d].at \in {"none", "disposing"} => proc[<<"spare", d>>] = "none"
    /\ cleanup[d].at \in {"disposing", "starting"} => cleanup[d].of # Nobody
    /\ task[d] \in {"none", "queued", "dropping", "room"} => proc[<<"base", d>>] = "none"
    /\ closed => proc[<<"base", d>>] # "up" /\ proc[<<"spare", d>>] # "up"
StartedOnce == \A d \in Decisions : Starts(d)

\* A key's queue has what waits or runs there, each once.
QueueRight ==
    /\ \A k \in Keys : \A i \in 1..Len(queue[k]) :
          Key[queue[k][i]] = k /\ task[queue[k][i]] \notin {"none", "end"}
    /\ \A k \in Keys : \A i, j \in 1..Len(queue[k]) : queue[k][i] = queue[k][j] => i = j
ActiveRuns == \A x \in Tasks : task[x] \in Active => Runs(x)

\* While a task drops, makes room or primes, its key has no session.
RoomEmpty == \A x \in Tasks : task[x] \in Active \ {"refusing"} => sessions[Key[x]] = Nobody

MapRight ==
    \A k \in Keys : sessions[k] # Nobody =>
        /\ Key[sessions[k]] = k /\ task[sessions[k]] = "end"
        /\ drop[sessions[k]].at = "none" /\ ~sess[sessions[k]].stale
        /\ Bared(sessions[k]) \/ sessions[k] \in files

Drops(s) ==
    /\ task[s] \notin {"refusing", "end"} => drop[s].at = "none" /\ ~sess[s].stale
    /\ task[s] \in {"priming", "primed"} => s \in files
    /\ drop[s].by \in Tasks => task[drop[s].by] = "dropping"
    /\ drop[s].by \in {"close", "late"} => closed
    /\ \A r \in Decisions : drop[s].by \in Tasks /\ drop[r].by = drop[s].by => r = s
DropsRight == \A s \in Decisions : Drops(s)

\* The references of decisions are counted; their sessions keep their transcripts.
HeldRight ==
    \A d \in Decisions : held[d] # Nobody =>
        /\ task[d] = "end" /\ task[held[d]] = "end"
        /\ closed \/ Bared(held[d]) \/ held[d] \in files
Counted == \A s \in Decisions : sess[s].inUse = Cardinality(Holding(s))
FilesUsed ==
    \A s \in files : \/ s \in InMap \/ Dropped(s) \/ task[s] \in {"priming", "primed"}
                     \/ sess[s].stale /\ Holding(s) # {}
EmptyClosed == closing \in {"dropping", "closed"} => \A k \in Keys : sessions[k] = Nobody

SessionsRight == RoomEmpty /\ MapRight /\ DropsRight /\ HeldRight /\ Counted /\ FilesUsed /\ EmptyClosed

Inductive ==
    /\ TypeOK /\ SlotsConserved /\ PhaseKnows /\ StartedOnce /\ QueueRight /\ ActiveRuns
    /\ SessionsRight /\ ToldTruly

----------------------------------------------------------------------------
(* What holds of the constants, and of the operators of the model           *)

LEMMA KeyTyped == ASSUME spec \in Specs, NEW x \in Tasks PROVE Key[x] \in Keys
  BY DEF Key, Keys

LEMMA NobodyElse ==
    /\ Nobody \notin Decisions /\ Nobody \notin Tasks /\ Nobody \notin Procs
    /\ Nobody \notin Droppers
    /\ Decisions \subseteq Tasks /\ Evicts \subseteq Tasks
    /\ Evicts \cap Decisions = {} /\ Droppers \cap Tasks = {}
  BY ClaudePrimedAssumption DEF Tasks

LEMMA EmptySeq == ASSUME NEW S PROVE <<>> \in Seq(S)
  OBVIOUS

\* The decisions that have a reference to a session, when one joins them or leaves.
LEMMA HoldingFinite == ASSUME NEW s PROVE IsFiniteSet(Holding(s)) /\ Cardinality(Holding(s)) \in Nat
<1>1. Holding(s) \subseteq Decisions /\ IsFiniteSet(Decisions)
  BY SlotsAssumption DEF Holding, Decisions
<1>2. IsFiniteSet(Holding(s))
  BY <1>1, FS_Subset
<1> QED
  BY <1>2, FS_CardinalityType

LEMMA HeldCount ==
    ASSUME Counted, NEW d \in Decisions, held[d] \in Decisions
    PROVE  sess[held[d]].inUse \in Nat \ {0}
<1>1. d \in Holding(held[d])
  BY DEF Holding
<1>2. Cardinality(Holding(held[d])) # 0
  BY <1>1, HoldingFinite, FS_EmptySet
<1> QED
  BY <1>2, HoldingFinite DEF Counted

LEMMA HoldingNone ==
    ASSUME Counted, NEW s \in Decisions
    PROVE  sess[s].inUse = 0 <=> Holding(s) = {}
  BY HoldingFinite, FS_EmptySet DEF Counted

----------------------------------------------------------------------------
(* What a step does to a key's queue and its tasks                          *)

TaskMoves ==
    \/ UNCHANGED <<task, queue>>
    \/ \E x \in Tasks : task[x] = "none" /\ Queued(x)
    \/ \E x \in Tasks : task[x] \notin {"none", "end"} /\ Runs(x) /\ TaskEnds(x)
    \/ \E x \in Tasks : /\ task[x] \notin {"none", "end"} /\ Runs(x) /\ UNCHANGED queue
                        /\ \E to \in Active : task' = [task EXCEPT ![x] = to]

LEMMA LookupMoves ==
    ASSUME TypeOK, ActiveRuns, NEW d \in Decisions, Lookup(d)
    PROVE  TaskMoves
<1>. task[d] \in Active => Runs(d)
  BY NobodyElse DEF ActiveRuns
<1>1. CASE LookupFails(d) \/ LookupFinds(d)
  BY <1>1, NobodyElse DEF LookupFails, LookupFinds, TaskMoves
<1>2. CASE LookupDrops(d) \/ MakesRoom(d)
  BY <1>2, NobodyElse DEF LookupDrops, MakesRoom, TaskMoves, Active
<1>3. CASE Primes(d)
  BY <1>3, NobodyElse DEF Primes, Install, TaskMoves, Active
<1>4. CASE PrimerCompletes(d) \/ Primed(d) \/ PrimeFails(d)
  BY <1>4, NobodyElse DEF PrimerCompletes, Primed, PrimeFails, Install, TaskMoves, Active
<1> QED
  BY <1>1, <1>2, <1>3, <1>4 DEF Lookup

LEMMA DropEndsMoves ==
    ASSUME TypeOK, ActiveRuns, DropsRight, NEW s \in Decisions, DropEnds(s)
    PROVE  TaskMoves
<1>. DEFINE x == drop[s].by
<1>1. /\ x \in Tasks => task[x] = "dropping" /\ Runs(x)
      /\ task[s] = "refusing" => Runs(s)
  BY NobodyElse DEF DropsRight, Drops, ActiveRuns, Active
<1>2. CASE x \in Evicts
  BY <1>1, <1>2, NobodyElse DEF DropEnds, TaskMoves
<1>3. CASE x \notin Evicts /\ x \in Decisions
  BY <1>1, <1>3, NobodyElse DEF DropEnds, TaskMoves, Active
<1>4. CASE x \notin Evicts /\ x \notin Decisions
  BY <1>1, <1>4, NobodyElse DEF DropEnds, TaskMoves
<1> QED
  BY <1>2, <1>3, <1>4

LEMMA TasksMove ==
    ASSUME TypeOK, ActiveRuns, DropsRight, PhaseKnows, [Next]_vars
    PROVE  TaskMoves
<1>1. CASE UNCHANGED vars
  BY <1>1 DEF vars, keyed, TaskMoves
<1>2. ASSUME NEW d \in Decisions, Handlers(d) PROVE TaskMoves
  <2>1. CASE Proceeds(d)
    BY <2>1, NobodyElse DEF Proceeds, TaskMoves, PhaseKnows, Knows
  <2>2. CASE ~Proceeds(d)
    BY <1>2, <2>2 DEF Handlers, LeavesQueue, LimitRefuses, GivesUp, LookupFailed, Receives, TakesSpare,
      CleaningFails, StartsBranch, BranchStarted, Dispatches, SendFails, Reports, ResultComes,
      AdmissionRefused, keyed, TaskMoves
  <2> QED
    BY <2>1, <2>2
<1>3. CASE Background
  <2>1. ASSUME NEW e \in Evicts, EvictRuns(e) PROVE TaskMoves
    BY <2>1, NobodyElse DEF EvictRuns, TaskMoves, Active
  <2>2. ASSUME NEW s \in Decisions, DropTakesSpare(s) \/ CleanupRefills(s) \/ CleanupEnds(s)
        PROVE  TaskMoves
    BY <2>2 DEF DropTakesSpare, CleanupRefills, CleanupEnds, TaskMoves
  <2>3. CASE CloseDrops \/ CloseEnds
    BY <2>3 DEF CloseDrops, CloseEnds, TaskMoves
  <2> QED
    BY <1>3, <2>1, <2>2, <2>3, DropEndsMoves DEF Background
<1>4. CASE Events
  <2>1. ASSUME NEW e \in Evicts, Evict(e) PROVE TaskMoves
    BY <2>1, NobodyElse DEF Evict, TaskMoves
  <2> QED
    BY <1>4, <2>1 DEF Events, Decide, GoesAway, TurnEnds, EvictIdle, ProcExits, Close, keyed, TaskMoves
<1> QED
  BY <1>1, <1>2, <1>3, <1>4, LookupMoves DEF Next

LEMMA QueuesTyped ==
    ASSUME TypeOK, TaskMoves, UNCHANGED fixed
    PROVE  /\ task' \in [Tasks -> {"none", "queued", "dropping", "room", "priming", "primed", "refusing", "end"}]
           /\ queue' \in [Keys -> Seq(Tasks)]
<1>. KeyedTyped /\ \A x \in Tasks : Key[x] \in Keys
  BY KeyTyped DEF TypeOK
<1>1. CASE UNCHANGED <<task, queue>>
  BY <1>1 DEF KeyedTyped
<1>2. ASSUME NEW x \in Tasks, Queued(x)
      PROVE  /\ task' \in [Tasks -> {"none", "queued", "dropping", "room", "priming", "primed", "refusing", "end"}]
             /\ queue' \in [Keys -> Seq(Tasks)]
  BY <1>2 DEF Queued, KeyedTyped
<1>3. ASSUME NEW x \in Tasks, Runs(x), TaskEnds(x)
      PROVE  /\ task' \in [Tasks -> {"none", "queued", "dropping", "room", "priming", "primed", "refusing", "end"}]
             /\ queue' \in [Keys -> Seq(Tasks)]
  <2>1. queue[Key[x]] \in Seq(Tasks) /\ queue[Key[x]] # <<>>
    BY <1>3 DEF Runs, KeyedTyped
  <2>2. Tail(queue[Key[x]]) \in Seq(Tasks)
    BY <2>1
  <2> QED
    BY <1>3, <2>2 DEF TaskEnds, KeyedTyped
<1>4. ASSUME NEW x \in Tasks, NEW to \in Active, task' = [task EXCEPT ![x] = to], UNCHANGED queue
      PROVE  /\ task' \in [Tasks -> {"none", "queued", "dropping", "room", "priming", "primed", "refusing", "end"}]
             /\ queue' \in [Keys -> Seq(Tasks)]
  BY <1>4 DEF KeyedTyped, Active
<1> QED
  BY <1>1, <1>2, <1>3, <1>4 DEF TaskMoves

----------------------------------------------------------------------------
(* The queues of the keys                                                   *)

\* Where the elements of a queue are after its head left, or one more joined it.
LEMMA TailElements ==
    ASSUME NEW S, NEW q \in Seq(S), q # <<>>
    PROVE  /\ Len(Tail(q)) = Len(q) - 1
           /\ \A i \in 1..Len(Tail(q)) : Tail(q)[i] = q[i + 1] /\ i + 1 \in 1..Len(q)
           /\ Head(q) = q[1] /\ 1 \in 1..Len(q)
  OBVIOUS

LEMMA AppendElements ==
    ASSUME NEW S, NEW q \in Seq(S), NEW x \in S
    PROVE  /\ Len(Append(q, x)) = Len(q) + 1
           /\ \A i \in 1..Len(q) : Append(q, x)[i] = q[i]
           /\ Append(q, x)[Len(q) + 1] = x
           /\ q # <<>> => Append(q, x) # <<>> /\ Head(Append(q, x)) = Head(q)
<1>1. /\ Len(Append(q, x)) = Len(q) + 1 /\ Append(q, x)[Len(q) + 1] = x
      /\ \A i \in 1..Len(q) : Append(q, x)[i] = q[i]
  OBVIOUS
<1>2. ASSUME q # <<>> PROVE Append(q, x) # <<>> /\ Head(Append(q, x)) = Head(q)
  <2>1. Len(q) # 0 /\ Len(q) \in Nat
    BY <1>2
  <2>2. 1 \in 1..Len(q) /\ Append(q, x) \in Seq(S) /\ Append(q, x) # <<>>
    BY <1>1, <2>1
  <2>3. Head(q) = q[1] /\ Head(Append(q, x)) = Append(q, x)[1]
    BY <1>2, <2>2
  <2> QED
    BY <1>1, <2>2, <2>3
<1> QED
  BY <1>1, <1>2

LEMMA QueueStep ==
    ASSUME TypeOK, QueueRight, ActiveRuns, TaskMoves, UNCHANGED fixed
    PROVE  QueueRight' /\ ActiveRuns'
<1>. DEFINE In(k) == 1..Len(queue[k])
<1>0. /\ task \in [Tasks -> {"none", "queued", "dropping", "room", "priming", "primed", "refusing", "end"}]
      /\ queue \in [Keys -> Seq(Tasks)] /\ \A x \in Tasks : Key[x] \in Keys /\ Key'[x] = Key[x]
  BY KeyTyped DEF TypeOK, KeyedTyped, fixed, Key
<1>. \A k \in Keys : queue[k] \in Seq(Tasks)
  BY <1>0
<1>1. CASE UNCHANGED <<task, queue>>
  BY <1>0, <1>1 DEF QueueRight, ActiveRuns, Runs, fixed, Key
<1>2. ASSUME NEW x \in Tasks, task[x] = "none", Queued(x)
      PROVE  QueueRight' /\ ActiveRuns'
  <2>1. /\ \A k \in Keys : queue'[k] = IF k = Key[x] THEN Append(queue[k], x) ELSE queue[k]
        /\ \A y \in Tasks : task'[y] = IF y = x THEN "queued" ELSE task[y]
    BY <1>0, <1>2 DEF Queued
  <2>2. ASSUME NEW k \in Keys, NEW i \in In(k)
        PROVE  queue[k][i] \in Tasks /\ queue[k][i] # x /\ Key[queue[k][i]] = k
               /\ task[queue[k][i]] \notin {"none", "end"}
    BY <1>2 DEF QueueRight
  <2>3. QueueRight'
    <3>1. ASSUME NEW k \in Keys, k # Key[x]
          PROVE  /\ \A i \in 1..Len(queue'[k]) : Key'[queue'[k][i]] = k /\ task'[queue'[k][i]] \notin {"none", "end"}
                 /\ \A i, j \in 1..Len(queue'[k]) : queue'[k][i] = queue'[k][j] => i = j
      <4>1. queue'[k] = queue[k]
        BY <2>1, <3>1
      <4>2. \A i \in In(k) : Key'[queue[k][i]] = k /\ task'[queue[k][i]] \notin {"none", "end"}
        BY <1>0, <2>1, <2>2
      <4> QED
        BY <4>1, <4>2 DEF QueueRight
    <3>2. LET k == Key[x]
          IN  /\ \A i \in 1..Len(queue'[k]) : Key'[queue'[k][i]] = k /\ task'[queue'[k][i]] \notin {"none", "end"}
              /\ \A i, j \in 1..Len(queue'[k]) : queue'[k][i] = queue'[k][j] => i = j
      <4>. DEFINE k == Key[x]
                  q == queue[k]
      <4>0. k \in Keys /\ q \in Seq(Tasks) /\ queue'[k] = Append(q, x)
        BY <1>0, <2>1
      <4>1. k \in Keys /\ q \in Seq(Tasks) /\ queue'[k] = Append(q, x) /\ Len(q) \in Nat
        BY <4>0
      <4>2. \A i \in 1..Len(q) : q[i] \in Tasks /\ q[i] # x /\ Key[q[i]] = k /\ task[q[i]] \notin {"none", "end"}
        BY <2>2, <4>1
      <4>3. \A i, j \in 1..Len(q) : q[i] = q[j] => i = j
        BY <4>1 DEF QueueRight
      <4>4. /\ Len(Append(q, x)) = Len(q) + 1 /\ Append(q, x)[Len(q) + 1] = x
            /\ \A i \in 1..Len(q) : Append(q, x)[i] = q[i]
        BY <4>1, AppendElements
      <4>5. \A i \in 1..(Len(q) + 1) : i \in 1..Len(q) \/ i = Len(q) + 1
        BY <4>1
      <4>. HIDE DEF k, q
      <4>6. ASSUME NEW i \in 1..(Len(q) + 1)
            PROVE  Key'[queue'[k][i]] = k /\ task'[queue'[k][i]] \notin {"none", "end"}
        <5>1. CASE i \in 1..Len(q)
          BY <1>0, <2>1, <4>1, <4>2, <4>4, <5>1
        <5>2. CASE i = Len(q) + 1
          BY <1>0, <2>1, <4>1, <4>4, <5>2 DEF k
        <5> QED
          BY <4>5, <5>1, <5>2
      <4>7. \A i, j \in 1..(Len(q) + 1) : queue'[k][i] = queue'[k][j] => i = j
        BY <4>1, <4>2, <4>3, <4>4, <4>5
      <4> QED
        BY <4>1, <4>4, <4>6, <4>7 DEF k
    <3> QED
      BY <3>1, <3>2 DEF QueueRight
  <2>4. ActiveRuns'
    <3> SUFFICES ASSUME NEW y \in Tasks, task'[y] \in Active PROVE Runs(y)'
      BY DEF ActiveRuns
    <3>1. y # x /\ Runs(y) /\ Key[y] \in Keys
      BY <1>0, <2>1 DEF Active, ActiveRuns
    <3>2. queue[Key[y]] # <<>> /\ queue[Key[y]] \in Seq(Tasks) /\ Head(queue[Key[y]]) = y
      BY <1>0, <3>1 DEF Runs
    <3>3. /\ Append(queue[Key[y]], x) # <<>>
          /\ Head(Append(queue[Key[y]], x)) = Head(queue[Key[y]])
      BY <3>2, AppendElements
    <3>4. queue'[Key[y]] # <<>> /\ Head(queue'[Key[y]]) = y
      BY <2>1, <3>1, <3>2, <3>3
    <3> QED
      BY <1>0, <3>4 DEF Runs, fixed, Key
  <2> QED
    BY <2>3, <2>4
<1>3. ASSUME NEW x \in Tasks, Runs(x), TaskEnds(x)
      PROVE  QueueRight' /\ ActiveRuns'
  <2>1. /\ \A k \in Keys : queue'[k] = IF k = Key[x] THEN Tail(queue[k]) ELSE queue[k]
        /\ \A y \in Tasks : task'[y] = IF y = x THEN "end" ELSE task[y]
    BY <1>0, <1>3 DEF TaskEnds
  <2>2. ASSUME NEW k \in Keys, k # Key[x], NEW i \in In(k) PROVE queue[k][i] # x /\ queue[k][i] \in Tasks
    BY <2>2 DEF QueueRight
  <2>3. QueueRight'
    <3>1. ASSUME NEW k \in Keys, k # Key[x]
          PROVE  /\ \A i \in 1..Len(queue'[k]) : Key'[queue'[k][i]] = k /\ task'[queue'[k][i]] \notin {"none", "end"}
                 /\ \A i, j \in 1..Len(queue'[k]) : queue'[k][i] = queue'[k][j] => i = j
      BY <1>0, <2>1, <2>2, <3>1 DEF QueueRight
    <3>2. LET k == Key[x]
          IN  /\ \A i \in 1..Len(queue'[k]) : Key'[queue'[k][i]] = k /\ task'[queue'[k][i]] \notin {"none", "end"}
              /\ \A i, j \in 1..Len(queue'[k]) : queue'[k][i] = queue'[k][j] => i = j
      <4>. DEFINE k == Key[x]
                  q == queue[k]
      <4>1. k \in Keys /\ q \in Seq(Tasks) /\ queue'[k] = Tail(q) /\ q # <<>> /\ Head(q) = x
        BY <1>0, <1>3, <2>1 DEF Runs
      <4>2. \A i \in 1..Len(q) : q[i] \in Tasks /\ Key[q[i]] = k /\ task[q[i]] \notin {"none", "end"}
        BY <4>1 DEF QueueRight
      <4>3. \A i, j \in 1..Len(q) : q[i] = q[j] => i = j
        BY <4>1 DEF QueueRight
      <4>4. /\ Len(Tail(q)) = Len(q) - 1 /\ Head(q) = q[1] /\ 1 \in 1..Len(q)
            /\ \A i \in 1..Len(Tail(q)) : Tail(q)[i] = q[i + 1] /\ i + 1 \in 1..Len(q)
        BY <4>1, TailElements
      <4>. HIDE DEF k, q
      <4>5. ASSUME NEW i \in 1..Len(Tail(q))
            PROVE  Key'[queue'[k][i]] = k /\ task'[queue'[k][i]] \notin {"none", "end"}
        <5>1. i + 1 # 1 /\ q[i + 1] # x
          BY <4>1, <4>3, <4>4
        <5> QED
          BY <1>0, <2>1, <4>1, <4>2, <4>4, <5>1
      <4>6. \A i, j \in 1..Len(Tail(q)) : Tail(q)[i] = Tail(q)[j] => i = j
        BY <4>3, <4>4
      <4> QED
        BY <4>1, <4>5, <4>6 DEF k
    <3> QED
      BY <3>1, <3>2 DEF QueueRight
  <2>4. ActiveRuns'
    <3> SUFFICES ASSUME NEW y \in Tasks, task'[y] \in Active PROVE Runs(y)'
      BY DEF ActiveRuns
    <3>1. y # x /\ Runs(y)
      BY <1>0, <2>1 DEF Active, ActiveRuns
    <3>2. Key[y] # Key[x]
      BY <1>3, <3>1 DEF Runs
    <3> QED
      BY <1>0, <2>1, <3>1, <3>2 DEF Runs, fixed, Key
  <2> QED
    BY <2>3, <2>4
<1>4. ASSUME NEW x \in Tasks, task[x] \notin {"none", "end"}, Runs(x), UNCHANGED queue,
             NEW to \in Active, task' = [task EXCEPT ![x] = to]
      PROVE  QueueRight' /\ ActiveRuns'
  <2>1. \A y \in Tasks : task'[y] = IF y = x THEN to ELSE task[y]
    BY <1>0, <1>4
  <2>2. \A k \in Keys : \A i \in In(k) : queue[k][i] \in Tasks
    OBVIOUS
  <2>3. QueueRight'
    BY <1>0, <1>4, <2>1, <2>2 DEF QueueRight, Active
  <2>4. ActiveRuns'
    BY <1>0, <1>4, <2>1 DEF ActiveRuns, Runs, fixed, Key
  <2> QED
    BY <2>3, <2>4
<1> QED
  BY <1>1, <1>2, <1>3, <1>4 DEF TaskMoves

\* Of the tasks of a key at most one is past its wait in the queue.
LEMMA OneRuns ==
    ASSUME ActiveRuns, NEW x \in Tasks, NEW y \in Tasks,
           task[x] \in Active, Runs(y), Key[x] = Key[y]
    PROVE  x = y
  BY DEF ActiveRuns, Runs

----------------------------------------------------------------------------
(* The references of decisions to sessions                                  *)

SessTyped(ss) ==
    ss \in [Decisions -> [inUse : Nat, stale : BOOLEAN, spare : Procs \cup {Nobody},
                          cleanup : Decisions \cup {Nobody}]]

\* No reference moves, one joins a session, or one leaves it.
RefsSame == UNCHANGED held /\ \A r \in Decisions : sess'[r].inUse = sess[r].inUse
Joins(d, s) ==
    /\ held[d] = Nobody /\ held' = [held EXCEPT ![d] = s]
    /\ \A r \in Decisions : sess'[r].inUse = IF r = s THEN sess[r].inUse + 1 ELSE sess[r].inUse
Leaves(d) ==
    /\ held[d] # Nobody /\ held' = [held EXCEPT ![d] = Nobody]
    /\ \A r \in Decisions : sess'[r].inUse = IF r = held[d] THEN sess[r].inUse - 1 ELSE sess[r].inUse

\* The last to leave a stale session retires it.
StaleSame == \A r \in Decisions : sess'[r].stale = sess[r].stale
Retires(s) ==
    /\ files' = files \ {s} /\ ~sess'[s].stale
    /\ \A r \in Decisions \ {s} : sess'[r].stale = sess[r].stale
LeavesBehind(s) ==
    IF sess[s].stale /\ sess'[s].inUse = 0 THEN Retires(s) ELSE StaleSame /\ UNCHANGED files

\* The references, one less and with the cleanup that replaces it.
Returned(s, c) == [sess EXCEPT ![s].inUse = @ - 1, ![s].cleanup = c]
Dereferenced(s) == [sess EXCEPT ![s].inUse = @ - 1]

LEMMA ReturnedTyped ==
    ASSUME SessTyped(sess), NEW s \in Decisions, sess[s].inUse \in Nat \ {0},
           NEW c \in Decisions \cup {Nobody}
    PROVE  /\ SessTyped(Returned(s, c)) /\ SessTyped(Dereferenced(s))
           /\ \A r \in Decisions :
                /\ Returned(s, c)[r].inUse = IF r = s THEN sess[r].inUse - 1 ELSE sess[r].inUse
                /\ Dereferenced(s)[r].inUse = IF r = s THEN sess[r].inUse - 1 ELSE sess[r].inUse
                /\ Returned(s, c)[r].stale = sess[r].stale
                /\ Dereferenced(s)[r].stale = sess[r].stale
<1>1. /\ sess[s].inUse - 1 \in Nat /\ sess[s].stale \in BOOLEAN /\ sess[s].spare \in Procs \cup {Nobody}
      /\ sess[s].cleanup \in Decisions \cup {Nobody}
  BY DEF SessTyped
<1>2. /\ SessTyped(Dereferenced(s))
      /\ \A r \in Decisions : /\ Dereferenced(s)[r].inUse = IF r = s THEN sess[r].inUse - 1 ELSE sess[r].inUse
                             /\ Dereferenced(s)[r].stale = sess[r].stale
  BY <1>1 DEF SessTyped, Dereferenced
<1>3. /\ SessTyped(Returned(s, c))
      /\ \A r \in Decisions : /\ Returned(s, c)[r].inUse = IF r = s THEN sess[r].inUse - 1 ELSE sess[r].inUse
                             /\ Returned(s, c)[r].stale = sess[r].stale
  BY <1>1 DEF SessTyped, Returned
<1> QED
  BY <1>2, <1>3

LEMMA RetiredTyped ==
    ASSUME NEW ss, SessTyped(ss), NEW s \in Decisions
    PROVE  /\ SessTyped(RetiredFrom(ss, s)) /\ ~RetiredFrom(ss, s)[s].stale
           /\ \A r \in Decisions : RetiredFrom(ss, s)[r].inUse = ss[r].inUse
           /\ \A r \in Decisions \ {s} : RetiredFrom(ss, s)[r] = ss[r]
  BY DEF SessTyped, RetiredFrom

LEMMA FinishReturns ==
    ASSUME TypeOK, Counted, NEW d \in Decisions, NEW what, held[d] # Nobody, Finish(d, what)
    PROVE  Leaves(d) /\ LeavesBehind(held[d]) /\ SessTyped(sess')
<1>. DEFINE s == held[d]
            ss == Returned(s, d)
<1>1. SessTyped(sess) /\ s \in Decisions /\ held \in [Decisions -> Decisions \cup {Nobody}]
  BY DEF TypeOK, KeyedTyped, DecidingTyped, SessTyped
<1>2. sess[s].inUse \in Nat \ {0}
  BY <1>1, HeldCount
<1>3. /\ SessTyped(ss)
      /\ \A r \in Decisions : ss[r].inUse = IF r = s THEN sess[r].inUse - 1 ELSE sess[r].inUse
      /\ \A r \in Decisions : ss[r].stale = sess[r].stale
  BY <1>1, <1>2, ReturnedTyped
<1>4. /\ IF ss[s].stale /\ ss[s].inUse = 0 THEN Retire(ss, s) ELSE sess' = ss /\ UNCHANGED files
      /\ held' = [held EXCEPT ![d] = Nobody]
  BY DEF Finish, Returned
<1>. HIDE DEF s, ss
<1>5. CASE ss[s].stale /\ ss[s].inUse = 0
  <2>1. sess' = RetiredFrom(ss, s) /\ files' = files \ {s}
    BY <1>4, <1>5 DEF Retire
  <2>2. /\ SessTyped(sess') /\ ~sess'[s].stale /\ \A r \in Decisions : sess'[r].inUse = ss[r].inUse
        /\ \A r \in Decisions \ {s} : sess'[r] = ss[r]
    BY <1>1, <1>3, <2>1, RetiredTyped
  <2> QED
    BY <1>1, <1>3, <1>4, <1>5, <2>1, <2>2 DEF Leaves, LeavesBehind, Retires, s
<1>6. CASE ~(ss[s].stale /\ ss[s].inUse = 0)
  BY <1>1, <1>3, <1>4, <1>6 DEF Leaves, LeavesBehind, StaleSame, s
<1> QED
  BY <1>5, <1>6

LEMMA GivesUpReturns ==
    ASSUME TypeOK, Counted, NEW d \in Decisions, held[d] # Nobody, GivesUp(d)
    PROVE  Leaves(d) /\ LeavesBehind(held[d]) /\ SessTyped(sess')
<1>. DEFINE s == held[d]
            ss == Dereferenced(s)
<1>1. SessTyped(sess) /\ s \in Decisions /\ held \in [Decisions -> Decisions \cup {Nobody}]
  BY DEF TypeOK, KeyedTyped, DecidingTyped, SessTyped
<1>2. sess[s].inUse \in Nat \ {0}
  BY <1>1, HeldCount
<1>3. /\ SessTyped(ss)
      /\ \A r \in Decisions : ss[r].inUse = IF r = s THEN sess[r].inUse - 1 ELSE sess[r].inUse
      /\ \A r \in Decisions : ss[r].stale = sess[r].stale
  BY <1>1, <1>2, ReturnedTyped
<1>4. /\ IF ss[s].stale /\ ss[s].inUse = 0 THEN Retire(ss, s) ELSE sess' = ss /\ UNCHANGED files
      /\ held' = [held EXCEPT ![d] = Nobody]
  BY DEF GivesUp, ReleaseSession, Dereferenced
<1>. HIDE DEF s, ss
<1>5. CASE ss[s].stale /\ ss[s].inUse = 0
  <2>1. sess' = RetiredFrom(ss, s) /\ files' = files \ {s}
    BY <1>4, <1>5 DEF Retire
  <2>2. /\ SessTyped(sess') /\ ~sess'[s].stale /\ \A r \in Decisions : sess'[r].inUse = ss[r].inUse
        /\ \A r \in Decisions \ {s} : sess'[r] = ss[r]
    BY <1>1, <1>3, <2>1, RetiredTyped
  <2> QED
    BY <1>1, <1>3, <1>4, <1>5, <2>1, <2>2 DEF Leaves, LeavesBehind, Retires, s
<1>6. CASE ~(ss[s].stale /\ ss[s].inUse = 0)
  BY <1>1, <1>3, <1>4, <1>6 DEF Leaves, LeavesBehind, StaleSame, s
<1> QED
  BY <1>5, <1>6

\* Counting the references goes with each of these.
LEMMA CountedStep ==
    ASSUME TypeOK, Counted, HeldRight, NEW d \in Decisions, NEW s \in Decisions,
           RefsSame \/ Joins(d, s) \/ Leaves(d)
    PROVE  Counted'
<1>. held \in [Decisions -> Decisions \cup {Nobody}]
  BY DEF TypeOK, DecidingTyped
<1>. Nobody \notin Decisions
  BY NobodyElse
<1> SUFFICES ASSUME NEW r \in Decisions PROVE sess'[r].inUse = Cardinality(Holding(r)')
  BY DEF Counted
<1>0. sess[r].inUse = Cardinality(Holding(r)) /\ IsFiniteSet(Holding(r)) /\ Cardinality(Holding(r)) \in Nat
  BY HoldingFinite DEF Counted
<1>1. CASE RefsSame
  <2>1. Holding(r)' = Holding(r)
    BY <1>1 DEF RefsSame, Holding
  <2> QED
    BY <1>0, <1>1, <2>1 DEF RefsSame
<1>2. CASE Joins(d, s) /\ r = s
  <2>1. Holding(r)' = Holding(r) \cup {d} /\ d \notin Holding(r)
    BY <1>2 DEF Joins, Holding
  <2>2. Cardinality(Holding(r)') = Cardinality(Holding(r)) + 1
    BY <1>0, <2>1, FS_AddElement
  <2> QED
    BY <1>0, <1>2, <2>2 DEF Joins
<1>3. CASE Joins(d, s) /\ r # s
  <2>1. Holding(r)' = Holding(r)
    BY <1>3 DEF Joins, Holding
  <2> QED
    BY <1>0, <1>3, <2>1 DEF Joins
<1>4. CASE Leaves(d) /\ r = held[d]
  <2>1. Holding(r)' = Holding(r) \ {d} /\ d \in Holding(r)
    BY <1>4 DEF Leaves, Holding
  <2>2. Cardinality(Holding(r)') = Cardinality(Holding(r)) - 1
    BY <1>0, <2>1, FS_RemoveElement
  <2> QED
    BY <1>0, <1>4, <2>2 DEF Leaves
<1>5. CASE Leaves(d) /\ r # held[d]
  <2>1. Holding(r)' = Holding(r)
    BY <1>5 DEF Leaves, Holding
  <2> QED
    BY <1>0, <1>5, <2>1 DEF Leaves
<1> QED
  BY <1>1, <1>2, <1>3, <1>4, <1>5

----------------------------------------------------------------------------
(* What each kind of step does to the sessions                              *)

MapTyped ==
    /\ task \in [Tasks -> {"none", "queued", "dropping", "room", "priming", "primed", "refusing", "end"}]
    /\ sessions \in [Keys -> Decisions \cup {Nobody}]
    /\ SessTyped(sess) /\ files \subseteq Decisions
    /\ held \in [Decisions -> Decisions \cup {Nobody}]
    /\ drop \in [Decisions -> [at : {"none", "cleanup", "spare", "end"}, on : Decisions \cup {Nobody},
                               by : Tasks \cup Droppers \cup {Nobody}]]
    /\ \A x \in Tasks : Key[x] \in Keys

LEMMA MapsTyped == ASSUME TypeOK PROVE MapTyped
  BY KeyTyped DEF TypeOK, KeyedTyped, DecidingTyped, OutsideTyped, MapTyped, SessTyped

\* Nothing happens to the sessions.
SessionsSame == UNCHANGED <<sessions, drop, files>> /\ RefsSame /\ StaleSame

LEMMA QuietStep ==
    ASSUME TypeOK, SessionsRight, SessionsSame, UNCHANGED <<task, fixed>>, closed => closed',
           closing' \in {"dropping", "closed"} => closing \in {"dropping", "closed"}
    PROVE  SessionsRight'
<1>. MapTyped
  BY MapsTyped
<1>1. RoomEmpty' /\ MapRight' /\ EmptyClosed'
  BY DEF SessionsRight, SessionsSame, RoomEmpty, MapRight, EmptyClosed, MapTyped, StaleSame, fixed, Key, Hash, Bared
<1>2. DropsRight'
  BY DEF SessionsRight, SessionsSame, DropsRight, Drops, MapTyped, StaleSame
<1>3. HeldRight' /\ Counted'
  BY DEF SessionsRight, SessionsSame, RefsSame, HeldRight, Counted, Holding, MapTyped, fixed, Hash, Bared
<1>4. FilesUsed'
  BY DEF SessionsRight, SessionsSame, RefsSame, FilesUsed, Holding, Dropped, InMap, MapTyped, StaleSame, fixed, Key
<1> QED
  BY <1>1, <1>2, <1>3, <1>4 DEF SessionsRight

\* A task goes on.
Goes(x, to) == \A y \in Tasks : task'[y] = IF y = x THEN to ELSE task[y]
Primer == {"priming", "primed"}

LEMMA TaskStep ==
    ASSUME TypeOK, SessionsRight, SessionsSame, UNCHANGED <<closing, fixed>>,
           NEW x \in Tasks, NEW to, Goes(x, to), to \notin {"dropping", "refusing"},
           task[x] \notin {"dropping", "refusing", "end"}, task[x] \in Primer <=> to \in Primer,
           to \in {"room"} \cup Primer => sessions[Key[x]] = Nobody
    PROVE  SessionsRight'
<1>. MapTyped
  BY MapsTyped
<1>1. RoomEmpty' /\ MapRight' /\ EmptyClosed'
  BY DEF SessionsRight, SessionsSame, RoomEmpty, MapRight, EmptyClosed, MapTyped, StaleSame, fixed, Key,
    Hash, Bared, Goes, Tasks, Active, Primer
<1>2. DropsRight'
  BY DEF SessionsRight, SessionsSame, DropsRight, Drops, MapTyped, StaleSame, Goes, Tasks, Primer, closed
<1>3. HeldRight'
  <2>1. /\ held' = held /\ files' = files /\ closing' = closing /\ Hash' = Hash
        /\ \A d \in Decisions : held[d] # Nobody => held[d] \in Tasks /\ d \in Tasks
    BY NobodyElse DEF SessionsSame, RefsSame, MapTyped, fixed, Hash
  <2> QED
    BY <2>1 DEF SessionsRight, HeldRight, Bared, Goes, closed
<1>5. Counted'
  BY DEF SessionsRight, SessionsSame, RefsSame, Counted, Holding
<1>4. FilesUsed'
  BY DEF SessionsRight, SessionsSame, RefsSame, FilesUsed, Holding, Dropped, InMap, MapTyped, StaleSame,
    fixed, Key, Goes, Tasks, Primer
<1> QED
  BY <1>1, <1>2, <1>3, <1>4, <1>5 DEF SessionsRight

\* A drop begins: the session leaves the map.
LEMMA BeginStep ==
    ASSUME TypeOK, SessionsRight, NEW s \in Decisions, sessions[Key[s]] = s,
           NEW by \in Tasks \cup {"idle"}, BeginDrop(s, by), Goes(by, "dropping"),
           by \in Tasks => task[by] \in {"queued", "room"} /\ sessions[Key[by]] \in {s, Nobody},
           UNCHANGED <<held, files, sess, closing, fixed>>
    PROVE  SessionsRight'
<1>. MapTyped /\ Nobody \notin Decisions /\ Decisions \subseteq Tasks /\ "idle" \notin Tasks
  BY MapsTyped, NobodyElse DEF Droppers
<1>. UNCHANGED closed /\ UNCHANGED Key /\ UNCHANGED Hash
  BY DEF closed, fixed, Key, Hash
<1>1. /\ \A k \in Keys : sessions'[k] = IF k = Key[s] THEN Nobody ELSE sessions[k]
      /\ \A r \in Decisions : drop'[r].at = IF r = s THEN "cleanup" ELSE drop[r].at
      /\ \A r \in Decisions : drop'[r].by = IF r = s THEN by ELSE drop[r].by
  BY DEF BeginDrop, OutOfMap, MapTyped, SessTyped
<1>2. task[s] = "end" /\ Key[s] \in Keys
  BY DEF SessionsRight, MapRight, MapTyped
<1>3. RoomEmpty'
  <2>1. by \in Tasks => sessions'[Key[by]] = Nobody
    BY <1>1 DEF SessionsRight, MapRight, MapTyped
  <2> QED
    BY <1>1, <2>1 DEF SessionsRight, RoomEmpty, MapTyped, Goes, Active
<1>4. MapRight' /\ EmptyClosed'
  <2>1. \A k \in Keys : sessions'[k] # Nobody => sessions[k] # Nobody /\ sessions'[k] = sessions[k] /\ sessions[k] # s
    BY <1>1 DEF SessionsRight, MapRight
  <2> QED
    BY <1>1, <2>1 DEF SessionsRight, MapRight, EmptyClosed, MapTyped, Goes, Bared
<1>5. DropsRight'
  <2> SUFFICES ASSUME NEW r \in Decisions PROVE Drops(r)'
    BY DEF DropsRight
  <2>1. Drops(r) /\ \A q \in Decisions : drop[q].by \in Tasks => task[drop[q].by] = "dropping"
    BY DEF SessionsRight, DropsRight, Drops
  <2>2. by \in Tasks => \A q \in Decisions : drop[q].by # by
    BY <2>1
  <2>3. by \notin {"close", "late"}
    BY NobodyElse DEF Droppers
  <2>4. CASE r = s
    BY <1>1, <1>2, <2>1, <2>2, <2>3, <2>4 DEF Drops, Goes
  <2>5. CASE r # s
    BY <1>1, <2>1, <2>2, <2>5 DEF Drops, Goes
  <2> QED
    BY <2>4, <2>5
<1>6. HeldRight' /\ Counted'
  BY DEF SessionsRight, HeldRight, Counted, Holding, MapTyped, Bared, Goes
<1>7. FilesUsed'
  BY <1>1, <1>2 DEF SessionsRight, FilesUsed, Holding, Dropped, InMap, MapTyped, Goes
<1> QED
  BY <1>3, <1>4, <1>5, <1>6, <1>7 DEF SessionsRight

\* A decision finds its session in the map.
LEMMA FindsStep ==
    ASSUME TypeOK, SessionsRight, NEW d \in Decisions, LookupFinds(d)
    PROVE  SessionsRight' /\ SessTyped(sess') /\ held' \in [Decisions -> Decisions \cup {Nobody}]
<1>. MapTyped /\ Nobody \notin Decisions /\ Decisions \subseteq Tasks
  BY MapsTyped, NobodyElse
<1>. UNCHANGED <<sessions, drop, files, closing, fixed>>
  BY DEF LookupFinds, outside, fixed
<1>. UNCHANGED closed /\ UNCHANGED Key /\ UNCHANGED Hash
  BY DEF closed, fixed, Key, Hash
<1>. DEFINE s == sessions[Key[d]]
<1>1. s \in Decisions /\ Take(d, s) /\ Goes(d, "end") /\ task[d] = "queued"
  BY DEF LookupFinds, TaskEnds, Goes, MapTyped
<1>2. /\ SessTyped(sess') /\ StaleSame /\ held' = [held EXCEPT ![d] = s]
      /\ \A r \in Decisions : sess'[r].inUse = IF r = s THEN sess[r].inUse + 1 ELSE sess[r].inUse
  BY <1>1 DEF Take, MapTyped, SessTyped, StaleSame
<1>3. held[d] = Nobody /\ Joins(d, s)
  BY <1>1, <1>2 DEF SessionsRight, HeldRight, Joins, MapTyped
<1>4. Key[s] = Key[d] /\ task[s] = "end" /\ (Bared(s) \/ s \in files)
  BY <1>1 DEF SessionsRight, MapRight, MapTyped
<1>5. RoomEmpty' /\ MapRight' /\ EmptyClosed'
  BY <1>1, <1>2 DEF SessionsRight, RoomEmpty, MapRight, EmptyClosed, MapTyped, StaleSame, Goes, Active, Bared
<1>6. DropsRight'
  BY <1>1, <1>2 DEF SessionsRight, DropsRight, Drops, MapTyped, StaleSame, Goes
<1>7. HeldRight'
  BY <1>1, <1>2, <1>4 DEF SessionsRight, HeldRight, MapTyped, Goes, Bared
<1>8. Counted'
  BY <1>1, <1>3, CountedStep DEF SessionsRight
<1>9. FilesUsed'
  <2>1. \A r \in Decisions : Holding(r) # {} => Holding(r)' # {}
    BY <1>1, <1>2, <1>3 DEF Holding, MapTyped
  <2> QED
    BY <1>1, <1>2, <2>1 DEF SessionsRight, FilesUsed, Dropped, InMap, MapTyped, StaleSame, Goes
<1> QED
  BY <1>2, <1>5, <1>6, <1>7, <1>8, <1>9 DEF SessionsRight, MapTyped

\* A primed session is installed, or dropped at once when the host was closed meanwhile.
LEMMA InstallStep ==
    ASSUME TypeOK, SessionsRight, ActiveRuns, NEW d \in Decisions, Install(d),
           task[d] \in {"room", "primed"}, Bared(d) \/ task[d] = "primed",
           UNCHANGED <<files, closing, fixed>>
    PROVE  SessionsRight' /\ SessTyped(sess') /\ held' \in [Decisions -> Decisions \cup {Nobody}]
<1>. MapTyped /\ Nobody \notin Decisions /\ Decisions \subseteq Tasks
  BY MapsTyped, NobodyElse
<1>. UNCHANGED closed /\ UNCHANGED Key /\ UNCHANGED Hash
  BY DEF closed, fixed, Key, Hash
<1>0. Key[d] \in Keys /\ sessions[Key[d]] = Nobody /\ drop[d].at = "none" /\ ~sess[d].stale
      /\ (Bared(d) \/ d \in files) /\ held[d] = Nobody /\ \A r \in Decisions : held[r] # d
  BY DEF SessionsRight, RoomEmpty, DropsRight, Drops, HeldRight, MapTyped, Active
<1>1. sess[d].inUse = 0
  BY <1>0, HoldingNone DEF SessionsRight, Holding
<1>2. CASE ~closed
  <2>1. /\ Goes(d, "end") /\ UNCHANGED drop
        /\ \A k \in Keys : sessions'[k] = IF k = Key[d] THEN d ELSE sessions[k]
        /\ sess' = [sess EXCEPT ![d].inUse = IF Abandoned(d) THEN 0 ELSE 1]
        /\ held' = IF Abandoned(d) THEN held ELSE [held EXCEPT ![d] = d]
    BY <1>2 DEF Install, TaskEnds, Goes, MapTyped
  <2>2. SessTyped(sess') /\ StaleSame
    BY <2>1 DEF MapTyped, SessTyped, StaleSame
  <2>3. RefsSame \/ Joins(d, d)
    BY <1>0, <1>1, <2>1 DEF RefsSame, Joins, MapTyped, SessTyped
  <2>4. RoomEmpty' /\ EmptyClosed'
    <3>1. ASSUME NEW x \in Tasks, task'[x] \in Active \ {"refusing"} PROVE sessions'[Key[x]] = Nobody
      <4>1. x # d /\ task[x] \in Active \ {"refusing"} /\ Key[x] \in Keys
        BY <2>1, <3>1 DEF Goes, Active, MapTyped
      <4>2. Key[x] # Key[d]
        BY <4>1, OneRuns DEF ActiveRuns, Active
      <4> QED
        BY <2>1, <4>1, <4>2 DEF SessionsRight, RoomEmpty
    <3> QED
      BY <1>2, <3>1 DEF RoomEmpty, EmptyClosed, closed
  <2>5. MapRight'
    BY <1>0, <2>1, <2>2 DEF SessionsRight, MapRight, MapTyped, StaleSame, Goes, Bared
  <2>6. DropsRight'
    BY <2>1, <2>2 DEF SessionsRight, DropsRight, Drops, MapTyped, StaleSame, Goes
  <2>7. HeldRight'
    BY <1>0, <2>1 DEF SessionsRight, HeldRight, MapTyped, Goes, Bared
  <2>8. Counted'
    BY <2>3, CountedStep DEF SessionsRight
  <2>9. FilesUsed'
    <3>1. \A r \in Decisions : Holding(r) # {} => Holding(r)' # {}
      BY <1>0, <2>1 DEF Holding, MapTyped
    <3>2. \A r \in Decisions : r \in InMap \/ r = d => r \in InMap'
      BY <1>0, <2>1 DEF InMap, MapTyped
    <3> QED
      BY <2>1, <2>2, <3>1, <3>2 DEF SessionsRight, FilesUsed, Dropped, MapTyped, StaleSame, Goes
  <2> QED
    BY <2>1, <2>2, <2>4, <2>5, <2>6, <2>7, <2>8, <2>9 DEF SessionsRight, MapTyped
<1>3. CASE closed
  <2>1. /\ Goes(d, "refusing") /\ UNCHANGED <<sess, held>>
        /\ \A k \in Keys : sessions'[k] = sessions[k]
        /\ \A r \in Decisions : drop'[r].at = IF r = d THEN "cleanup" ELSE drop[r].at
        /\ \A r \in Decisions : drop'[r].by = IF r = d THEN "late" ELSE drop[r].by
    BY <1>0, <1>3 DEF Install, Goes, MapTyped
  <2>2. "late" \notin Tasks
    BY NobodyElse DEF Droppers
  <2>4. RoomEmpty' /\ EmptyClosed' /\ MapRight'
    BY <2>1 DEF SessionsRight, RoomEmpty, EmptyClosed, MapRight, MapTyped, Goes, Active, Bared
  <2>5. DropsRight'
    BY <1>0, <1>3, <2>1, <2>2 DEF SessionsRight, DropsRight, Drops, MapTyped, Goes
  <2>6. HeldRight' /\ Counted'
    BY <1>3, <2>1 DEF SessionsRight, HeldRight, Counted, Holding, MapTyped, Goes, Bared
  <2>7. FilesUsed'
    BY <1>0, <2>1 DEF SessionsRight, FilesUsed, Holding, Dropped, InMap, MapTyped, Goes
  <2> QED
    BY <2>1, <2>4, <2>5, <2>6, <2>7 DEF SessionsRight, MapTyped
<1> QED
  BY <1>2, <1>3

\* A decision hands its session back: the last one retires a stale one.
LEMMA LeavingStep ==
    ASSUME TypeOK, SessionsRight, NEW d \in Decisions, Leaves(d), LeavesBehind(held[d]),
           UNCHANGED <<task, sessions, drop, closing, fixed>>
    PROVE  SessionsRight'
<1>. MapTyped /\ Nobody \notin Decisions /\ Decisions \subseteq Tasks
  BY MapsTyped, NobodyElse
<1>. UNCHANGED closed /\ UNCHANGED Key /\ UNCHANGED Hash
  BY DEF closed, fixed, Key, Hash
<1>0. PICK s \in Decisions : s = held[d]
  BY DEF MapTyped, Leaves
<1>. Leaves(d) /\ LeavesBehind(s)
  BY <1>0
<1>1. held[d] = s /\ task[s] = "end" /\ task[d] = "end" /\ held' = [held EXCEPT ![d] = Nobody]
  BY <1>0 DEF SessionsRight, HeldRight, MapTyped, Leaves
<1>2. Counted'
  BY <1>1, CountedStep DEF SessionsRight
<1>3. \A r \in Decisions \ {s} : Holding(r)' = Holding(r)
  BY <1>1 DEF Holding, MapTyped
<1>4. \A r \in Decisions : r # s => sess'[r].stale = sess[r].stale /\ (r \in files' <=> r \in files)
  BY DEF LeavesBehind, Retires, StaleSame
<1>5. /\ sess'[s].stale => sess[s].stale
      /\ files' \subseteq files
      /\ s \notin files' /\ s \in files => sess[s].stale /\ Holding(s)' = {} /\ ~sess'[s].stale
      /\ sess[s].stale => (~sess'[s].stale /\ s \notin files') \/ (sess'[s].stale /\ Holding(s)' # {})
  <2>1. Holding(s)' = {} <=> sess'[s].inUse = 0
    <3>1. IsFiniteSet(Holding(s)')
      <4>1. Holding(s)' \subseteq Holding(s)
        BY <1>1 DEF Holding, MapTyped
      <4> QED
        BY <4>1, HoldingFinite, FS_Subset
    <3> QED
      BY <1>1, <1>2, <3>1, FS_EmptySet DEF Counted
  <2>2. CASE sess[s].stale /\ sess'[s].inUse = 0
    <3>1. Retires(s)
      BY <2>2 DEF LeavesBehind
    <3>2. files' = files \ {s} /\ ~sess'[s].stale /\ Holding(s)' = {}
      BY <2>1, <2>2, <3>1 DEF Retires
    <3> QED
      BY <2>2, <3>2
  <2>3. CASE ~(sess[s].stale /\ sess'[s].inUse = 0)
    <3>1. files' = files /\ sess'[s].stale = sess[s].stale
      BY <2>3 DEF LeavesBehind, StaleSame
    <3> QED
      BY <2>1, <2>3, <3>1
  <2> QED
    BY <2>2, <2>3
<1>6. RoomEmpty' /\ EmptyClosed'
  BY DEF SessionsRight, RoomEmpty, EmptyClosed
<1>7. MapRight'
  <2> SUFFICES ASSUME NEW k \in Keys, sessions[k] # Nobody
               PROVE  /\ ~sess'[sessions[k]].stale
                      /\ Bared(sessions[k]) \/ sessions[k] \in files'
    BY DEF SessionsRight, MapRight, Bared
  <2>1. sessions[k] \in Decisions /\ ~sess[sessions[k]].stale /\ (Bared(sessions[k]) \/ sessions[k] \in files)
    BY DEF SessionsRight, MapRight, MapTyped
  <2> QED
    BY <1>4, <1>5, <2>1
<1>8. DropsRight'
  <2> SUFFICES ASSUME NEW r \in Decisions PROVE Drops(r)'
    BY DEF DropsRight
  <2>1. Drops(r) /\ (r = s => task[r] = "end")
    BY <1>1 DEF SessionsRight, DropsRight
  <2> QED
    BY <1>4, <1>5, <2>1 DEF Drops
<1>9. HeldRight'
  <2> SUFFICES ASSUME NEW e \in Decisions, held'[e] # Nobody
               PROVE  /\ task[e] = "end" /\ task[held'[e]] = "end"
                      /\ closed \/ Bared(held'[e]) \/ held'[e] \in files'
    BY DEF HeldRight, Bared
  <2>1. e # d /\ held'[e] = held[e] /\ held[e] \in Decisions
    BY <1>1 DEF MapTyped
  <2>2. task[e] = "end" /\ task[held[e]] = "end" /\ (closed \/ Bared(held[e]) \/ held[e] \in files)
    BY <2>1 DEF SessionsRight, HeldRight
  <2>3. held[e] = s => Holding(s)' # {}
    BY <2>1 DEF Holding
  <2> QED
    BY <1>1, <1>4, <1>5, <2>1, <2>2, <2>3
<1>10. FilesUsed'
  <2> SUFFICES ASSUME NEW r \in files'
               PROVE  \/ r \in InMap' \/ Dropped(r)' \/ task'[r] \in {"priming", "primed"}
                      \/ sess'[r].stale /\ Holding(r)' # {}
    BY DEF FilesUsed
  <2>1. r \in files /\ r \in Decisions
    BY <1>5 DEF MapTyped
  <2>2. \/ r \in InMap' \/ Dropped(r)' \/ task'[r] \in {"priming", "primed"}
        \/ sess[r].stale
    BY <2>1 DEF SessionsRight, FilesUsed, Dropped, InMap
  <2>3. CASE r = s
    BY <1>5, <2>2, <2>3
  <2>4. CASE r # s
    BY <1>3, <1>4, <2>1, <2>4 DEF SessionsRight, FilesUsed, Dropped, InMap
  <2> QED
    BY <2>3, <2>4
<1> QED
  BY <1>2, <1>6, <1>7, <1>8, <1>9, <1>10 DEF SessionsRight

\* A primer starts.
LEMMA PrimesStep ==
    ASSUME TypeOK, SessionsRight, NEW d \in Decisions, task[d] = "room",
           Goes(d, "priming"), files' = files \cup {d}, RefsSame, StaleSame,
           UNCHANGED <<sessions, drop, closing, fixed>>
    PROVE  SessionsRight'
<1>. MapTyped /\ Nobody \notin Decisions /\ Decisions \subseteq Tasks
  BY MapsTyped, NobodyElse
<1>. UNCHANGED closed /\ UNCHANGED Key /\ UNCHANGED Hash
  BY DEF closed, fixed, Key, Hash
<1>1. RoomEmpty' /\ EmptyClosed' /\ MapRight'
  BY DEF SessionsRight, RoomEmpty, EmptyClosed, MapRight, MapTyped, StaleSame, Goes, Active, Bared
<1>2. DropsRight'
  BY DEF SessionsRight, DropsRight, Drops, MapTyped, StaleSame, Goes
<1>3. HeldRight'
  BY DEF SessionsRight, HeldRight, RefsSame, MapTyped, Goes, Bared
<1>4. FilesUsed'
  BY DEF SessionsRight, FilesUsed, RefsSame, StaleSame, Holding, Dropped, InMap, MapTyped, Goes
<1>5. Counted'
  BY DEF SessionsRight, Counted, RefsSame, Holding
<1> QED
  BY <1>1, <1>2, <1>3, <1>4, <1>5 DEF SessionsRight

\* A primer fails: nobody has its session yet.
LEMMA PrimeFailsStep ==
    ASSUME TypeOK, SessionsRight, NEW d \in Decisions, task[d] \in {"priming", "primed"},
           Goes(d, "end"), files' = files \ {d}, RefsSame, StaleSame,
           UNCHANGED <<sessions, drop, closing, fixed>>
    PROVE  SessionsRight'
<1>. MapTyped /\ Nobody \notin Decisions /\ Decisions \subseteq Tasks
  BY MapsTyped, NobodyElse
<1>. UNCHANGED closed /\ UNCHANGED Key /\ UNCHANGED Hash
  BY DEF closed, fixed, Key, Hash
<1>1. RoomEmpty' /\ EmptyClosed'
  BY DEF SessionsRight, RoomEmpty, EmptyClosed, MapTyped, Goes, Active
<1>2. MapRight'
  BY DEF SessionsRight, MapRight, MapTyped, StaleSame, Goes, Bared
<1>3. DropsRight'
  BY DEF SessionsRight, DropsRight, Drops, MapTyped, StaleSame, Goes
<1>4. HeldRight'
  BY DEF SessionsRight, HeldRight, RefsSame, MapTyped, Goes, Bared
<1>5. Counted'
  BY DEF SessionsRight, Counted, RefsSame, Holding
<1>6. FilesUsed'
  BY DEF SessionsRight, FilesUsed, RefsSame, StaleSame, Holding, Dropped, InMap, MapTyped, Goes
<1> QED
  BY <1>1, <1>2, <1>3, <1>4, <1>5, <1>6 DEF SessionsRight

\* The drop goes on: the spare is gone.
LEMMA DropTakesStep ==
    ASSUME TypeOK, SessionsRight, NEW s \in Decisions, DropTakesSpare(s)
    PROVE  SessionsRight' /\ SessTyped(sess')
<1>. MapTyped /\ Nobody \notin Decisions /\ Decisions \subseteq Tasks
  BY MapsTyped, NobodyElse
<1>. UNCHANGED <<files, held, task, closing, fixed>>
  BY DEF DropTakesSpare, deciding, fixed
<1>. UNCHANGED closed /\ UNCHANGED Key /\ UNCHANGED Hash
  BY DEF closed, fixed, Key, Hash
<1>1. /\ SessTyped(sess') /\ RefsSame /\ StaleSame
      /\ \A r \in Decisions : drop'[r].by = drop[r].by
      /\ \A r \in Decisions : drop'[r].at = IF r = s THEN "spare" ELSE drop[r].at
  BY DEF DropTakesSpare, MapTyped, SessTyped, RefsSame, StaleSame
<1>2. drop[s].at = "cleanup" /\ \A k \in Keys : sessions'[k] = sessions[k]
  <2>1. drop[s].at = "cleanup" /\ OutOfMap(s) /\ sessions[Key[s]] # s
    BY DEF DropTakesSpare, SessionsRight, MapRight, MapTyped
  <2> QED
    BY <2>1 DEF OutOfMap, MapTyped
<1>3. RoomEmpty' /\ EmptyClosed' /\ MapRight'
  BY <1>1, <1>2 DEF SessionsRight, RoomEmpty, EmptyClosed, MapRight, MapTyped, StaleSame, Bared
<1>4. DropsRight'
  BY <1>1, <1>2 DEF SessionsRight, DropsRight, Drops, StaleSame
<1>5. HeldRight'
  BY DEF SessionsRight, HeldRight, Bared
<1>7. Counted'
  BY <1>1 DEF SessionsRight, Counted, RefsSame, Holding
<1>6. FilesUsed'
  BY <1>1, <1>2 DEF SessionsRight, FilesUsed, RefsSame, StaleSame, Holding, Dropped, InMap, MapTyped
<1> QED
  BY <1>1, <1>3, <1>4, <1>5, <1>6, <1>7 DEF SessionsRight

\* What the end of a drop does: the session is stale or retired, and who dropped it goes on.
Over(s) ==
    /\ \A r \in Decisions : drop'[r].at = IF r = s THEN "end" ELSE drop[r].at
    /\ \A r \in Decisions : drop'[r].by = IF r = s THEN Nobody ELSE drop[r].by
GoesOn(s) ==
    LET x == drop[s].by
    IN \/ x \in Evicts /\ Goes(x, "end")
       \/ x \in Decisions /\ Goes(x, "room")
       \/ x \notin Tasks /\ task[s] = "refusing" /\ Goes(s, "end")
       \/ x \notin Tasks /\ UNCHANGED task
Staled(s) ==
    /\ sess[s].inUse # 0 /\ sess'[s].stale /\ UNCHANGED files
    /\ \A r \in Decisions \ {s} : sess'[r].stale = sess[r].stale

LEMMA DropEndsEffect ==
    ASSUME TypeOK, NEW s \in Decisions, DropEnds(s)
    PROVE  /\ SessTyped(sess') /\ RefsSame /\ Over(s) /\ GoesOn(s)
           /\ Staled(s) \/ (Retires(s) /\ (sess[s].inUse = 0 \/ drop[s].by \in {"close", "late"}))
<1>. MapTyped /\ Decisions \subseteq Tasks /\ Evicts \subseteq Tasks
  BY MapsTyped, NobodyElse
<1>1. Over(s)
  BY DEF DropEnds, MapTyped, Over
<1>2. GoesOn(s)
  BY DEF DropEnds, MapTyped, GoesOn, TaskEnds, Goes, Tasks
<1>3. CASE KeepsTranscript(s)
  <2>1. sess' = [sess EXCEPT ![s].stale = TRUE] /\ files' = files /\ held' = held /\ sess[s].inUse # 0
    BY <1>3 DEF DropEnds, KeepsTranscript, deciding
  <2>2. SessTyped(sess') /\ sess'[s].stale /\ \A r \in Decisions : sess'[r].inUse = sess[r].inUse
    BY <2>1 DEF MapTyped, SessTyped
  <2>3. \A r \in Decisions \ {s} : sess'[r].stale = sess[r].stale
    BY <2>1 DEF MapTyped, SessTyped
  <2> QED
    BY <1>1, <1>2, <2>1, <2>2, <2>3 DEF RefsSame, Staled
<1>4. CASE ~KeepsTranscript(s)
  <2>1. sess' = RetiredFrom(sess, s) /\ files' = files \ {s} /\ held' = held
    BY <1>4 DEF DropEnds, Retire, deciding
  <2>2. /\ SessTyped(sess') /\ ~sess'[s].stale /\ \A r \in Decisions : sess'[r].inUse = sess[r].inUse
        /\ \A r \in Decisions \ {s} : sess'[r] = sess[r]
    BY <2>1, RetiredTyped DEF MapTyped
  <2>3. sess[s].inUse = 0 \/ drop[s].by \in {"close", "late"}
    BY <1>4 DEF KeepsTranscript, MapTyped, SessTyped
  <2> QED
    BY <1>1, <1>2, <2>1, <2>2, <2>3 DEF RefsSame, Retires
<1> QED
  BY <1>3, <1>4

LEMMA DropEndsStep ==
    ASSUME TypeOK, SessionsRight, NEW s \in Decisions, DropEnds(s)
    PROVE  SessionsRight' /\ SessTyped(sess')
<1>. MapTyped /\ Nobody \notin Tasks /\ Decisions \subseteq Tasks /\ Evicts \subseteq Tasks
  BY MapsTyped, NobodyElse
<1>. UNCHANGED <<sessions, held, closing, fixed>>
  BY DEF DropEnds, deciding, fixed
<1>. UNCHANGED closed /\ UNCHANGED Key /\ UNCHANGED Hash
  BY DEF closed, fixed, Key, Hash
<1>1. /\ SessTyped(sess') /\ RefsSame /\ Over(s) /\ GoesOn(s)
      /\ Staled(s) \/ (Retires(s) /\ (sess[s].inUse = 0 \/ drop[s].by \in {"close", "late"}))
  BY DropEndsEffect
<1>2. /\ drop[s].at = "spare" /\ Drops(s)
      /\ drop[s].by \in Tasks => task[drop[s].by] = "dropping"
      /\ drop[s].by \in {"close", "late"} => closed
      /\ sess[s].inUse = 0 <=> Holding(s) = {}
      /\ \A k \in Keys : sessions[k] # s
      /\ task[s] \in {"refusing", "end"}
  BY HoldingNone DEF DropEnds, SessionsRight, DropsRight, Drops, MapRight
<1>3. /\ \A y \in Tasks : task[y] # "dropping" /\ task[y] # "refusing" => task'[y] = task[y]
      /\ \A y \in Tasks : task'[y] \in Active => task[y] \in Active
      /\ \A y \in Tasks : task'[y] \in {"priming", "primed"} => task[y] \in {"priming", "primed"}
      /\ \A y \in Tasks : task'[y] = "refusing" => task[y] = "refusing"
      /\ \A y \in Tasks : task'[y] \in Active \ {"refusing"} => task[y] \in Active \ {"refusing"}
      /\ \A y \in Tasks : task[y] = "refusing" => task'[y] \in {"refusing", "end"}
      /\ \A y \in Tasks : task[y] = "dropping" /\ y # drop[s].by => task'[y] = "dropping"
  BY <1>1, <1>2 DEF GoesOn, Goes, Active
<1>4. RoomEmpty' /\ EmptyClosed'
  BY <1>3 DEF SessionsRight, RoomEmpty, EmptyClosed, MapTyped
<1>5. MapRight'
  <2> SUFFICES ASSUME NEW k \in Keys, sessions[k] # Nobody
               PROVE  /\ task'[sessions[k]] = "end" /\ drop'[sessions[k]].at = "none"
                      /\ ~sess'[sessions[k]].stale /\ (Bared(sessions[k]) \/ sessions[k] \in files')
    BY DEF SessionsRight, MapRight, Bared
  <2>1. /\ sessions[k] \in Decisions \ {s} /\ task[sessions[k]] = "end" /\ drop[sessions[k]].at = "none"
        /\ ~sess[sessions[k]].stale /\ (Bared(sessions[k]) \/ sessions[k] \in files)
    BY <1>2 DEF SessionsRight, MapRight, MapTyped
  <2> QED
    BY <1>1, <1>3, <2>1 DEF Over, Staled, Retires
<1>6. DropsRight'
  <2> SUFFICES ASSUME NEW r \in Decisions PROVE Drops(r)'
    BY DEF DropsRight
  <2>1. CASE r = s
    <3>1. task'[s] \in {"refusing", "end"} /\ drop'[s].by = Nobody /\ Nobody \notin {"close", "late"}
      BY <1>1, <1>2, <1>3, NobodyElse DEF Over, Droppers
    <3> QED
      BY <2>1, <3>1 DEF Drops
  <2>2. CASE r # s
    <3>1. Drops(r) /\ drop'[r].by = drop[r].by /\ drop'[r].at = drop[r].at /\ sess'[r].stale = sess[r].stale
          /\ (r \in files => r \in files')
      BY <1>1, <2>2 DEF Over, Staled, Retires, SessionsRight, DropsRight
    <3>2. drop[r].by \in Tasks => drop[r].by # drop[s].by
      BY <1>2, <2>2 DEF Drops
    <3>3. /\ task'[r] \notin {"refusing", "end"} => task[r] \notin {"refusing", "end"}
          /\ task'[r] \in {"priming", "primed"} => task[r] \in {"priming", "primed"}
          /\ drop[r].by \in Tasks => task'[drop[r].by] = "dropping"
      BY <1>3, <3>1, <3>2 DEF Drops
    <3>4. \A q \in Decisions : drop'[r].by \in Tasks /\ drop'[q].by = drop'[r].by => q = r
      BY <1>1, <3>1 DEF Over, Drops
    <3> QED
      BY <3>1, <3>3, <3>4 DEF Drops
  <2> QED
    BY <2>1, <2>2
<1>7. HeldRight'
  <2> SUFFICES ASSUME NEW d \in Decisions, held[d] # Nobody
               PROVE  /\ task'[d] = "end" /\ task'[held[d]] = "end"
                      /\ closed \/ Bared(held[d]) \/ held[d] \in files'
    BY DEF HeldRight, Bared
  <2>1. /\ held[d] \in Decisions /\ task[d] = "end" /\ task[held[d]] = "end"
        /\ closed \/ Bared(held[d]) \/ held[d] \in files
    BY DEF SessionsRight, HeldRight, MapTyped
  <2>2. held[d] = s => Holding(s) # {}
    BY DEF Holding
  <2> QED
    BY <1>1, <1>2, <1>3, <2>1, <2>2 DEF Staled, Retires
<1>8. Counted'
  BY <1>1 DEF SessionsRight, Counted, RefsSame, Holding
<1>9. FilesUsed'
  <2> SUFFICES ASSUME NEW r \in files'
               PROVE  \/ r \in InMap' \/ Dropped(r)' \/ task'[r] \in {"priming", "primed"}
                      \/ sess'[r].stale /\ Holding(r)' # {}
    BY DEF FilesUsed
  <2>1. r \in files /\ r \in Decisions /\ Holding(r)' = Holding(r) /\ InMap' = InMap
    BY <1>1 DEF Staled, Retires, MapTyped, Holding, InMap
  <2>2. CASE r = s
    BY <1>1, <1>2, <2>1, <2>2 DEF Staled, Retires
  <2>3. CASE r # s
    <3>1. /\ sess'[r].stale = sess[r].stale /\ (Dropped(r) => Dropped(r)')
          /\ task[r] \in {"priming", "primed"} => task'[r] = task[r]
      BY <1>1, <1>3, <2>1, <2>3 DEF Staled, Retires, Over, Dropped
    <3> QED
      BY <2>1, <3>1 DEF SessionsRight, FilesUsed
  <2> QED
    BY <2>2, <2>3
<1> QED
  BY <1>1, <1>4, <1>5, <1>6, <1>7, <1>8, <1>9 DEF SessionsRight

\* close() drops what is in the map, and then retires what is stale.
LEMMA CloseDropsStep ==
    ASSUME TypeOK, SessionsRight, CloseDrops
    PROVE  SessionsRight'
<1>. MapTyped /\ Nobody \notin Decisions /\ Decisions \subseteq Tasks /\ "close" \notin Tasks
  BY MapsTyped, NobodyElse DEF Droppers
<1>. UNCHANGED <<files, held, task, sess, fixed>> /\ closed /\ closed'
  BY DEF CloseDrops, deciding, outside, fixed, closed
<1>. UNCHANGED Key /\ UNCHANGED Hash
  BY DEF fixed, Key, Hash
<1>1. /\ \A k \in Keys : sessions'[k] = Nobody
      /\ \A r \in Decisions \ InMap : drop'[r] = drop[r]
      /\ \A r \in InMap : drop'[r].at = "cleanup" /\ drop'[r].by = "close"
  BY DEF CloseDrops, InMap
<1>2. \A r \in InMap : r \in Decisions /\ task[r] = "end"
  BY DEF InMap, SessionsRight, MapRight, MapTyped
<1>3. RoomEmpty' /\ EmptyClosed' /\ MapRight'
  BY <1>1 DEF RoomEmpty, EmptyClosed, MapRight, MapTyped
<1>4. DropsRight'
  <2> SUFFICES ASSUME NEW r \in Decisions PROVE Drops(r)'
    BY DEF DropsRight
  <2>1. Drops(r)
    BY DEF SessionsRight, DropsRight
  <2>2. CASE r \in InMap
    BY <1>1, <1>2, <2>1, <2>2 DEF Drops
  <2>3. CASE r \notin InMap
    BY <1>1, <2>1, <2>3 DEF Drops
  <2> QED
    BY <2>2, <2>3
<1>5. HeldRight'
  BY DEF SessionsRight, HeldRight, Bared
<1>6. Counted'
  BY DEF SessionsRight, Counted, Holding
<1>7. FilesUsed'
  BY <1>1 DEF SessionsRight, FilesUsed, Holding, Dropped, MapTyped
<1> QED
  BY <1>3, <1>4, <1>5, <1>6, <1>7 DEF SessionsRight

LEMMA CloseEndsStep ==
    ASSUME TypeOK, SessionsRight, CloseEnds
    PROVE  SessionsRight' /\ SessTyped(sess')
<1>. MapTyped /\ Nobody \notin Decisions /\ Decisions \subseteq Tasks
  BY MapsTyped, NobodyElse
<1>. UNCHANGED <<sessions, drop, held, task, fixed>> /\ closed /\ closed'
  BY DEF CloseEnds, deciding, fixed, closed
<1>. UNCHANGED Key /\ UNCHANGED Hash
  BY DEF fixed, Key, Hash
<1>1. /\ SessTyped(sess') /\ RefsSame
      /\ \A r \in Decisions : ~sess'[r].stale
      /\ \A r \in files' : r \in files /\ ~sess[r].stale
      /\ \A r \in files : ~sess[r].stale => r \in files'
  <2>1. /\ \A r \in Decisions : sess'[r] = IF sess[r].stale THEN [sess[r] EXCEPT !.stale = FALSE] ELSE sess[r]
        /\ sess' \in [Decisions -> {sess'[r] : r \in Decisions}]
        /\ files' = files \ {s \in Decisions : sess[s].stale}
    BY DEF CloseEnds
  <2>2. \A r \in Decisions : /\ sess'[r].inUse = sess[r].inUse /\ ~sess'[r].stale
                             /\ sess'[r] \in [inUse : Nat, stale : BOOLEAN, spare : Procs \cup {Nobody},
                                              cleanup : Decisions \cup {Nobody}]
    BY <2>1 DEF MapTyped, SessTyped
  <2>3. SessTyped(sess')
    BY <2>1, <2>2 DEF SessTyped
  <2> QED
    BY <2>1, <2>2, <2>3 DEF RefsSame, MapTyped
<1>2. closing = "dropping" /\ \A k \in Keys : sessions[k] = Nobody
  BY DEF CloseEnds, SessionsRight, EmptyClosed
<1>3. RoomEmpty' /\ EmptyClosed' /\ MapRight'
  BY <1>2 DEF RoomEmpty, EmptyClosed, MapRight, MapTyped
<1>4. DropsRight'
  <2> SUFFICES ASSUME NEW r \in Decisions PROVE Drops(r)'
    BY DEF DropsRight
  <2>1. Drops(r) /\ (task[r] \in {"priming", "primed"} => ~sess[r].stale)
    BY DEF SessionsRight, DropsRight, Drops
  <2> QED
    BY <1>1, <2>1 DEF Drops
<1>5. HeldRight'
  BY DEF SessionsRight, HeldRight, Bared
<1>6. Counted'
  BY <1>1 DEF SessionsRight, Counted, Holding, RefsSame
<1>7. FilesUsed'
  BY <1>1 DEF SessionsRight, FilesUsed, Holding, Dropped, InMap, MapTyped
<1> QED
  BY <1>1, <1>3, <1>4, <1>5, <1>6, <1>7 DEF SessionsRight

----------------------------------------------------------------------------
(* The sessions, step by step                                               *)

\* A decision that is over hands its session back.
LEMMA FinishStep ==
    ASSUME TypeOK, PhaseKnows, SessionsRight, NEW d \in Decisions, NEW what,
           phase[d] \in Forking, Finish(d, what), UNCHANGED <<task, sessions, drop, closing, fixed>>
    PROVE  SessionsRight' /\ SessTyped(sess')
<1>1. held[d] # Nobody
  BY DEF PhaseKnows, Knows
<1> QED
  BY <1>1, FinishReturns, LeavingStep DEF SessionsRight

LEMMA HandlersSessions ==
    ASSUME TypeOK, PhaseKnows, SessionsRight, NEW d \in Decisions, Handlers(d)
    PROVE  SessionsRight' /\ SessTyped(sess')
<1>. MapTyped
  BY MapsTyped
<1>1. CASE LeavesQueue(d) \/ LimitRefuses(d) \/ LookupFailed(d) \/ Receives(d) \/ StartsBranch(d)
           \/ Dispatches(d) \/ SendFails(d) \/ (BranchStarted(d) /\ proc[branch[d]] = "up")
           \/ (GivesUp(d) /\ held[d] = Nobody)
  <2>1. UNCHANGED <<task, sessions, drop, sess, files, held, closing, fixed>>
    BY <1>1 DEF LeavesQueue, LimitRefuses, LookupFailed, Receives, StartsBranch, Dispatches, SendFails,
      BranchStarted, GivesUp, keyed, outside, fixed
  <2> QED
    BY <2>1, QuietStep DEF SessionsSame, RefsSame, StaleSame, MapTyped, closed
<1>2. CASE Proceeds(d)
  <2>1. UNCHANGED <<sessions, drop, sess, files, held, closing, fixed>>
    BY <1>2 DEF Proceeds, outside, fixed
  <2>2. SessionsSame /\ SessTyped(sess')
    BY <2>1 DEF SessionsSame, RefsSame, StaleSame, MapTyped
  <2>3. CASE UNCHANGED task
    BY <2>1, <2>2, <2>3, QuietStep DEF closed
  <2>4. CASE Queued(d)
    <3>1. d \in Tasks /\ Goes(d, "queued")
      BY <2>4, NobodyElse DEF Queued, Goes, MapTyped
    <3>2. task[d] = "none"
      BY <1>2 DEF Proceeds, PhaseKnows, Knows
    <3> QED
      BY <2>1, <2>2, <3>1, <3>2, TaskStep DEF Primer
  <2> QED
    BY <1>2, <2>3, <2>4 DEF Proceeds
<1>3. CASE GivesUp(d) /\ held[d] # Nobody
  <2>1. UNCHANGED <<task, sessions, drop, closing, fixed>>
    BY <1>3 DEF GivesUp, fixed
  <2> QED
    BY <1>3, <2>1, GivesUpReturns, LeavingStep DEF SessionsRight
<1>4. CASE TakesSpare(d)
  <2>1. /\ sess' = [sess EXCEPT ![held[d]].spare = Nobody]
        /\ UNCHANGED <<task, sessions, drop, files, held, closing, fixed>>
    BY <1>4 DEF TakesSpare, outside, fixed
  <2>2. SessTyped(sess') /\ RefsSame /\ StaleSame
    BY <2>1 DEF MapTyped, SessTyped, RefsSame, StaleSame
  <2> QED
    BY <2>1, <2>2, QuietStep DEF SessionsSame, closed
<1>5. CASE CleaningFails(d) \/ (BranchStarted(d) /\ proc[branch[d]] # "up") \/ AdmissionRefused(d)
           \/ Reports(d) \/ ResultComes(d, "answered") \/ ResultComes(d, "settled")
  <2>1. PICK what \in {"unsent", "settled", "unsettled", "answered"} : Finish(d, what)
    BY <1>5 DEF CleaningFails, BranchStarted, AdmissionRefused, Reports, ResultComes
  <2>2. phase[d] \in Forking /\ UNCHANGED <<task, sessions, drop, closing, fixed>>
    BY <1>5 DEF CleaningFails, BranchStarted, AdmissionRefused, Reports, ResultComes, Forking, fixed
  <2> QED
    BY <2>1, <2>2, FinishStep
<1> QED
  BY <1>1, <1>2, <1>3, <1>4, <1>5 DEF Handlers

LEMMA LookupSessions ==
    ASSUME TypeOK, SessionsRight, ActiveRuns, NEW d \in Decisions, Lookup(d)
    PROVE  SessionsRight' /\ SessTyped(sess') /\ held' \in [Decisions -> Decisions \cup {Nobody}]
<1>. MapTyped /\ Nobody \notin Decisions /\ d \in Tasks /\ Key[d] \in Keys
  BY MapsTyped, NobodyElse DEF MapTyped
<1>. SessTyped(sess) /\ held \in [Decisions -> Decisions \cup {Nobody}]
  BY DEF MapTyped
<1>1. CASE LookupFails(d)
  <2>1. UNCHANGED <<sessions, drop, sess, files, held, closing, fixed>> /\ Goes(d, "end") /\ task[d] = "queued"
    BY <1>1 DEF LookupFails, deciding, outside, fixed, TaskEnds, Goes, MapTyped
  <2>2. SessionsSame
    BY <2>1 DEF SessionsSame, RefsSame, StaleSame
  <2> QED
    BY <2>1, <2>2, TaskStep DEF Primer
<1>2. CASE LookupFinds(d)
  BY <1>2, FindsStep
<1>3. CASE LookupDrops(d) /\ sessions[Key[d]] = Nobody
  <2>1. UNCHANGED <<sessions, drop, sess, files, held, closing, fixed>> /\ Goes(d, "room") /\ task[d] = "queued"
    BY <1>3 DEF LookupDrops, deciding, outside, fixed, Goes, MapTyped
  <2>2. SessionsSame
    BY <2>1 DEF SessionsSame, RefsSame, StaleSame
  <2> QED
    BY <1>3, <2>1, <2>2, TaskStep DEF Primer
<1>4. CASE LookupDrops(d) /\ sessions[Key[d]] # Nobody
  <2>1. PICK s \in Decisions : s = sessions[Key[d]]
    BY <1>4 DEF MapTyped
  <2>2. UNCHANGED <<sess, files, held, closing, fixed>> /\ Goes(d, "dropping") /\ BeginDrop(s, d) /\ task[d] = "queued"
    BY <1>4, <2>1 DEF LookupDrops, deciding, outside, fixed, Goes, MapTyped
  <2>3. Key[s] = Key[d]
    BY <2>1 DEF SessionsRight, MapRight
  <2> QED
    BY <2>1, <2>2, <2>3, BeginStep
<1>5. CASE MakesRoom(d)
  <2>1. PICK s \in Idle : BeginDrop(s, d)
    BY <1>5 DEF MakesRoom
  <2>2. UNCHANGED <<sess, files, held, closing, fixed>> /\ Goes(d, "dropping") /\ task[d] = "room"
    BY <1>5 DEF MakesRoom, deciding, outside, fixed, Goes, MapTyped
  <2>3. s \in Decisions /\ sessions[Key[s]] = s
    BY DEF Idle, InMap
  <2>4. sessions[Key[d]] = Nobody
    BY <2>2 DEF SessionsRight, RoomEmpty, Active
  <2> QED
    BY <2>1, <2>2, <2>3, <2>4, BeginStep
<1>6. CASE Primes(d)
  <2>1. UNCHANGED <<closing, fixed>> /\ task[d] = "room"
    BY <1>6 DEF Primes, fixed
  <2>2. CASE closed \/ Abandoned(d)
    <3>1. UNCHANGED <<sessions, drop, sess, files, held>> /\ Goes(d, "end")
      BY <1>6, <2>2 DEF Primes, TaskEnds, Goes, MapTyped
    <3>2. SessionsSame
      BY <3>1 DEF SessionsSame, RefsSame, StaleSame
    <3> QED
      BY <2>1, <3>1, <3>2, TaskStep DEF Primer
  <2>3. CASE ~(closed \/ Abandoned(d)) /\ Bared(d)
    <3>1. Install(d) /\ UNCHANGED files
      BY <1>6, <2>3 DEF Primes
    <3> QED
      BY <2>1, <2>3, <3>1, InstallStep
  <2>4. CASE ~(closed \/ Abandoned(d)) /\ ~Bared(d)
    <3>1. UNCHANGED <<sessions, drop, sess, held>> /\ files' = files \cup {d} /\ Goes(d, "priming")
      BY <1>6, <2>4 DEF Primes, Goes, MapTyped
    <3>2. RefsSame /\ StaleSame
      BY <3>1 DEF RefsSame, StaleSame
    <3> QED
      BY <2>1, <3>1, <3>2, PrimesStep
  <2> QED
    BY <2>2, <2>3, <2>4
<1>7. CASE PrimerCompletes(d)
  <2>1. UNCHANGED <<sessions, drop, sess, files, held, closing, fixed>> /\ Goes(d, "primed") /\ task[d] = "priming"
    BY <1>7 DEF PrimerCompletes, deciding, fixed, Goes, MapTyped
  <2>2. SessionsSame
    BY <2>1 DEF SessionsSame, RefsSame, StaleSame
  <2>3. sessions[Key[d]] = Nobody
    BY <2>1 DEF SessionsRight, RoomEmpty, Active
  <2> QED
    BY <2>1, <2>2, <2>3, TaskStep DEF Primer
<1>8. CASE Primed(d)
  BY <1>8, InstallStep DEF Primed, outside, fixed
<1>9. CASE PrimeFails(d)
  <2>1. UNCHANGED <<sessions, drop, sess, held, closing, fixed>> /\ files' = files \ {d} /\ Goes(d, "end")
        /\ task[d] \in {"priming", "primed"}
    BY <1>9 DEF PrimeFails, deciding, fixed, TaskEnds, Goes, MapTyped
  <2>2. RefsSame /\ StaleSame
    BY <2>1 DEF RefsSame, StaleSame
  <2> QED
    BY <2>1, <2>2, PrimeFailsStep
<1> QED
  BY <1>1, <1>2, <1>3, <1>4, <1>5, <1>6, <1>7, <1>8, <1>9 DEF Lookup

LEMMA BackgroundSessions ==
    ASSUME TypeOK, SessionsRight, ActiveRuns, StartedOnce, Background
    PROVE  SessionsRight' /\ SessTyped(sess')
<1>. MapTyped /\ Nobody \notin Decisions /\ Evicts \subseteq Tasks
  BY MapsTyped, NobodyElse
<1>. SessTyped(sess)
  BY DEF MapTyped
<1>1. ASSUME NEW e \in Evicts, EvictRuns(e) PROVE SessionsRight' /\ SessTyped(sess')
  <2>0. UNCHANGED <<sess, files, held, closing, fixed>> /\ task[e] = "queued"
    BY <1>1 DEF EvictRuns, deciding, outside, fixed
  <2>1. CASE sessions[Key[e]] = Nobody
    <3>1. UNCHANGED <<sessions, drop>> /\ Goes(e, "end")
      BY <1>1, <2>1 DEF EvictRuns, TaskEnds, Goes, MapTyped
    <3>2. SessionsSame
      BY <2>0, <3>1 DEF SessionsSame, RefsSame, StaleSame
    <3> QED
      BY <2>0, <3>1, <3>2, TaskStep DEF Primer
  <2>2. CASE sessions[Key[e]] # Nobody
    <3>1. PICK s \in Decisions : s = sessions[Key[e]]
      BY <2>2 DEF MapTyped
    <3>2. BeginDrop(s, e) /\ Goes(e, "dropping")
      BY <1>1, <2>2, <3>1 DEF EvictRuns, Goes, MapTyped
    <3>3. Key[s] = Key[e]
      BY <3>1 DEF SessionsRight, MapRight, MapTyped
    <3> QED
      BY <2>0, <3>1, <3>2, <3>3, BeginStep
  <2> QED
    BY <2>1, <2>2
<1>2. ASSUME NEW d \in Decisions, CleanupRefills(d) \/ CleanupEnds(d) PROVE SessionsRight' /\ SessTyped(sess')
  <2>1. UNCHANGED <<task, sessions, drop, files, held, closing, fixed>>
    BY <1>2 DEF CleanupRefills, CleanupEnds, outside, fixed
  <2>2. cleanup[d].of \in Decisions
    BY <1>2 DEF CleanupRefills, CleanupEnds, StartedOnce, Starts, TypeOK, DecidingTyped
  <2>3. PICK s \in Decisions : s = cleanup[d].of
    BY <2>2
  <2>4. \E p \in Procs \cup {Nobody} : sess' = [sess EXCEPT ![s].spare = p] \/ sess' = sess
    BY <1>2, <2>3 DEF CleanupRefills, CleanupEnds, Procs
  <2>5. SessTyped(sess') /\ RefsSame /\ StaleSame
    BY <2>1, <2>4 DEF MapTyped, SessTyped, RefsSame, StaleSame
  <2> QED
    BY <2>1, <2>5, QuietStep DEF SessionsSame, closed
<1>3. ASSUME NEW s \in Decisions, DropTakesSpare(s) \/ DropEnds(s) PROVE SessionsRight' /\ SessTyped(sess')
  BY <1>3, DropTakesStep, DropEndsStep
<1>4. CASE CloseDrops
  BY <1>4, CloseDropsStep DEF CloseDrops
<1>5. CASE CloseEnds
  BY <1>5, CloseEndsStep
<1> QED
  BY <1>1, <1>2, <1>3, <1>4, <1>5 DEF Background

LEMMA EventsSessions ==
    ASSUME TypeOK, SessionsRight, Events
    PROVE  SessionsRight' /\ UNCHANGED sess
<1>. MapTyped /\ Nobody \notin Decisions /\ Evicts \subseteq Tasks
  BY MapsTyped, NobodyElse
<1>1. ASSUME NEW d \in Decisions, Decide(d) \/ GoesAway(d) \/ TurnEnds(d) PROVE SessionsRight' /\ UNCHANGED sess
  <2>1. UNCHANGED <<task, sessions, drop, sess, files, held, closing, fixed>>
    BY <1>1 DEF Decide, GoesAway, TurnEnds, deciding, keyed, outside, fixed
  <2> QED
    BY <2>1, QuietStep DEF SessionsSame, RefsSame, StaleSame, closed
<1>2. ASSUME NEW p \in Procs, ProcExits(p) PROVE SessionsRight' /\ UNCHANGED sess
  <2>1. UNCHANGED <<task, sessions, drop, sess, files, held, closing, fixed>>
    BY <1>2 DEF ProcExits, deciding, keyed, fixed
  <2> QED
    BY <2>1, QuietStep DEF SessionsSame, RefsSame, StaleSame, closed
<1>3. CASE Close
  <2>1. UNCHANGED <<task, sessions, drop, sess, files, held, fixed>> /\ closing' = "disposing"
    BY <1>3 DEF Close, keyed, fixed
  <2> QED
    BY <2>1, QuietStep DEF SessionsSame, RefsSame, StaleSame, closed
<1>4. ASSUME NEW e \in Evicts, Evict(e) PROVE SessionsRight' /\ UNCHANGED sess
  <2>1. UNCHANGED <<sessions, drop, sess, files, held, closing, fixed>> /\ Goes(e, "queued") /\ task[e] = "none"
    BY <1>4 DEF Evict, deciding, outside, fixed, Queued, Goes, MapTyped
  <2>2. SessionsSame
    BY <2>1 DEF SessionsSame, RefsSame, StaleSame
  <2> QED
    BY <2>1, <2>2, TaskStep DEF Primer
<1>5. ASSUME NEW s \in Decisions, EvictIdle(s) PROVE SessionsRight' /\ UNCHANGED sess
  <2>1. UNCHANGED <<task, sess, files, held, closing, fixed>> /\ BeginDrop(s, "idle") /\ sessions[Key[s]] = s
    BY <1>5 DEF EvictIdle, deciding, outside, fixed, Idle, InMap
  <2>2. "idle" \notin Tasks
    BY NobodyElse DEF Droppers
  <2>3. Goes("idle", "dropping")
    BY <2>1, <2>2 DEF Goes
  <2> QED
    BY <2>1, <2>2, <2>3, BeginStep
<1> QED
  BY <1>1, <1>2, <1>3, <1>4, <1>5 DEF Events

----------------------------------------------------------------------------
(* Types, step by step                                                      *)

LEMMA KilledTyped ==
    ASSUME OutsideTyped, NEW ps
    PROVE  Killed(ps) \in [Procs -> {"none", "up", "killed", "gone"}]
  BY DEF OutsideTyped, Killed

LEMMA StartedTyped ==
    ASSUME OutsideTyped, NEW p
    PROVE  Started(p) \in [Procs -> {"none", "up", "killed", "gone"}]
  BY DEF OutsideTyped, Started

LEMMA FinishTyped ==
    ASSUME TypeOK, NEW d \in Decisions, NEW what \in {"unsent", "settled", "unsettled", "answered"},
           Finish(d, what), UNCHANGED <<gone, branch, turn>>
    PROVE  DecidingTyped' /\ OutsideTyped'
<1>. DecidingTyped /\ OutsideTyped
  BY DEF TypeOK
<1>1. DecidingTyped'
  BY DEF DecidingTyped, Finish, Settle
<1>2. files' = files \/ files' = files \ {held[d]}
  BY DEF Finish, Retire
<1>3. proc' \in [Procs -> {"none", "up", "killed", "gone"}]
  BY KilledTyped DEF Finish
<1> QED
  BY <1>1, <1>2, <1>3 DEF OutsideTyped

LEMMA HandlersTyped ==
    ASSUME TypeOK, PhaseKnows, NEW d \in Decisions, Handlers(d)
    PROVE  DecidingTyped' /\ OutsideTyped' /\ UNCHANGED <<sessions, drop, closing, fixed>>
<1>. DecidingTyped /\ OutsideTyped
  BY DEF TypeOK
<1>1. CASE LeavesQueue(d) \/ LimitRefuses(d) \/ LookupFailed(d) \/ Receives(d) \/ Proceeds(d) \/ TakesSpare(d)
  <2>1. UNCHANGED <<outside, sessions, drop, closing, fixed, gone, held, cleanup>>
    BY <1>1 DEF LeavesQueue, LimitRefuses, LookupFailed, Receives, Proceeds, TakesSpare, keyed, outside, fixed
  <2>2. /\ phase' \in [Decisions -> {"idle", "slot", "lookup", "cleaning", "replacing", "branching",
                                     "admitting", "turn", "disposing", "end"}]
        /\ told' \in [Decisions -> {"none", "pending", "answered", "unsent", "settled", "unsettled"}]
    BY <1>1 DEF LeavesQueue, LimitRefuses, LookupFailed, Receives, Proceeds, TakesSpare, Settle, DecidingTyped
  <2>3. branch' \in [Decisions -> Procs \cup {Nobody}]
    <3>1. <<"branch", d>> \in Procs
      BY DEF Procs
    <3>2. CASE TakesSpare(d)
      <4>1. held[d] \in Decisions
        BY <3>2 DEF TakesSpare, PhaseKnows, Knows, Forking, DecidingTyped
      <4>2. PICK s \in Decisions : s = held[d]
        BY <4>1
      <4>3. sess[s].spare \in Procs \cup {Nobody}
        BY DEF TypeOK, KeyedTyped
      <4> QED
        BY <3>1, <3>2, <4>2, <4>3 DEF TakesSpare, DecidingTyped
    <3> QED
      BY <1>1, <3>2 DEF LeavesQueue, LimitRefuses, LookupFailed, Receives, Proceeds, DecidingTyped
  <2> QED
    BY <2>1, <2>2, <2>3 DEF DecidingTyped, OutsideTyped, outside
<1>2. CASE GivesUp(d)
  <2>1. files' = files \/ files' = files \ {held[d]}
    BY <1>2 DEF GivesUp, ReleaseSession, Retire
  <2>2. DecidingTyped'
    BY <1>2 DEF GivesUp, Settle, DecidingTyped
  <2> QED
    BY <1>2, <2>1, <2>2 DEF GivesUp, OutsideTyped, fixed
<1>3. CASE StartsBranch(d) \/ Dispatches(d) \/ SendFails(d) \/ (BranchStarted(d) /\ proc[branch[d]] = "up")
  <2>1. proc' \in [Procs -> {"none", "up", "killed", "gone"}]
    <3>1. CASE StartsBranch(d)
      BY <3>1, StartedTyped DEF StartsBranch
    <3>2. CASE SendFails(d)
      BY <3>2, KilledTyped DEF SendFails
    <3>3. CASE Dispatches(d) \/ (BranchStarted(d) /\ proc[branch[d]] = "up")
      BY <3>3 DEF Dispatches, BranchStarted, OutsideTyped
    <3> QED
      BY <1>3, <3>1, <3>2, <3>3
  <2>2. DecidingTyped' /\ UNCHANGED <<files, sessions, drop, closing, fixed>>
    BY <1>3 DEF StartsBranch, Dispatches, SendFails, BranchStarted, DecidingTyped, keyed, fixed
  <2>3. turn' \in [Decisions -> {"none", "running", "over"}]
    BY <1>3 DEF StartsBranch, Dispatches, SendFails, BranchStarted, OutsideTyped
  <2> QED
    BY <2>1, <2>2, <2>3 DEF OutsideTyped
<1>4. CASE CleaningFails(d) \/ (BranchStarted(d) /\ proc[branch[d]] # "up") \/ AdmissionRefused(d)
           \/ Reports(d) \/ ResultComes(d, "answered") \/ ResultComes(d, "settled")
  <2>1. PICK what \in {"unsent", "settled", "unsettled", "answered"} : Finish(d, what)
    BY <1>4 DEF CleaningFails, BranchStarted, AdmissionRefused, Reports, ResultComes
  <2>2. UNCHANGED <<gone, branch, turn, sessions, drop, closing, fixed>>
    BY <1>4 DEF CleaningFails, BranchStarted, AdmissionRefused, Reports, ResultComes, fixed
  <2> QED
    BY <2>1, <2>2, FinishTyped
<1> QED
  BY <1>1, <1>2, <1>3, <1>4 DEF Handlers

\* What a drop, an install or a lookup leaves in the map.
DropTyped ==
    /\ sessions \in [Keys -> Decisions \cup {Nobody}]
    /\ drop \in [Decisions -> [at : {"none", "cleanup", "spare", "end"}, on : Decisions \cup {Nobody},
                               by : Tasks \cup Droppers \cup {Nobody}]]

LEMMA BeginTyped ==
    ASSUME TypeOK, NEW s \in Decisions, NEW by \in Tasks \cup Droppers, BeginDrop(s, by)
    PROVE  DropTyped'
<1>. MapTyped
  BY MapsTyped
<1>1. sess[s].cleanup \in Decisions \cup {Nobody}
  BY DEF MapTyped, SessTyped
<1> QED
  BY <1>1 DEF BeginDrop, OutOfMap, MapTyped, DropTyped

LEMMA LookupTyped ==
    ASSUME TypeOK, SessionsRight, ActiveRuns, NEW d \in Decisions, Lookup(d)
    PROVE  /\ DecidingTyped' /\ OutsideTyped' /\ DropTyped'
           /\ UNCHANGED <<phase, told, gone, branch, cleanup, turn, closing, fixed>>
<1>. DecidingTyped /\ OutsideTyped /\ MapTyped /\ Nobody \notin Decisions /\ d \in Tasks
  BY MapsTyped, NobodyElse DEF TypeOK
<1>1. UNCHANGED <<phase, told, gone, branch, cleanup, turn, closing, fixed>>
  BY DEF Lookup, LookupFails, LookupFinds, LookupDrops, MakesRoom, Primes, PrimerCompletes, Primed,
    PrimeFails, deciding, outside, fixed
<1>2. DecidingTyped'
  BY <1>1, LookupSessions DEF DecidingTyped
<1>3. OutsideTyped'
  <2>1. files' \subseteq files \cup {d}
    BY DEF Lookup, LookupFails, LookupFinds, LookupDrops, MakesRoom, Primes, PrimerCompletes, Primed,
      PrimeFails, outside
  <2>2. proc' = proc \/ (\E p : proc' = Started(p)) \/ (\E ps : proc' = Killed(ps))
    BY DEF Lookup, LookupFails, LookupFinds, LookupDrops, MakesRoom, Primes, PrimerCompletes, Primed,
      PrimeFails, outside
  <2> QED
    BY <1>1, <2>1, <2>2, StartedTyped, KilledTyped DEF OutsideTyped
<1>4. DropTyped'
  <2>1. CASE LookupFails(d) \/ LookupFinds(d) \/ PrimerCompletes(d) \/ PrimeFails(d)
    BY <2>1 DEF LookupFails, LookupFinds, PrimerCompletes, PrimeFails, MapTyped, DropTyped
  <2>2. CASE LookupDrops(d)
    BY <2>2, BeginTyped DEF LookupDrops, MapTyped, DropTyped
  <2>3. CASE MakesRoom(d)
    BY <2>3, BeginTyped DEF MakesRoom, Idle, InMap
  <2>4. ASSUME Install(d) PROVE DropTyped'
    BY <2>4 DEF Install, MapTyped, DropTyped, Droppers
  <2>5. CASE Primes(d) \/ Primed(d)
    BY <2>4, <2>5 DEF Primes, Primed, MapTyped, DropTyped
  <2> QED
    BY <2>1, <2>2, <2>3, <2>5 DEF Lookup
<1> QED
  BY <1>1, <1>2, <1>3, <1>4

LEMMA BackgroundTyped ==
    ASSUME TypeOK, Background
    PROVE  /\ DecidingTyped' /\ OutsideTyped' /\ DropTyped'
           /\ closing' \in {"open", "disposing", "dropping", "closed"}
           /\ UNCHANGED <<phase, told, gone, held, branch, turn, fixed>>
<1>. DecidingTyped /\ OutsideTyped /\ MapTyped /\ Nobody \notin Decisions /\ Evicts \subseteq Tasks
  BY MapsTyped, NobodyElse DEF TypeOK
<1>1. /\ UNCHANGED <<phase, told, gone, held, branch, turn, fixed>>
      /\ closing' \in {"open", "disposing", "dropping", "closed"}
  BY DEF Background, EvictRuns, DropTakesSpare, DropEnds, CleanupRefills, CleanupEnds, CloseDrops, CloseEnds,
    deciding, outside, fixed, TypeOK
<1>2. DecidingTyped'
  <2>1. \/ cleanup' = cleanup
        \/ \E d \in Decisions : cleanup' = [cleanup EXCEPT ![d].at = "starting"]
        \/ \E d \in Decisions : cleanup' = [cleanup EXCEPT ![d] = [at |-> "end", of |-> Nobody]]
    BY DEF Background, EvictRuns, DropTakesSpare, DropEnds, CleanupRefills, CleanupEnds, CloseDrops, CloseEnds,
      deciding
  <2> QED
    BY <1>1, <2>1 DEF DecidingTyped
<1>3. OutsideTyped'
  <2>1. files' \subseteq files
    BY DEF Background, EvictRuns, DropTakesSpare, DropEnds, CleanupRefills, CleanupEnds, CloseDrops, CloseEnds,
      outside, Retire
  <2>2. proc' = proc \/ (\E p : proc' = Started(p)) \/ (\E ps : proc' = Killed(ps))
    BY DEF Background, EvictRuns, DropTakesSpare, DropEnds, CleanupRefills, CleanupEnds, CloseDrops, CloseEnds,
      outside
  <2> QED
    BY <1>1, <2>1, <2>2, StartedTyped, KilledTyped DEF OutsideTyped
<1>4. DropTyped'
  <2>1. ASSUME NEW e \in Evicts, EvictRuns(e) PROVE DropTyped'
    BY <2>1, BeginTyped DEF EvictRuns, MapTyped, DropTyped
  <2>2. ASSUME NEW s \in Decisions, DropTakesSpare(s) \/ DropEnds(s) PROVE DropTyped'
    BY <2>2 DEF DropTakesSpare, DropEnds, OutOfMap, MapTyped, DropTyped
  <2>3. ASSUME NEW d \in Decisions, CleanupRefills(d) \/ CleanupEnds(d) PROVE DropTyped'
    BY <2>3 DEF CleanupRefills, CleanupEnds, MapTyped, DropTyped
  <2>4. CASE CloseDrops
    <3>1. \A s \in Decisions : sess[s].cleanup \in Decisions \cup {Nobody}
      BY DEF MapTyped, SessTyped
    <3> QED
      BY <2>4, <3>1 DEF CloseDrops, MapTyped, DropTyped, Droppers
  <2>5. CASE CloseEnds
    BY <2>5 DEF CloseEnds, MapTyped, DropTyped
  <2> QED
    BY <2>1, <2>2, <2>3, <2>4, <2>5 DEF Background
<1> QED
  BY <1>1, <1>2, <1>3, <1>4

LEMMA EventsTyped ==
    ASSUME TypeOK, Events
    PROVE  /\ DecidingTyped' /\ OutsideTyped' /\ DropTyped'
           /\ closing' \in {"open", "disposing", "dropping", "closed"}
           /\ UNCHANGED <<held, branch, cleanup, files, fixed>>
<1>. DecidingTyped /\ OutsideTyped /\ MapTyped /\ Nobody \notin Decisions
  BY MapsTyped, NobodyElse DEF TypeOK
<1>1. /\ UNCHANGED <<held, branch, cleanup, files, fixed>>
      /\ closing' \in {"open", "disposing", "dropping", "closed"}
  BY DEF Events, Decide, GoesAway, TurnEnds, EvictIdle, Evict, ProcExits, Close, deciding, outside, fixed, TypeOK
<1>2. DecidingTyped'
  <2>1. ASSUME NEW d \in Decisions, Decide(d) \/ GoesAway(d) PROVE DecidingTyped'
    BY <1>1, <2>1 DEF Decide, GoesAway, DecidingTyped
  <2>2. ASSUME NEW d \in Decisions, TurnEnds(d) \/ EvictIdle(d) PROVE DecidingTyped'
    BY <1>1, <2>2 DEF TurnEnds, EvictIdle, DecidingTyped, deciding
  <2>3. ASSUME (\E e \in Evicts : Evict(e)) \/ (\E p \in Procs : ProcExits(p)) PROVE DecidingTyped'
    BY <1>1, <2>3 DEF Evict, ProcExits, DecidingTyped, deciding
  <2>4. CASE Close
    BY <1>1, <2>4 DEF Close, DecidingTyped
  <2> QED
    BY <2>1, <2>2, <2>3, <2>4 DEF Events
<1>3. OutsideTyped'
  <2>1. \/ proc' = proc \/ proc' = Killed(Procs)
        \/ \E p \in Procs : proc' = [proc EXCEPT ![p] = "gone"]
    BY DEF Events, Decide, GoesAway, TurnEnds, EvictIdle, Evict, ProcExits, Close, outside
  <2>2. \/ turn' = turn \/ \E d \in Decisions : turn' = [turn EXCEPT ![d] = "over"]
    BY DEF Events, Decide, GoesAway, TurnEnds, EvictIdle, Evict, ProcExits, Close, outside
  <2> QED
    BY <1>1, <2>1, <2>2, KilledTyped DEF OutsideTyped
<1>4. DropTyped'
  <2>1. ASSUME NEW s \in Decisions, EvictIdle(s) PROVE DropTyped'
    BY <2>1, BeginTyped DEF EvictIdle, Droppers
  <2>2. CASE UNCHANGED <<sessions, drop>>
    BY <2>2 DEF MapTyped, DropTyped
  <2> QED
    BY <2>1, <2>2 DEF Events, Decide, GoesAway, TurnEnds, Evict, ProcExits, Close, keyed
<1> QED
  BY <1>1, <1>2, <1>3, <1>4

----------------------------------------------------------------------------
(* What a step says of the decisions it does not move                       *)

Kept(e) ==
    /\ phase'[e] = phase[e] /\ told'[e] = told[e] /\ branch'[e] = branch[e]
    /\ grant'[e] = "waiting" => grant[e] = "waiting"
    /\ task[e] = "none" => task'[e] = "none"
    /\ held'[e] = held[e] \/ (held'[e] # Nobody /\ phase[e] = "lookup")
    /\ cleanup[e].at = "none" => cleanup'[e].at = "none"
    /\ turn[e] = "none" => turn'[e] = "none"
    /\ turn[e] = "over" => turn'[e] = "over"

LEMMA KnowsKept == ASSUME NEW e \in Decisions, Knows(e), Kept(e) PROVE Knows(e)'
  BY DEF Knows, Kept, Forking

\* Nobody begins to wait for a slot when one is released or left.
LEMMA GrantKept ==
    ASSUME SlotsTypeOK, NEW d \in Decisions, Release(d) \/ Leave(d) \/ UNCHANGED slots
    PROVE  \A e \in Decisions : grant'[e] = "waiting" => grant[e] = "waiting" /\ (e = d => UNCHANGED slots)
  BY DEF SlotsTypeOK, Release, Leave, slots, Decisions

\* A process that did not start has not, and one that is gone is gone.
Quiet(p) ==
    /\ proc[p] = "none" => proc'[p] = "none"
    /\ proc'[p] = "up" => proc[p] = "up"
    /\ proc[p] = "gone" => proc'[p] = "gone"

LEMMA KilledQuiet ==
    ASSUME TypeOK, NEW ps, proc' = Killed(ps)
    PROVE  \A p \in Procs : Quiet(p) /\ (p \in ps => proc'[p] # "up")
  BY DEF TypeOK, OutsideTyped, Killed, Quiet

LEMMA StartedQuiet ==
    ASSUME TypeOK, NEW q \in Procs, proc[q] = "none", proc' = Started(q)
    PROVE  \A p \in Procs : (p # q => Quiet(p)) /\ (proc[p] = "gone" => proc'[p] = "gone")
  BY DEF TypeOK, OutsideTyped, Started, Quiet

Early == {"none", "queued", "dropping", "room"}
Steady(e) ==
    /\ phase'[e] = phase[e] /\ branch'[e] = branch[e] /\ cleanup'[e] = cleanup[e]
    /\ task'[e] \in Early => task[e] \in Early
    /\ Quiet(<<"base", e>>) /\ Quiet(<<"branch", e>>) /\ Quiet(<<"spare", e>>)

LEMMA StartsSteady ==
    ASSUME NEW e \in Decisions, Starts(e), Steady(e),
           closed' => closed \/ \A p \in Procs : proc'[p] # "up"
    PROVE  Starts(e)'
<1>. <<"base", e>> \in Procs /\ <<"branch", e>> \in Procs /\ <<"spare", e>> \in Procs
  BY DEF Procs
<1> QED
  BY DEF Starts, Steady, Quiet, Early

Tells(e) ==
    /\ told[e] \in {"answered", "settled"} => turn[e] = "over" \/ proc[branch[e]] = "gone"
    /\ told[e] = "unsent" => turn[e] = "none"

LEMMA TellsKept ==
    ASSUME TypeOK, NEW e \in Decisions, Knows(e), Tells(e), Kept(e),
           \A p \in Procs : proc[p] = "gone" => proc'[p] = "gone"
    PROVE  Tells(e)'
<1>1. told[e] \in {"answered", "settled"} => branch[e] \in Procs
  BY DEF Knows, TypeOK, DecidingTyped
<1> QED
  BY <1>1 DEF Tells, Kept

----------------------------------------------------------------------------
(* Where the decisions are, step by step                                    *)

LEMMA FinishKeeps ==
    ASSUME TypeOK, SlotsConserved, PhaseKnows, StartedOnce, ToldTruly, NEW d \in Decisions,
           NEW what \in {"unsent", "settled", "unsettled", "answered"}, Finish(d, what),
           phase[d] \in Forking, UNCHANGED <<branch, turn, task, closing>>,
           proc[<<"branch", d>>] = "up" => branch[d] = <<"branch", d>>,
           what = "unsent" => turn[d] = "none",
           what # "unsent" => branch[d] # Nobody,
           what \in {"answered", "settled"} => turn[d] = "over" \/ proc[branch[d]] = "gone"
    PROVE  PhaseKnows' /\ StartedOnce' /\ ToldTruly'
<1>. DecidingTyped /\ OutsideTyped /\ SlotsTypeOK /\ Knows(d) /\ Starts(d) /\ held[d] # Nobody
  BY DEF TypeOK, PhaseKnows, StartedOnce, Knows
<1>1. /\ \A e \in Decisions : grant'[e] = "waiting" => grant[e] = "waiting" /\ e # d
      /\ grant[d] = "held"
  BY DEF Finish, Settle, Release, Decisions, SlotsTypeOK
<1>2. \A p \in Procs : Quiet(p) /\ (p = branch[d] => proc'[p] # "up")
  BY KilledQuiet DEF Finish
<1>3. /\ \A e \in Decisions : phase'[e] = IF e = d THEN "end" ELSE phase[e]
      /\ \A e \in Decisions : told'[e] = IF e = d THEN what ELSE told[e]
      /\ \A e \in Decisions : held'[e] = IF e = d THEN Nobody ELSE held[e]
      /\ \A e \in Decisions \ {d} : cleanup'[e] = cleanup[e]
      /\ cleanup'[d] = [at |-> "disposing", of |-> held[d]]
      /\ cleanup[d].at = "none"
  BY DEF Finish, Settle, DecidingTyped, Knows, Forking
<1>4. \A e \in Decisions : <<"base", e>> \in Procs /\ <<"branch", e>> \in Procs /\ <<"spare", e>> \in Procs
  BY DEF Procs
<1>5. \A e \in Decisions \ {d} : Kept(e) /\ Steady(e)
  BY <1>1, <1>2, <1>3, <1>4 DEF Kept, Steady
<1>6. Knows(d)'
  BY <1>1, <1>3 DEF Knows, Forking
<1>7. Starts(d)'
  BY <1>2, <1>3, <1>4 DEF Starts, Quiet, Forking, closed, Early
<1>8. Tells(d)'
  <2>1. proc[branch[d]] = "gone" /\ branch[d] \in Procs => proc'[branch[d]] = "gone"
    BY <1>2 DEF Quiet
  <2>2. branch[d] # Nobody => branch[d] \in Procs
    BY DEF DecidingTyped
  <2> QED
    BY <1>3, <2>1, <2>2 DEF Tells
<1> QED
  BY <1>2, <1>5, <1>6, <1>7, <1>8, KnowsKept, StartsSteady, TellsKept
    DEF PhaseKnows, StartedOnce, ToldTruly, Tells, Quiet, closed

LEMMA HandlersKeep ==
    ASSUME TypeOK, SlotsConserved, PhaseKnows, StartedOnce, ToldTruly, NEW d \in Decisions, Handlers(d)
    PROVE  PhaseKnows' /\ StartedOnce' /\ ToldTruly'
<1>. /\ DecidingTyped /\ OutsideTyped /\ SlotsTypeOK /\ Knows(d) /\ Starts(d) /\ Tells(d)
     /\ task \in [Tasks -> {"none", "queued", "dropping", "room", "priming", "primed", "refusing", "end"}]
     /\ d \in Tasks /\ Decisions \subseteq Tasks
  BY NobodyElse DEF TypeOK, KeyedTyped, PhaseKnows, StartedOnce, Knows, ToldTruly, Tells
<1>0. \A e \in Decisions : <<"base", e>> \in Procs /\ <<"branch", e>> \in Procs /\ <<"spare", e>> \in Procs
  BY DEF Procs
<1>1. CASE LeavesQueue(d) \/ LimitRefuses(d) \/ LookupFailed(d) \/ GivesUp(d)
           \/ (Proceeds(d) /\ (closed \/ d \in gone))
  <2>1. /\ phase' = [phase EXCEPT ![d] = "end"] /\ told' = [told EXCEPT ![d] = "unsent"]
        /\ Release(d) \/ Leave(d)
        /\ UNCHANGED <<branch, turn, task, proc, closing, cleanup>>
        /\ \A e \in Decisions \ {d} : held'[e] = held[e]
        /\ phase[d] \in {"slot", "lookup"} /\ held'[d] = Nobody
    BY <1>1 DEF LeavesQueue, LimitRefuses, LookupFailed, GivesUp, Proceeds, Settle, keyed, outside,
      DecidingTyped, Knows, Forking
  <2>2. \A e \in Decisions : grant'[e] = "waiting" => grant[e] = "waiting" /\ e # d
    BY <2>1 DEF Release, Leave, Decisions, SlotsTypeOK
  <2>3. \A e \in Decisions \ {d} : Kept(e) /\ Steady(e)
    BY <2>1, <2>2 DEF Kept, Steady, Quiet, DecidingTyped
  <2>4. Knows(d)' /\ Starts(d)' /\ Tells(d)'
    BY <2>1, <2>2 DEF Knows, Starts, Tells, Forking, DecidingTyped, closed
  <2> QED
    BY <2>1, <2>3, <2>4, KnowsKept, StartsSteady, TellsKept
      DEF PhaseKnows, StartedOnce, ToldTruly, Tells, closed
<1>2. CASE \/ Proceeds(d) /\ ~(closed \/ d \in gone)
           \/ Receives(d) \/ TakesSpare(d) \/ Dispatches(d) \/ SendFails(d)
           \/ (BranchStarted(d) /\ proc[branch[d]] = "up")
  <2>1. /\ UNCHANGED <<slots, told, held, cleanup, closing>>
        /\ proc' = proc \/ proc' = Killed({branch[d]})
        /\ \A e \in Decisions \ {d} : phase'[e] = phase[e] /\ branch'[e] = branch[e] /\ turn'[e] = turn[e]
                                      /\ task'[e] = task[e]
    BY <1>2 DEF Proceeds, Receives, TakesSpare, Dispatches, SendFails, BranchStarted, Queued, keyed, outside,
      DecidingTyped, OutsideTyped
  <2>2. \A p \in Procs : Quiet(p) /\ (proc' # proc /\ p = branch[d] => proc'[p] # "up")
    BY <2>1, KilledQuiet DEF Quiet
  <2>3. \A e \in Decisions \ {d} : Kept(e) /\ Steady(e)
    BY <1>0, <2>1, <2>2 DEF Kept, Steady, slots
  <2>4. UNCHANGED <<grant, told, held, cleanup, closing>> /\ (closed' <=> closed) /\ <<"branch", d>> # Nobody
    BY <1>0, <2>1, NobodyElse DEF slots, closed
  <2>5. ASSUME Proceeds(d) /\ ~(closed \/ d \in gone) PROVE Knows(d)' /\ Starts(d)' /\ Tells(d)'
    <3>1. /\ phase[d] = "slot" /\ phase'[d] = "lookup" /\ UNCHANGED <<branch, turn, proc>> /\ grant[d] = "held"
          /\ task'[d] = "queued" /\ task[d] = "none"
      BY <2>5 DEF Proceeds, Queued, DecidingTyped, Knows, outside
    <3> QED
      BY <2>4, <3>1 DEF Knows, Starts, Tells, Forking
  <2>6. ASSUME Receives(d) PROVE Knows(d)' /\ Starts(d)' /\ Tells(d)'
    <3>1. /\ phase[d] = "lookup" /\ phase'[d] = "cleaning" /\ UNCHANGED <<branch, turn, proc, task>> /\ held[d] # Nobody
      BY <2>6 DEF Receives, DecidingTyped, outside, keyed
    <3> QED
      BY <2>4, <3>1 DEF Knows, Starts, Tells, Forking
  <2>7. ASSUME TakesSpare(d) PROVE Knows(d)' /\ Starts(d)' /\ Tells(d)'
    <3>1. UNCHANGED <<task, turn, proc>> /\ phase[d] = "cleaning"
          /\ \/ phase'[d] = "admitting" /\ branch'[d] # Nobody
             \/ phase'[d] = "replacing" /\ branch'[d] = <<"branch", d>>
      BY <2>7, <2>4 DEF TakesSpare, outside, DecidingTyped
    <3>2. proc[<<"branch", d>>] = "none"
      BY <3>1 DEF Starts
    <3>3. Knows(d)' /\ Tells(d)'
      BY <2>4, <3>1 DEF Knows, Tells, Forking
    <3>4. Starts(d)'
      BY <2>4, <3>1, <3>2 DEF Starts
    <3> QED
      BY <3>3, <3>4
  <2>8. ASSUME Dispatches(d) \/ (BranchStarted(d) /\ proc[branch[d]] = "up") PROVE Knows(d)' /\ Starts(d)' /\ Tells(d)'
    <3>1. ASSUME Dispatches(d) PROVE Knows(d)' /\ Starts(d)' /\ Tells(d)'
      <4>1. /\ UNCHANGED <<task, branch, proc>> /\ phase[d] = "admitting" /\ phase'[d] = "turn"
        BY <3>1 DEF Dispatches, keyed, DecidingTyped
      <4> QED
        BY <2>4, <4>1 DEF Knows, Starts, Tells, Forking
    <3>2. ASSUME BranchStarted(d) /\ proc[branch[d]] = "up" PROVE Knows(d)' /\ Starts(d)' /\ Tells(d)'
      <4>1. /\ UNCHANGED <<task, branch, proc, turn>> /\ phase[d] = "branching" /\ phase'[d] = "admitting"
        BY <3>2 DEF BranchStarted, DecidingTyped
      <4>2. branch[d] = <<"branch", d>>
        BY <4>1 DEF Knows
      <4> QED
        BY <2>4, <4>1, <4>2 DEF Knows, Starts, Tells, Forking
    <3> QED
      BY <2>8, <3>1, <3>2
  <2>9. ASSUME SendFails(d) PROVE Knows(d)' /\ Starts(d)' /\ Tells(d)'
    <3>1. /\ UNCHANGED <<task, branch, turn>> /\ phase[d] = "turn" /\ phase'[d] = "disposing"
          /\ proc' = Killed({branch[d]})
      BY <2>9 DEF SendFails, keyed, DecidingTyped
    <3>2. \A p \in Procs : Quiet(p) /\ (p = branch[d] => proc'[p] # "up")
      BY <3>1, KilledQuiet
    <3>3. Knows(d)' /\ Tells(d)'
      BY <2>4, <3>1 DEF Knows, Tells, Forking
    <3>4. Starts(d)'
      BY <1>0, <2>4, <3>1, <3>2 DEF Starts, Quiet
    <3> QED
      BY <3>3, <3>4
  <2>10. Knows(d)' /\ Starts(d)' /\ Tells(d)'
    BY <1>2, <2>5, <2>6, <2>7, <2>8, <2>9
  <2> QED
    BY <2>1, <2>2, <2>3, <2>10, KnowsKept, StartsSteady, TellsKept
      DEF PhaseKnows, StartedOnce, ToldTruly, Tells, closed, Quiet
<1>3. CASE StartsBranch(d)
  <2>1. /\ UNCHANGED <<slots, told, held, cleanup, closing, branch, task, turn>>
        /\ phase[d] = "replacing" /\ phase' = [phase EXCEPT ![d] = "branching"]
        /\ proc[<<"branch", d>>] = "none" /\ proc' = Started(<<"branch", d>>)
    BY <1>3 DEF StartsBranch, keyed, Starts
  <2>2. \A p \in Procs : (p # <<"branch", d>> => Quiet(p)) /\ (proc[p] = "gone" => proc'[p] = "gone")
    BY <1>0, <2>1, StartedQuiet
  <2>3. \A e \in Decisions \ {d} : Kept(e) /\ Steady(e)
    BY <1>0, <2>1, <2>2 DEF Kept, Steady, slots, DecidingTyped
  <2>4. Knows(d)' /\ Starts(d)' /\ Tells(d)'
    BY <1>0, <2>1, <2>2 DEF Knows, Starts, Tells, Forking, closed, Quiet, slots, DecidingTyped
  <2> QED
    BY <2>1, <2>2, <2>3, <2>4, KnowsKept, StartsSteady, TellsKept
      DEF PhaseKnows, StartedOnce, ToldTruly, Tells, closed
<1>4. CASE CleaningFails(d) \/ AdmissionRefused(d) \/ (BranchStarted(d) /\ proc[branch[d]] # "up")
  <2>1. /\ Finish(d, "unsent") /\ UNCHANGED <<branch, turn, task, closing>>
        /\ phase[d] \in {"cleaning", "admitting", "branching"}
    BY <1>4 DEF CleaningFails, AdmissionRefused, BranchStarted
  <2> QED
    BY <2>1, FinishKeeps DEF Forking, Knows, Starts
<1>5. CASE Reports(d)
  <2>1. PICK what \in {"settled", "unsettled"} :
           Finish(d, what) /\ (what = "settled" => turn[d] = "over" \/ proc[branch[d]] = "gone")
    BY <1>5 DEF Reports
  <2>2. UNCHANGED <<branch, turn, task, closing>> /\ phase[d] = "disposing"
    BY <1>5 DEF Reports
  <2> QED
    BY <2>1, <2>2, FinishKeeps DEF Forking, Knows, Starts
<1>6. ASSUME NEW what \in {"answered", "settled"}, ResultComes(d, what)
      PROVE  PhaseKnows' /\ StartedOnce' /\ ToldTruly'
  BY <1>6, FinishKeeps DEF ResultComes, Forking, Knows, Starts
<1> QED
  BY <1>1, <1>2, <1>3, <1>4, <1>5, <1>6 DEF Handlers, BranchStarted

\* What runs beside the decisions moves none of them.
LEMMA BesideKeeps ==
    ASSUME TypeOK, PhaseKnows, StartedOnce, ToldTruly,
           UNCHANGED <<phase, told, branch, turn, slots>>, closed' => closed,
           NEW d \in Decisions, \A e \in Decisions \ {d} : Kept(e) /\ Steady(e),
           Kept(d), Starts(d)', \A p \in Procs : proc[p] = "gone" => proc'[p] = "gone"
    PROVE  PhaseKnows' /\ StartedOnce' /\ ToldTruly'
<1>1. \A e \in Decisions : Kept(e)
  OBVIOUS
<1>2. PhaseKnows'
  BY <1>1, KnowsKept DEF PhaseKnows
<1>3. StartedOnce'
  BY StartsSteady DEF StartedOnce
<1>4. ToldTruly'
  BY <1>1, TellsKept DEF ToldTruly, Tells, PhaseKnows
<1> QED
  BY <1>2, <1>3, <1>4

LEMMA LookupKeeps ==
    ASSUME TypeOK, SessionsRight, ActiveRuns, PhaseKnows, StartedOnce, ToldTruly, NEW d \in Decisions, Lookup(d)
    PROVE  PhaseKnows' /\ StartedOnce' /\ ToldTruly'
<1>. /\ DecidingTyped /\ OutsideTyped /\ Knows(d) /\ Starts(d)
     /\ task \in [Tasks -> {"none", "queued", "dropping", "room", "priming", "primed", "refusing", "end"}]
     /\ d \in Tasks /\ Decisions \subseteq Tasks /\ Nobody \notin Decisions
  BY NobodyElse DEF TypeOK, KeyedTyped, PhaseKnows, StartedOnce
<1>0. \A e \in Decisions : <<"base", e>> \in Procs /\ <<"branch", e>> \in Procs /\ <<"spare", e>> \in Procs
  BY DEF Procs
<1>1. UNCHANGED <<phase, told, branch, cleanup, turn, slots, closing>> /\ (closed' <=> closed)
  BY DEF Lookup, LookupFails, LookupFinds, LookupDrops, MakesRoom, Primes, PrimerCompletes, Primed,
    PrimeFails, deciding, outside, closed
<1>2. \A e \in Tasks \ {d} : task'[e] = task[e]
  BY DEF Lookup, LookupFails, LookupFinds, LookupDrops, MakesRoom, Primes, PrimerCompletes, Primed,
    PrimeFails, Install, TaskEnds
<1>3. \A e \in Decisions : held'[e] = held[e] \/ (held'[e] # Nobody /\ phase[e] = "lookup")
  <2>1. CASE LookupFails(d) \/ LookupDrops(d) \/ MakesRoom(d) \/ PrimerCompletes(d) \/ PrimeFails(d)
    BY <2>1 DEF LookupFails, LookupDrops, MakesRoom, PrimerCompletes, PrimeFails, deciding
  <2>2. CASE LookupFinds(d)
    <3>1. PICK s : s # Nobody /\ held' = [held EXCEPT ![d] = s] /\ phase[d] = "lookup"
      BY <2>2 DEF LookupFinds, Take, Abandoned
    <3> QED
      BY <3>1 DEF DecidingTyped
  <2>3. CASE Primes(d) \/ Primed(d)
    <3>1. held' = held \/ (held' = [held EXCEPT ![d] = d] /\ phase[d] = "lookup")
      BY <2>3 DEF Primes, Primed, Install, Abandoned
    <3> QED
      BY <3>1 DEF DecidingTyped
  <2> QED
    BY <2>1, <2>2, <2>3 DEF Lookup
<1>4. /\ task[d] \in {"queued", "room", "priming", "primed"}
      /\ task'[d] # "none" /\ (task'[d] \in Early => task[d] \in Early)
  BY DEF Lookup, LookupFails, LookupFinds, LookupDrops, MakesRoom, Primes, PrimerCompletes, Primed,
    PrimeFails, Install, TaskEnds, Early
<1>5. \/ proc' = proc \/ proc' = Killed({<<"base", d>>})
      \/ /\ proc' = Started(<<"base", d>>) /\ task[d] = "room" /\ task'[d] = "priming" /\ ~closed
  BY DEF Lookup, LookupFails, LookupFinds, LookupDrops, MakesRoom, Primes, PrimerCompletes, Primed,
    PrimeFails, outside
<1>6. /\ \A p \in Procs : p # <<"base", d>> => Quiet(p)
      /\ \A p \in Procs : proc[p] = "gone" => proc'[p] = "gone"
      /\ Quiet(<<"base", d>>) \/ (task'[d] = "priming" /\ ~closed)
  <2>1. CASE proc' = proc \/ proc' = Killed({<<"base", d>>})
    <3>1. \A p \in Procs : Quiet(p)
      BY <2>1, KilledQuiet DEF Quiet
    <3> QED
      BY <1>0, <3>1 DEF Quiet
  <2>2. CASE proc' = Started(<<"base", d>>) /\ task[d] = "room" /\ task'[d] = "priming" /\ ~closed
    <3>1. proc[<<"base", d>>] = "none"
      BY <2>2 DEF Starts
    <3> QED
      BY <1>0, <2>2, <3>1, StartedQuiet
  <2> QED
    BY <1>5, <2>1, <2>2
<1>7. \A e \in Decisions : Kept(e)
  BY <1>1, <1>2, <1>3, <1>4 DEF Kept, slots
<1>8. \A e \in Decisions \ {d} : Steady(e)
  BY <1>0, <1>1, <1>2, <1>6 DEF Steady
<1>9. Starts(d)'
  <2>1. Quiet(<<"branch", d>>) /\ Quiet(<<"spare", d>>)
    BY <1>0, <1>6
  <2>2. CASE Quiet(<<"base", d>>)
    BY <1>1, <1>4, <2>1, <2>2 DEF Starts, Quiet, Early
  <2>3. CASE task'[d] = "priming" /\ ~closed
    BY <1>1, <2>1, <2>3 DEF Starts, Quiet
  <2> QED
    BY <1>6, <2>2, <2>3
<1> QED
  BY <1>1, <1>6, <1>7, <1>8, <1>9, BesideKeeps

LEMMA BackgroundKeeps ==
    ASSUME TypeOK, SessionsRight, PhaseKnows, StartedOnce, ToldTruly, Background
    PROVE  PhaseKnows' /\ StartedOnce' /\ ToldTruly'
<1>. /\ DecidingTyped /\ OutsideTyped /\ MapTyped
     /\ Decisions \subseteq Tasks /\ Nobody \notin Decisions /\ Evicts \cap Decisions = {} /\ Evicts \subseteq Tasks
  BY MapsTyped, NobodyElse DEF TypeOK
<1>0. \A e \in Decisions : <<"base", e>> \in Procs /\ <<"branch", e>> \in Procs /\ <<"spare", e>> \in Procs
  BY DEF Procs
<1>1. UNCHANGED <<phase, told, held, branch, turn, slots>> /\ (closed' => closed)
  BY DEF Background, EvictRuns, DropTakesSpare, DropEnds, CleanupRefills, CleanupEnds, CloseDrops, CloseEnds,
    deciding, outside, closed
<1>2. ASSUME NEW d \in Decisions, CleanupRefills(d) \/ CleanupEnds(d)
      PROVE  PhaseKnows' /\ StartedOnce' /\ ToldTruly'
  <2>0. Starts(d) /\ cleanup[d].at # "none"
    BY <1>2 DEF StartedOnce, CleanupRefills, CleanupEnds
  <2>1. /\ \A e \in Decisions \ {d} : cleanup'[e] = cleanup[e]
        /\ UNCHANGED task /\ (closed' <=> closed)
        /\ cleanup'[d].at \in {"starting", "end"} /\ (cleanup'[d].at = "starting" => cleanup'[d].of # Nobody)
    BY <1>2, <2>0 DEF CleanupRefills, CleanupEnds, DecidingTyped, closed, outside, Starts
  <2>2. proc' = proc \/ (proc' = Started(<<"spare", d>>) /\ cleanup[d].at = "disposing" /\ ~closed)
    BY <1>2 DEF CleanupRefills, CleanupEnds, outside, Refills
  <2>3. /\ \A p \in Procs : p # <<"spare", d>> => Quiet(p)
        /\ \A p \in Procs : proc[p] = "gone" => proc'[p] = "gone"
        /\ Quiet(<<"spare", d>>) \/ ~closed
    <3>1. CASE proc' = proc
      BY <3>1 DEF Quiet
    <3>2. CASE proc' = Started(<<"spare", d>>) /\ cleanup[d].at = "disposing" /\ ~closed
      <4>1. proc[<<"spare", d>>] = "none"
        BY <2>0, <3>2 DEF Starts
      <4> QED
        BY <1>0, <3>2, <4>1, StartedQuiet
    <3> QED
      BY <2>2, <3>1, <3>2
  <2>4. \A e \in Decisions : Kept(e)
    BY <1>1, <2>0, <2>1 DEF Kept, slots
  <2>5. \A e \in Decisions \ {d} : Steady(e)
    BY <1>0, <1>1, <2>1, <2>3 DEF Steady
  <2>6. Starts(d)'
    <3>1. Quiet(<<"branch", d>>) /\ Quiet(<<"base", d>>)
      BY <1>0, <2>3
    <3> QED
      BY <1>1, <2>0, <2>1, <2>3, <3>1 DEF Starts, Quiet
  <2> QED
    BY <1>1, <2>3, <2>4, <2>5, <2>6, BesideKeeps
<1>3. ASSUME UNCHANGED cleanup, \A p \in Procs : Quiet(p),
             \A e \in Decisions : task'[e] = task[e] \/ (task[e] # "none" /\ task'[e] # "none"
                                                         /\ (task'[e] \in Early => task[e] \in Early))
      PROVE  PhaseKnows' /\ StartedOnce' /\ ToldTruly'
  <2>1. \A e \in Decisions : Kept(e) /\ Steady(e)
    BY <1>0, <1>1, <1>3 DEF Kept, Steady, slots
  <2> QED
    BY <1>1, <1>3, <2>1, KnowsKept, StartsSteady, TellsKept DEF PhaseKnows, StartedOnce, ToldTruly, Tells, Quiet
<1>4. ASSUME NEW e \in Evicts, EvictRuns(e) PROVE PhaseKnows' /\ StartedOnce' /\ ToldTruly'
  <2>1. UNCHANGED <<cleanup, proc>> /\ \A d \in Decisions : task'[d] = task[d]
    BY <1>4 DEF EvictRuns, TaskEnds, deciding, outside, MapTyped
  <2> QED
    BY <1>3, <2>1 DEF Quiet
<1>5. ASSUME NEW s \in Decisions, DropTakesSpare(s) PROVE PhaseKnows' /\ StartedOnce' /\ ToldTruly'
  <2>1. UNCHANGED <<cleanup, task>> /\ \A p \in Procs : Quiet(p)
    BY <1>5, KilledQuiet DEF DropTakesSpare, deciding
  <2> QED
    BY <1>3, <2>1
<1>6. ASSUME NEW s \in Decisions, DropEnds(s) PROVE PhaseKnows' /\ StartedOnce' /\ ToldTruly'
  <2>1. GoesOn(s) /\ UNCHANGED <<cleanup, proc>>
    BY <1>6, DropEndsEffect DEF DropEnds, deciding
  <2>2. drop[s].by \in Tasks => task[drop[s].by] = "dropping"
    BY DEF SessionsRight, DropsRight, Drops
  <2>3. \A e \in Decisions : task'[e] = task[e] \/ (task[e] # "none" /\ task'[e] # "none"
                                                   /\ (task'[e] \in Early => task[e] \in Early))
    BY <2>1, <2>2 DEF GoesOn, Goes, Early
  <2> QED
    BY <1>3, <2>1, <2>3 DEF Quiet
<1>7. CASE CloseDrops \/ CloseEnds
  <2>1. UNCHANGED <<cleanup, task, proc>>
    BY <1>7 DEF CloseDrops, CloseEnds, deciding, outside
  <2> QED
    BY <1>3, <2>1 DEF Quiet
<1> QED
  BY <1>2, <1>4, <1>5, <1>6, <1>7 DEF Background

LEMMA EventsKeep ==
    ASSUME TypeOK, PhaseKnows, StartedOnce, ToldTruly, Events
    PROVE  PhaseKnows' /\ StartedOnce' /\ ToldTruly'
<1>. /\ DecidingTyped /\ OutsideTyped /\ MapTyped /\ SlotsTypeOK
     /\ Decisions \subseteq Tasks /\ Evicts \cap Decisions = {} /\ Evicts \subseteq Tasks
  BY MapsTyped, NobodyElse DEF TypeOK
<1>0. \A e \in Decisions : <<"base", e>> \in Procs /\ <<"branch", e>> \in Procs /\ <<"spare", e>> \in Procs
  BY DEF Procs
<1>1. ASSUME NEW d \in Decisions, Decide(d) PROVE PhaseKnows' /\ StartedOnce' /\ ToldTruly'
  <2>. Knows(d) /\ Starts(d) /\ Tells(d)
    BY DEF PhaseKnows, StartedOnce, ToldTruly, Tells
  <2>1. /\ UNCHANGED <<held, branch, cleanup, task, proc, turn, closing>> /\ phase[d] = "idle"
        /\ \A e \in Decisions \ {d} : phase'[e] = phase[e] /\ told'[e] = told[e] /\ grant'[e] = grant[e]
        /\ \/ phase'[d] = "end" /\ told'[d] = "unsent" /\ grant'[d] = grant[d]
           \/ phase'[d] = "slot" /\ told'[d] = "pending"
    BY <1>1 DEF Decide, Acquire, keyed, outside, slots, DecidingTyped, SlotsTypeOK, Decisions
  <2>2. \A e \in Decisions \ {d} : Kept(e) /\ Steady(e)
    BY <2>1 DEF Kept, Steady, Quiet
  <2>3. Knows(d)' /\ Starts(d)' /\ Tells(d)'
    BY <2>1 DEF Knows, Starts, Tells, Forking, closed
  <2> QED
    BY <2>1, <2>2, <2>3, KnowsKept, StartsSteady, TellsKept
      DEF PhaseKnows, StartedOnce, ToldTruly, Tells, closed
<1>2. ASSUME UNCHANGED <<phase, told, held, branch, cleanup, grant>>, closed' => closed,
             \A d \in Decisions : task'[d] = task[d],
             \A d \in Decisions : turn'[d] = turn[d] \/ (turn[d] = "running" /\ turn'[d] = "over"),
             \A p \in Procs : Quiet(p)
      PROVE  PhaseKnows' /\ StartedOnce' /\ ToldTruly'
  <2>1. \A e \in Decisions : Kept(e) /\ Steady(e)
    BY <1>0, <1>2 DEF Kept, Steady
  <2> QED
    BY <1>2, <2>1, KnowsKept, StartsSteady, TellsKept DEF PhaseKnows, StartedOnce, ToldTruly, Tells, Quiet
<1>3. ASSUME NEW d \in Decisions, GoesAway(d) \/ EvictIdle(d) PROVE PhaseKnows' /\ StartedOnce' /\ ToldTruly'
  BY <1>2, <1>3 DEF GoesAway, EvictIdle, deciding, keyed, outside, slots, Quiet, closed
<1>4. ASSUME NEW e \in Evicts, Evict(e) PROVE PhaseKnows' /\ StartedOnce' /\ ToldTruly'
  <2>1. \A d \in Decisions : task'[d] = task[d]
    BY <1>4 DEF Evict, Queued, MapTyped
  <2> QED
    BY <1>2, <1>4, <2>1 DEF Evict, deciding, outside, slots, Quiet, closed
<1>5. ASSUME NEW d \in Decisions, TurnEnds(d) PROVE PhaseKnows' /\ StartedOnce' /\ ToldTruly'
  <2>1. \A e \in Decisions : turn'[e] = turn[e] \/ (turn[e] = "running" /\ turn'[e] = "over")
    BY <1>5 DEF TurnEnds, OutsideTyped
  <2> QED
    BY <1>2, <1>5, <2>1 DEF TurnEnds, deciding, keyed, slots, Quiet, closed
<1>6. ASSUME NEW p \in Procs, ProcExits(p) PROVE PhaseKnows' /\ StartedOnce' /\ ToldTruly'
  <2>1. \A q \in Procs : Quiet(q)
    BY <1>6 DEF ProcExits, OutsideTyped, Quiet
  <2> QED
    BY <1>2, <1>6, <2>1 DEF ProcExits, deciding, keyed, slots, closed
<1>7. CASE Close
  <2>1. /\ UNCHANGED <<held, branch, cleanup, task, turn>> /\ closed'
        /\ \A e \in Decisions : grant'[e] # "waiting"
        /\ \A e \in Decisions : IF grant[e] = "waiting" THEN phase'[e] = "end" /\ told'[e] = "unsent"
                                ELSE phase'[e] = phase[e] /\ told'[e] = told[e]
    BY <1>7 DEF Close, Drain, keyed, closed, Decisions
  <2>2. \A p \in Procs : Quiet(p) /\ proc'[p] # "up"
    BY <1>7, KilledQuiet DEF Close
  <2>3. ASSUME NEW e \in Decisions PROVE Knows(e)' /\ Starts(e)' /\ Tells(e)'
    <3>. Knows(e) /\ Starts(e) /\ Tells(e) /\ <<"base", e>> \in Procs /\ <<"branch", e>> \in Procs /\ <<"spare", e>> \in Procs
      BY <1>0 DEF PhaseKnows, StartedOnce, ToldTruly, Tells
    <3>1. CASE grant[e] # "waiting"
      <4>1. Kept(e) /\ Steady(e)
        BY <2>1, <2>2, <3>1 DEF Kept, Steady
      <4> QED
        BY <2>2, <4>1, KnowsKept, StartsSteady, TellsKept DEF Quiet
    <3>2. CASE grant[e] = "waiting"
      <4>1. phase[e] = "slot" /\ phase'[e] = "end" /\ told'[e] = "unsent"
        BY <2>1, <3>2 DEF Knows
      <4>2. Knows(e)' /\ Tells(e)'
        BY <2>1, <4>1 DEF Knows, Tells, Forking
      <4>3. Starts(e)'
        BY <2>1, <2>2, <4>1 DEF Starts, Quiet
      <4> QED
        BY <4>2, <4>3
    <3> QED
      BY <3>1, <3>2
  <2> QED
    BY <2>3 DEF PhaseKnows, StartedOnce, ToldTruly, Tells
<1> QED
  BY <1>1, <1>3, <1>4, <1>5, <1>6, <1>7 DEF Events

----------------------------------------------------------------------------
(* The invariant, and what it says                                          *)

LEMMA InitInductive == Init => Inductive
<1> SUFFICES ASSUME Init PROVE Inductive
  OBVIOUS
<1>. Nobody \notin Decisions /\ Nobody \notin Tasks /\ Decisions \subseteq Tasks
  BY NobodyElse
<1>1. SlotsTypeOK /\ SlotsConserved
  BY SlotsInitInv DEF Init, SlotsInv
<1>2. DecidingTyped /\ OutsideTyped
  BY DEF Init, DecidingTyped, OutsideTyped
<1>3. KeyedTyped
  <2>1. \A k \in Keys : queue[k] \in Seq(Tasks)
    BY EmptySeq DEF Init
  <2> QED
    BY <2>1 DEF Init, KeyedTyped
<1>4. TypeOK
  BY <1>1, <1>2, <1>3 DEF Init, TypeOK
<1>5. PhaseKnows /\ StartedOnce /\ ToldTruly
  <2>1. \A d \in Decisions : <<"base", d>> \in Procs /\ <<"branch", d>> \in Procs /\ <<"spare", d>> \in Procs
    BY DEF Procs
  <2>2. \A d \in Decisions : grant[d] = "none"
    BY DEF Init, SlotsInit, Decisions
  <2> QED
    BY <2>1, <2>2 DEF Init, PhaseKnows, Knows, StartedOnce, Starts, ToldTruly, Forking, closed
<1>6. QueueRight /\ ActiveRuns
  <2>1. \A k \in Keys : Len(queue[k]) = 0
    BY DEF Init
  <2> QED
    BY <2>1 DEF Init, QueueRight, ActiveRuns, Active
<1>7. RoomEmpty /\ MapRight /\ HeldRight /\ FilesUsed /\ EmptyClosed
  BY DEF Init, RoomEmpty, MapRight, HeldRight, FilesUsed, EmptyClosed, Active
<1>8. DropsRight
  BY NobodyElse DEF Init, DropsRight, Drops, Droppers
<1>9. Counted
  <2>1. ASSUME NEW s \in Decisions PROVE Holding(s) = {} /\ sess[s].inUse = 0
    BY DEF Init, Holding
  <2> QED
    BY <2>1, FS_EmptySet DEF Counted
<1> QED
  BY <1>1, <1>4, <1>5, <1>6, <1>7, <1>8, <1>9 DEF Inductive, SessionsRight

LEMMA SlotsKept ==
    ASSUME TypeOK, SlotsConserved, [Next]_vars
    PROVE  SlotsTypeOK' /\ SlotsConserved'
  BY HostSteps, SlotsInvStep DEF SlotsInv, TypeOK

LEMMA NextInductive == ASSUME Inductive, Next PROVE Inductive'
<1>. /\ TypeOK /\ SlotsConserved /\ PhaseKnows /\ StartedOnce /\ QueueRight /\ ActiveRuns
     /\ SessionsRight /\ ToldTruly /\ DropsRight /\ SessTyped(sess)
  BY MapsTyped DEF Inductive, SessionsRight, MapTyped
<1>1. SlotsTypeOK' /\ SlotsConserved' /\ TaskMoves
  BY SlotsKept, TasksMove
<1>2. /\ SessionsRight' /\ SessTyped(sess') /\ DecidingTyped' /\ OutsideTyped' /\ DropTyped' /\ UNCHANGED fixed
      /\ closing' \in {"open", "disposing", "dropping", "closed"} /\ PhaseKnows' /\ StartedOnce' /\ ToldTruly'
  <2>0. DropTyped /\ closing \in {"open", "disposing", "dropping", "closed"}
    BY DEF TypeOK, KeyedTyped, DropTyped
  <2>1. ASSUME NEW d \in Decisions, Handlers(d) PROVE <1>2!:
    <3>1. DropTyped' /\ closing' \in {"open", "disposing", "dropping", "closed"}
      BY <2>0, <2>1, HandlersTyped DEF DropTyped
    <3> QED
      BY <2>1, <3>1, HandlersSessions, HandlersTyped, HandlersKeep
  <2>2. ASSUME NEW d \in Decisions, Lookup(d) PROVE <1>2!:
    BY <2>0, <2>2, LookupSessions, LookupTyped, LookupKeeps
  <2>3. CASE Background
    BY <2>3, BackgroundSessions, BackgroundTyped, BackgroundKeeps
  <2>4. CASE Events
    BY <2>4, EventsSessions, EventsTyped, EventsKeep
  <2> QED
    BY <2>1, <2>2, <2>3, <2>4 DEF Next
<1>3. QueueRight' /\ ActiveRuns'
  BY <1>1, <1>2, QueueStep
<1>4. TypeOK'
  <2>1. KeyedTyped'
    BY <1>1, <1>2, QueuesTyped DEF KeyedTyped, DropTyped, SessTyped
  <2> QED
    BY <1>1, <1>2, <2>1 DEF TypeOK, fixed
<1> QED
  BY <1>1, <1>2, <1>3, <1>4 DEF Inductive

LEMMA StutterInductive == ASSUME Inductive, UNCHANGED vars PROVE Inductive'
<1>. UNCHANGED <<slots, deciding, keyed, outside, closing, fixed>>
  BY DEF vars
<1>1. TypeOK' /\ SlotsConserved'
  BY DEF Inductive, TypeOK, SlotsTypeOK, SlotsConserved, Held, DecidingTyped, KeyedTyped, OutsideTyped,
    slots, deciding, keyed, outside, fixed
<1>2. PhaseKnows' /\ StartedOnce' /\ ToldTruly' /\ QueueRight' /\ ActiveRuns'
  BY DEF Inductive, PhaseKnows, Knows, StartedOnce, Starts, ToldTruly, QueueRight, ActiveRuns, Runs, Key, closed,
    slots, deciding, keyed, outside, fixed
<1>3. SessionsRight'
  <2>1. SessionsSame
    BY DEF SessionsSame, RefsSame, StaleSame, deciding, keyed, outside
  <2> QED
    BY <2>1, QuietStep DEF Inductive, keyed, closed
<1> QED
  BY <1>1, <1>2, <1>3 DEF Inductive

\* Each of its parts needs the others: who is suspended where, which queue runs what, whose
\* session is in the map, being dropped, stale or referred to.
THEOREM Invariance == Spec => []Inductive
<1>1. Inductive /\ [Next]_vars => Inductive'
  BY NextInductive, StutterInductive
<1> QED
  BY <1>1, InitInductive, PTL DEF Spec

\* The variables of the host have their types, whatever fails and whoever closes it.
THEOREM HostTyped == Spec => []TypeOK
<1>1. Inductive => TypeOK
  BY DEF Inductive
<1> QED
  BY <1>1, Invariance, PTL

\* While the host is open the session of a decision that has not sent keeps its transcript,
\* whatever drops it; a transcript without a session in the map has a drop, a primer or a
\* last decision that will remove it; and the reference counts are those of the decisions
\* (_drop, _retire, _release): for any number of decisions, keys and contexts.
THEOREM TranscriptsKept == Spec => []TranscriptsHeld
<1>1. Inductive => TranscriptsHeld
  BY DEF Inductive, SessionsRight, HeldRight, FilesUsed, Counted, TranscriptsHeld
<1> QED
  BY <1>1, Invariance, PTL

\* No caller hears that its turn is settled while the turn may go on, or that it was not
\* dispatched when it was (_decide, DecisionError).
THEOREM CallersToldTruly == Spec => []ToldTruly
<1>1. Inductive => ToldTruly
  BY DEF Inductive
<1> QED
  BY <1>1, Invariance, PTL

\* After close(), when what was under way is over, no process is up and no transcript is
\* left, even of a primer that finished late (close(), the closed checks of _prime and of the
\* cleanup).
THEOREM NothingLeft == Spec => []ClosedClean
<1>1. ASSUME Inductive PROVE ClosedClean
  <2> SUFFICES ASSUME closing = "closed",
                      \A d \in Decisions : phase[d] \in {"idle", "end"} /\ cleanup[d].at \in {"none", "end"},
                      \A x \in Tasks : task[x] \in {"none", "end"},
                      \A s \in Decisions : ~Dropped(s)
               PROVE  files = {} /\ \A p \in Procs : proc[p] # "up"
    BY DEF ClosedClean
  <2>. Decisions \subseteq Tasks /\ Nobody \notin Decisions /\ MapTyped /\ files \subseteq Decisions
    BY <1>1, MapsTyped, NobodyElse DEF Inductive, MapTyped
  <2>1. \A d \in Decisions : held[d] = Nobody
    BY <1>1 DEF Inductive, PhaseKnows, Knows, Forking
  <2>2. InMap = {}
    BY <1>1 DEF Inductive, SessionsRight, EmptyClosed, InMap, MapTyped
  <2>3. files = {}
    BY <1>1, <2>1, <2>2 DEF Inductive, SessionsRight, FilesUsed, Holding
  <2>4. \A d \in Decisions : /\ proc[<<"base", d>>] # "up" /\ proc[<<"spare", d>>] # "up"
                             /\ proc[<<"branch", d>>] # "up"
    BY <1>1 DEF Inductive, StartedOnce, Starts, closed
  <2>5. ASSUME NEW p \in Procs PROVE proc[p] # "up"
    <3>1. PICK k \in {"base", "branch", "spare"}, d \in Decisions : p = <<k, d>>
      BY DEF Procs
    <3> QED
      BY <2>4, <3>1
  <2> QED
    BY <2>3, <2>5
<1> QED
  BY <1>1, Invariance, PTL

----------------------------------------------------------------------------
(* The limits of one instance                                               *)

\* What the runtime said of a block is still known, and nothing was said before the
\* first snapshot: a sparse update may then replace, later it merges.
BlockKnown ==
    /\ said = "blocked" => blocked = "blocked"
    /\ ~observed => said # "blocked"

LEMMA MergeKeeps ==
    ASSUME BlockKnown, NEW ws, NEW u, NEW l, NEW b \in Flag,
           IF observed THEN Merge(ws, u, l, b) ELSE Replace(u, l, b),
           said' = IF b = "unsaid" THEN said ELSE b
    PROVE  BlockKnown'
<1>1. CASE observed
  BY <1>1 DEF BlockKnown, Merge, Flag
<1>2. CASE ~observed
  BY <1>2 DEF BlockKnown, Replace, Flag
<1> QED
  BY <1>1, <1>2

LEMMA BlockKept == LimitsSpec => []BlockKnown
<1>1. LimitsInit => BlockKnown
  BY DEF LimitsInit, BlockKnown
<1>2. ASSUME BlockKnown, [LimitsNext]_instanceVars PROVE BlockKnown'
  <2>1. CASE Streamed
    BY <1>2, <2>1, MergeKeeps DEF Streamed
  <2>2. CASE RateLimited
    BY <2>2 DEF RateLimited, Merge, Replace, BlockKnown
  <2>3. CASE PollAnswers
    BY <2>3 DEF PollAnswers, Replace, BlockKnown
  <2>4. CASE PollBegins \/ PollEmpty \/ PollFails \/ OtherFailure \/ Succeeded
    BY <1>2, <2>4 DEF PollBegins, PollEmpty, PollFails, OtherFailure, Succeeded, BlockKnown, limits
  <2>5. CASE Tick
    BY <1>2, <2>5 DEF Tick, BlockKnown
  <2>6. CASE UNCHANGED instanceVars
    BY <1>2, <2>6 DEF instanceVars, limits, BlockKnown
  <2> QED
    BY <1>2, <2>1, <2>2, <2>3, <2>4, <2>5, <2>6 DEF LimitsNext
<1> QED
  BY <1>1, <1>2, PTL DEF LimitsSpec

\* However updates, polls, failures, successes and time follow each other, an instance
\* whose runtime last said that it is blocked is not leased (mergeLimits, _blocked,
\* assessCandidate): a block whose full windows have reset is no longer a block, but
\* then its readings are stale or exhausted.
THEOREM BlockIsHonoured == LimitsSpec => []BlockedHonoured
<1>1. Leasable => Full = {} /\ ~BlockedNow
  BY DEF Leasable, Excluded
<1>2. BlockKnown => BlockedHonoured
  BY <1>1 DEF BlockKnown, BlockedHonoured, BlockedNow
<1> QED
  BY <1>2, BlockKept, PTL
=============================================================================
