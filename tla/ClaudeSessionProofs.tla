------------------------- MODULE ClaudeSessionProofs -------------------------
(***************************************************************************)
(* Proofs about ClaudeSession, for every number of sends and of processes, *)
(* with registrations, timeouts, gates and every fault: type correctness   *)
(* and OwnerHolds; what a turn's record says is what the CLI did with it   *)
(* (HonestOutcome, HonestNoSend); the session implements TurnOwnership;    *)
(* and one step alone forgets a caller (NobodyForgotten).                  *)
(***************************************************************************)
EXTENDS ClaudeSession, TLAPS

LocalOutcomes == {"none", "pending", "resolved"} \cup Failures

----------------------------------------------------------------------------
(* What the shared helpers of the actions do                                *)

\* Rejecting settles callers and nothing else.
LEMMA RejectedTyped ==
    ASSUME TypeOK, NEW why \in Failures
    PROVE  RejectedFor(why) \in [Turns -> LocalOutcomes]
BY DEF TypeOK, OwnershipTyped, RejectedFor, LocalOutcomes, Failures

LEMMA RejectInflightTyped ==
    ASSUME TypeOK, NEW why \in Failures, RejectInflight(why)
    PROVE  /\ local' \in [Turns -> LocalOutcomes]
           /\ queue' \in {queue, <<>>}
           /\ timer' \in Turns \cup {NoTurn}
BY RejectedTyped DEF TypeOK, OwnershipTyped, RejectInflight, LocalOutcomes

LEMMA RejectInflightAndQueueTyped ==
    ASSUME TypeOK, NEW why \in Failures, RejectInflightAndQueue(why)
    PROVE  /\ local' \in [Turns -> LocalOutcomes]
           /\ queue' \in {queue, <<>>}
           /\ timer' \in Turns \cup {NoTurn}
BY RejectedTyped DEF TypeOK, OwnershipTyped, RejectInflightAndQueue, LocalOutcomes

LEMMA RejectControlTyped ==
    ASSUME TypeOK
    PROVE  RejectControl \in [Procs -> {"off", "pending", "ok", "failed", "done"}]
BY DEF TypeOK, PendingTyped, RejectControl

LEMMA SettleMissingGivesBack ==
    ASSUME TypeOK, SettleMissing
    PROVE  /\ disp' \in [Turns -> {"not-dispatched", "attempted"}]
           /\ \A t \in Turns : disp'[t] \in {disp[t], "not-dispatched"}
BY DEF TypeOK, OwnershipTyped, SettleMissing, NoSend

\* The turn written becomes the owner, and the only one newly attempted.
LEMMA WriteTurnEffect ==
    ASSUME TypeOK, NEW t \in Turns, NEW rest \in Seq(Turns),
           NEW told \in [Turns -> LocalOutcomes], WriteTurn(t, rest, told)
    PROVE  /\ inflight' = t
           /\ disp' = [disp EXCEPT ![t] = "attempted"]
           /\ queue' \in {rest, <<>>}
           /\ timer' \in Turns \cup {NoTurn}
           /\ local' \in [Turns -> LocalOutcomes]
           /\ todo' \in [Procs -> Seq(Turns)]
<1>1. CASE /\ queue' = rest /\ local' = told
            /\ todo' = [todo EXCEPT ![proc] = Append(@, t)]
            /\ timer' = Armed(t)
  <2>1. todo' \in [Procs -> Seq(Turns)]
    <3>1. todo \in [Procs -> Seq(Turns)]
      BY DEF TypeOK, CliTyped
    <3>2. CASE proc \in Procs
      BY <1>1, <3>1, <3>2
    <3>3. CASE proc \notin Procs
      BY <1>1, <3>1, <3>3
    <3>. QED
      BY <3>2, <3>3
  <2>2. timer' \in Turns \cup {NoTurn}
    BY <1>1 DEF Armed
  <2>. QED
    BY <1>1, <2>1, <2>2 DEF WriteTurn
<1>2. CASE /\ queue' = <<>> /\ timer' = NoTurn
            /\ local' = [u \in Turns |-> IF u = t THEN "transport"
                                         ELSE IF u \in Elems(rest) THEN "blocked"
                                         ELSE told[u]]
            /\ UNCHANGED todo
  <2>1. todo' \in [Procs -> Seq(Turns)]
    BY <1>2 DEF TypeOK, CliTyped
  <2>2. local' \in [Turns -> LocalOutcomes]
    BY <1>2 DEF LocalOutcomes, Failures
  <2>. QED
    BY <1>2, <2>1, <2>2 DEF WriteTurn
<1>. QED
  BY <1>1, <1>2 DEF WriteTurn

LEMMA DispatchTurnEffect ==
    ASSUME TypeOK, NEW t \in Turns, NEW rest \in Seq(Turns),
           NEW told \in [Turns -> LocalOutcomes], NEW regs \in SUBSET Turns,
           DispatchTurn(t, rest, told, regs)
    PROVE  /\ inflight' = t
           /\ \/ /\ t \in Registered
                 /\ disp' = disp /\ registering' = regs \cup {t}
              \/ /\ t \notin Registered
                 /\ disp' = [disp EXCEPT ![t] = "attempted"] /\ registering' = regs
           /\ queue' \in {rest, <<>>}
           /\ timer' \in Turns \cup {NoTurn}
           /\ local' \in [Turns -> LocalOutcomes]
           /\ todo' \in [Procs -> Seq(Turns)]
BY WriteTurnEffect DEF TypeOK, OwnershipTyped, CliTyped, DispatchTurn

LEMMA ProcessNextTurnEffect ==
    ASSUME TypeOK, NEW told \in [Turns -> LocalOutcomes], NEW regs \in SUBSET Turns,
           ProcessNextTurn(told, regs)
    PROVE  /\ \/ /\ inflight' = NoTurn /\ queue' = queue
                 /\ disp' = disp /\ registering' = regs
              \/ /\ queue # <<>> /\ inflight' = Head(queue)
                 /\ queue' \in {Tail(queue), <<>>}
                 /\ \/ /\ Head(queue) \in Registered
                       /\ disp' = disp /\ registering' = regs \cup {Head(queue)}
                    \/ /\ Head(queue) \notin Registered
                       /\ disp' = [disp EXCEPT ![Head(queue)] = "attempted"]
                       /\ registering' = regs
           /\ timer' \in Turns \cup {NoTurn}
           /\ local' \in [Turns -> LocalOutcomes]
           /\ todo' \in [Procs -> Seq(Turns)]
<1>1. CASE queue # <<>> /\ alive
  <2>1. Head(queue) \in Turns /\ Tail(queue) \in Seq(Turns)
    BY <1>1 DEF TypeOK, OwnershipTyped
  <2>2. DispatchTurn(Head(queue), Tail(queue), told, regs)
    BY <1>1 DEF ProcessNextTurn
  <2>. QED
    BY <1>1, <2>1, <2>2, DispatchTurnEffect
<1>2. CASE ~(queue # <<>> /\ alive)
  BY <1>2 DEF ProcessNextTurn, TypeOK, OwnershipTyped, CliTyped
<1>. QED
  BY <1>1, <1>2

----------------------------------------------------------------------------
(* Type correctness, one step per action                                    *)

\* A part of the state an action leaves alone keeps its types.
LEMMA UnchangedTyped ==
    ASSUME TypeOK
    PROVE  /\ UNCHANGED session => SessionTyped'
           /\ UNCHANGED ownership => OwnershipTyped'
           /\ UNCHANGED pending => PendingTyped'
           /\ UNCHANGED cli => CliTyped'
<1>1. UNCHANGED session => SessionTyped'
  BY DEF TypeOK, SessionTyped, session
<1>2. UNCHANGED ownership => OwnershipTyped'
  BY DEF TypeOK, OwnershipTyped, ownership
<1>3. UNCHANGED pending => PendingTyped'
  BY DEF TypeOK, PendingTyped, pending
<1>4. UNCHANGED cli => CliTyped'
  BY DEF TypeOK, CliTyped, cli
<1>. QED
  BY <1>1, <1>2, <1>3, <1>4

\* Rejecting the in-flight turn or the queue keeps the ownership part typed.
LEMMA RejectionTyped ==
    ASSUME TypeOK, UNCHANGED <<inflight, native>>,
           disp' \in [Turns -> {"not-dispatched", "attempted"}],
           local' \in [Turns -> LocalOutcomes],
           queue' \in {queue, <<>>},
           timer' \in Turns \cup {NoTurn}
    PROVE  OwnershipTyped'
<1>1. queue' \in Seq(Turns)
  <2>1. queue \in Seq(Turns)
    BY DEF TypeOK, OwnershipTyped
  <2>2. <<>> \in Seq(Turns)
    OBVIOUS
  <2>. QED
    BY <2>1, <2>2
<1>2. inflight' \in Turns \cup {NoTurn}
  BY DEF TypeOK, OwnershipTyped
<1>3. native' \in [Turns -> {"unknown", "completed", "failed"}]
  BY DEF TypeOK, OwnershipTyped
<1>. QED
  BY <1>1, <1>2, <1>3 DEF OwnershipTyped, LocalOutcomes

LEMMA SpawnTyped ==
    ASSUME TypeOK, NEW t \in Turns \cup {NoTurn}, Spawn(t),
           UNCHANGED <<ext, stderr, seen, todo, pipe, fate, repeated>>
    PROVE  /\ SessionTyped'
           /\ CliTyped'
           /\ init' \in [Procs -> {"off", "pending", "ok", "failed", "done"}]
           /\ starter' \in [Procs -> Turns \cup {NoTurn}]
           /\ reader' \in [Procs -> {"off", "reading", "settling", "done"}]
           /\ exitw' \in [Procs -> {"off", "armed", "draining", "settling", "done"}]
<1>. USE SessionAssumption
<1>1. spawned + 1 \in Procs /\ spawned + 1 \in 0..MaxProcs /\ spawned + 1 \in 0..(MaxProcs + 1)
  BY DEF TypeOK, SessionTyped, Spawn, Procs
<1>2. SessionTyped'
  BY <1>1 DEF TypeOK, SessionTyped, Spawn
<1>3. sid' \in [Procs -> 0..(MaxProcs + 1)]
  BY <1>1 DEF TypeOK, SessionTyped, CliTyped, Spawn
<1>4. CliTyped'
  BY <1>1, <1>3 DEF TypeOK, CliTyped, Spawn
<1>. QED
  BY <1>1, <1>2, <1>4 DEF TypeOK, PendingTyped, Spawn

LEMMA CallerTyped ==
    ASSUME TypeOK, Caller
    PROVE  TypeOK'
<1>1. CASE Start
  BY <1>1, SpawnTyped, UnchangedTyped DEF TypeOK, Start, PendingTyped
<1>2. CASE Kill
  <2>1. /\ RejectedFor("killed") \in [Turns -> LocalOutcomes]
        /\ RejectControl \in [Procs -> {"off", "pending", "ok", "failed", "done"}]
    BY RejectedTyped, RejectControlTyped DEF Failures
  <2>2. OwnershipTyped'
    BY <1>2, <2>1, RejectionTyped DEF TypeOK, OwnershipTyped, Kill
  <2>3. SessionTyped'
    <3>1. alive' \in BOOLEAN /\ ended' \in BOOLEAN
      BY <1>2 DEF Kill
    <3>2. /\ proc' \in 0..MaxProcs
          /\ UNCHANGED <<spawned, ext, stderr, seen>>
      BY <1>2, SessionAssumption DEF Kill
    <3>. QED
      BY <3>1, <3>2 DEF TypeOK, SessionTyped
  <2>. QED
    BY <1>2, <2>1, <2>2, <2>3, UnchangedTyped DEF TypeOK, Kill, PendingTyped
<1>3. CASE Interrupt
  <2>1. OwnershipTyped'
    BY <1>3, RejectInflightTyped, RejectionTyped
    DEF TypeOK, OwnershipTyped, Interrupt, Failures
  <2>. QED
    BY <1>3, <2>1, UnchangedTyped DEF TypeOK, Interrupt
<1>4. ASSUME NEW t \in Turns, SendBlocked(t)
      PROVE  TypeOK'
  <2>1. OwnershipTyped'
    BY <1>4 DEF TypeOK, OwnershipTyped, SendBlocked, Failures
  <2>2. PendingTyped'
    BY <1>4 DEF TypeOK, PendingTyped, SendBlocked
  <2>. QED
    BY <1>4, <2>1, <2>2, UnchangedTyped DEF TypeOK, SendBlocked
<1>5. ASSUME NEW t \in Turns, SendRestarts(t)
      PROVE  TypeOK'
  BY <1>5, SpawnTyped, UnchangedTyped DEF TypeOK, SendRestarts, PendingTyped
<1>6. ASSUME NEW t \in Turns, SendEnters(t)
      PROVE  TypeOK'
  <2>1. PendingTyped'
    BY <1>6 DEF TypeOK, PendingTyped, SendEnters, Proceed
  <2>. QED
    BY <1>6, <2>1, UnchangedTyped DEF TypeOK, SendEnters
<1>. QED
  BY <1>1, <1>2, <1>3, <1>4, <1>5, <1>6 DEF Caller

\* The ownership part after a dispatch.
LEMMA DispatchTyped ==
    ASSUME TypeOK,
           inflight' \in Turns \cup {NoTurn},
           queue' \in Seq(Turns),
           timer' \in Turns \cup {NoTurn},
           local' \in [Turns -> LocalOutcomes],
           disp' \in [Turns -> {"not-dispatched", "attempted"}],
           native' \in [Turns -> {"unknown", "completed", "failed"}]
    PROVE  OwnershipTyped'
BY DEF OwnershipTyped, LocalOutcomes

LEMMA ProcessNextTurnTyped ==
    ASSUME TypeOK, NEW told \in [Turns -> LocalOutcomes], NEW regs \in SUBSET Turns,
           ProcessNextTurn(told, regs),
           native' \in [Turns -> {"unknown", "completed", "failed"}]
    PROVE  /\ OwnershipTyped'
           /\ registering' \subseteq Turns
           /\ todo' \in [Procs -> Seq(Turns)]
<1>1. queue \in Seq(Turns) /\ <<>> \in Seq(Turns)
  BY DEF TypeOK, OwnershipTyped
<1>2. queue # <<>> => Head(queue) \in Turns /\ Tail(queue) \in Seq(Turns)
  BY <1>1
<1>3. /\ inflight' \in Turns \cup {NoTurn}
      /\ queue' \in Seq(Turns)
      /\ registering' \subseteq Turns
  BY <1>1, <1>2, ProcessNextTurnEffect
<1>4. disp' \in [Turns -> {"not-dispatched", "attempted"}]
  BY <1>2, ProcessNextTurnEffect DEF TypeOK, OwnershipTyped
<1>. QED
  BY <1>3, <1>4, ProcessNextTurnEffect, DispatchTyped

LEMMA ContinuationsTyped ==
    ASSUME TypeOK, Continuations
    PROVE  TypeOK'
<1>1. ASSUME NEW p \in Procs, StartReturns(p)
      PROVE  TypeOK'
  <2>1. /\ RejectedFor("killed") \in [Turns -> LocalOutcomes]
        /\ RejectControl \in [Procs -> {"off", "pending", "ok", "failed", "done"}]
    BY RejectedTyped, RejectControlTyped DEF Failures
  <2>2. PendingTyped'
    <3>1. init' \in [Procs -> {"off", "pending", "ok", "failed", "done"}]
      BY <1>1, <2>1 DEF TypeOK, PendingTyped, StartReturns
    <3>2. send' \in [Turns -> {"idle", "starting", "hooks", "sent", "refused"}]
      BY <1>1 DEF TypeOK, PendingTyped, StartReturns, Proceed
    <3>. QED
      BY <1>1, <3>1, <3>2 DEF TypeOK, PendingTyped, StartReturns
  <2>3. OwnershipTyped'
    <3>1. local \in [Turns -> LocalOutcomes] /\ timer \in Turns \cup {NoTurn}
      BY DEF TypeOK, OwnershipTyped, LocalOutcomes
    <3>2. /\ local' \in [Turns -> LocalOutcomes]
          /\ queue' \in {queue, <<>>}
          /\ timer' \in Turns \cup {NoTurn}
      BY <1>1, <2>1, <3>1 DEF StartReturns
    <3>. QED
      BY <1>1, <3>2, RejectionTyped DEF TypeOK, OwnershipTyped, StartReturns
  <2>4. SessionTyped'
    <3>1. alive' \in BOOLEAN /\ ended' \in BOOLEAN
      BY <1>1 DEF TypeOK, SessionTyped, StartReturns
    <3>2. /\ proc' \in {proc, 0}
          /\ UNCHANGED <<spawned, ext, stderr, seen>>
      BY <1>1 DEF StartReturns
    <3>. QED
      BY <3>1, <3>2, SessionAssumption DEF TypeOK, SessionTyped
  <2>. QED
    BY <1>1, <2>2, <2>3, <2>4, UnchangedTyped DEF TypeOK, StartReturns
<1>2. ASSUME NEW p \in Procs, InitTimeout(p)
      PROVE  TypeOK'
  <2>1. PendingTyped'
    BY <1>2 DEF TypeOK, PendingTyped, InitTimeout
  <2>. QED
    BY <1>2, <2>1, UnchangedTyped DEF TypeOK, InitTimeout
<1>3. ASSUME NEW t \in Turns, HookThrows(t)
      PROVE  TypeOK'
  <2>1. PendingTyped'
    BY <1>3 DEF TypeOK, PendingTyped, HookThrows
  <2>. QED
    BY <1>3, <2>1, UnchangedTyped DEF TypeOK, HookThrows
<1>4. ASSUME NEW t \in Turns, SendAdmits(t)
      PROVE  TypeOK'
  <2>1. /\ local \in [Turns -> LocalOutcomes]
        /\ [local EXCEPT ![t] = "pending"] \in [Turns -> LocalOutcomes]
        /\ [local EXCEPT ![t] = "blocked"] \in [Turns -> LocalOutcomes]
    BY DEF TypeOK, OwnershipTyped, LocalOutcomes, Failures
  <2>2. /\ OwnershipTyped'
        /\ registering' \subseteq Turns
        /\ todo' \in [Procs -> Seq(Turns)]
    <3>1. CASE /\ local' = [local EXCEPT ![t] = "blocked"]
               /\ UNCHANGED <<inflight, queue, timer, disp, registering, todo>>
      BY <1>4, <2>1, <3>1, DispatchTyped
      DEF TypeOK, OwnershipTyped, PendingTyped, CliTyped, SendAdmits
    <3>2. CASE DispatchTurn(t, queue, [local EXCEPT ![t] = "pending"], registering)
      <4>1. queue \in Seq(Turns) /\ <<>> \in Seq(Turns) /\ registering \in SUBSET Turns
        BY DEF TypeOK, OwnershipTyped, PendingTyped
      <4>2. disp' \in [Turns -> {"not-dispatched", "attempted"}]
        BY <3>2, <4>1, <2>1, DispatchTurnEffect DEF TypeOK, OwnershipTyped
      <4>3. native' \in [Turns -> {"unknown", "completed", "failed"}]
        BY <1>4 DEF TypeOK, OwnershipTyped, SendAdmits
      <4>4. /\ inflight' \in Turns \cup {NoTurn}
            /\ queue' \in Seq(Turns)
            /\ timer' \in Turns \cup {NoTurn}
            /\ local' \in [Turns -> LocalOutcomes]
            /\ registering' \subseteq Turns
            /\ todo' \in [Procs -> Seq(Turns)]
        <5>1. /\ inflight' = t /\ queue' \in {queue, <<>>}
              /\ registering' \in {registering, registering \cup {t}}
              /\ timer' \in Turns \cup {NoTurn}
              /\ local' \in [Turns -> LocalOutcomes]
              /\ todo' \in [Procs -> Seq(Turns)]
          BY <3>2, <4>1, <2>1, DispatchTurnEffect
        <5>2. queue' \in Seq(Turns)
          BY <5>1, <4>1
        <5>. QED
          BY <5>1, <5>2, <4>1
      <4>. QED
        BY <4>2, <4>3, <4>4, DispatchTyped
    <3>3. CASE /\ queue' = Append(queue, t)
               /\ local' = [local EXCEPT ![t] = "pending"]
               /\ UNCHANGED <<inflight, timer, disp, registering, todo>>
      <4>1. queue' \in Seq(Turns)
        BY <3>3 DEF TypeOK, OwnershipTyped
      <4>. QED
        BY <1>4, <2>1, <3>3, <4>1, DispatchTyped
        DEF TypeOK, OwnershipTyped, PendingTyped, CliTyped, SendAdmits
    <3>. QED
      BY <1>4, <3>1, <3>2, <3>3 DEF SendAdmits
  <2>3. PendingTyped'
    BY <1>4, <2>2 DEF TypeOK, PendingTyped, SendAdmits
  <2>4. CliTyped'
    BY <1>4, <2>2 DEF TypeOK, CliTyped, SendAdmits
  <2>. QED
    BY <1>4, <2>2, <2>3, <2>4, UnchangedTyped DEF TypeOK, SendAdmits
<1>5. ASSUME NEW t \in Turns, RegistrationDone(t)
      PROVE  TypeOK'
  <2>1. /\ local \in [Turns -> LocalOutcomes]
        /\ queue \in Seq(Turns) /\ <<>> \in Seq(Turns)
        /\ registering \ {t} \in SUBSET Turns
        /\ native' \in [Turns -> {"unknown", "completed", "failed"}]
    BY <1>5 DEF TypeOK, OwnershipTyped, PendingTyped, LocalOutcomes, RegistrationDone
  <2>2. /\ OwnershipTyped'
        /\ registering' \subseteq Turns
        /\ todo' \in [Procs -> Seq(Turns)]
    <3>1. CASE WriteTurn(t, queue, local) /\ registering' = registering \ {t}
      <4>1. disp' \in [Turns -> {"not-dispatched", "attempted"}]
        BY <3>1, <2>1, WriteTurnEffect DEF TypeOK, OwnershipTyped
      <4>. QED
        BY <3>1, <4>1, <2>1, WriteTurnEffect, DispatchTyped
    <3>2. CASE ProcessNextTurn(local, registering \ {t})
      BY <3>2, <2>1, ProcessNextTurnTyped
    <3>3. CASE /\ registering' = registering \ {t}
               /\ UNCHANGED <<inflight, queue, timer, local, disp, todo>>
      BY <3>3, <2>1, DispatchTyped DEF TypeOK, OwnershipTyped, CliTyped
    <3>. QED
      BY <1>5, <3>1, <3>2, <3>3 DEF RegistrationDone
  <2>3. PendingTyped'
    BY <1>5, <2>2 DEF TypeOK, PendingTyped, RegistrationDone
  <2>4. CliTyped'
    BY <1>5, <2>2 DEF TypeOK, CliTyped, RegistrationDone
  <2>. QED
    BY <1>5, <2>2, <2>3, <2>4, UnchangedTyped DEF TypeOK, RegistrationDone
<1>6. ASSUME NEW t \in Turns, RegistrationFails(t)
      PROVE  TypeOK'
  <2>. DEFINE told == [local EXCEPT ![t] = IF @ = "pending" THEN "registration" ELSE @]
  <2>1. /\ told \in [Turns -> LocalOutcomes]
        /\ registering \ {t} \in SUBSET Turns
        /\ native' \in [Turns -> {"unknown", "completed", "failed"}]
    BY <1>6 DEF TypeOK, OwnershipTyped, PendingTyped, LocalOutcomes, Failures,
                RegistrationFails
  <2>2. /\ OwnershipTyped'
        /\ registering' \subseteq Turns
        /\ todo' \in [Procs -> Seq(Turns)]
    <3>1. CASE ProcessNextTurn(told, registering \ {t})
      BY <3>1, <2>1, ProcessNextTurnTyped
    <3>2. CASE /\ local' = told /\ registering' = registering \ {t}
               /\ UNCHANGED <<inflight, queue, timer, disp, todo>>
      BY <3>2, <2>1, DispatchTyped DEF TypeOK, OwnershipTyped, CliTyped
    <3>. QED
      BY <1>6, <3>1, <3>2 DEF RegistrationFails
  <2>3. PendingTyped'
    BY <1>6, <2>2 DEF TypeOK, PendingTyped, RegistrationFails
  <2>4. CliTyped'
    BY <1>6, <2>2 DEF TypeOK, CliTyped, RegistrationFails
  <2>. QED
    BY <1>6, <2>2, <2>3, <2>4, UnchangedTyped DEF TypeOK, RegistrationFails
<1>7. CASE TimerFires
  <2>1. /\ local' \in [Turns -> LocalOutcomes]
        /\ queue' \in {queue, <<>>}
        /\ timer' \in Turns \cup {NoTurn}
    BY <1>7, RejectInflightTyped DEF TypeOK, OwnershipTyped, TimerFires, Failures,
                                     LocalOutcomes
  <2>2. OwnershipTyped'
    BY <1>7, <2>1, RejectionTyped DEF TypeOK, OwnershipTyped, TimerFires
  <2>. QED
    BY <1>7, <2>2, UnchangedTyped DEF TypeOK, TimerFires
<1>. QED
  BY <1>1, <1>2, <1>3, <1>4, <1>5, <1>6, <1>7 DEF Continuations

\* Reading a line never leaves a turn with an outcome the session does not know.
LEMMA StreamsTyped ==
    ASSUME TypeOK, LinesAnswered, Streams
    PROVE  TypeOK'
<1>. SUFFICES ASSUME NEW p \in Procs,
                     \/ ReadDropped(p) \/ ReadControl(p) \/ ReadInit(p) \/ ReadUnowned(p)
                     \/ ReadResult(p) \/ ReadEof(p) \/ ReadSettles(p) \/ ReadError(p)
                     \/ ReadStderr(p)
                     \/ ExitNoticed(p) \/ ExitDrained(p) \/ ExitSettles(p)
              PROVE  TypeOK'
  BY DEF Streams
<1>1. ReadsFrom(p) => /\ pipe[p] \in Seq(Lines) /\ pipe[p] # <<>>
                      /\ Head(pipe[p]) \in Lines
                      /\ [pipe EXCEPT ![p] = Tail(@)] \in [Procs -> Seq(Lines)]
  BY DEF TypeOK, CliTyped, ReadsFrom
<1>2. ReadsFrom(p) /\ Pop(p) /\ UNCHANGED <<os, sid, refuses, fate, repeated>>
        /\ todo' \in [Procs -> Seq(Turns)] => CliTyped'
  BY <1>1 DEF TypeOK, CliTyped, Pop
<1>3. ReadsFrom(p) /\ Head(pipe[p]).kind = "result" => Head(pipe[p]).turn \in Answered
  BY <1>1 DEF LinesAnswered
<1>4. sid[p] \in 0..(MaxProcs + 1) /\ sid[p] \in Nat /\ todo \in [Procs -> Seq(Turns)]
  BY SessionAssumption DEF TypeOK, CliTyped
<1>5. CASE ReadDropped(p)
  BY <1>5, <1>2, <1>4, UnchangedTyped DEF TypeOK, ReadDropped
<1>6. CASE ReadControl(p)
  <2>1. PendingTyped'
    BY <1>6 DEF TypeOK, PendingTyped, ReadControl
  <2>. QED
    BY <1>6, <2>1, <1>2, <1>4, UnchangedTyped DEF TypeOK, ReadControl
<1>7. CASE ReadInit(p)
  <2>1. SessionTyped'
    BY <1>7, <1>4 DEF TypeOK, SessionTyped, OwnershipTyped, ReadInit
  <2>. QED
    BY <1>7, <2>1, <1>2, <1>4, UnchangedTyped DEF TypeOK, ReadInit
<1>8. CASE ReadUnowned(p)
  <2>1. Head(pipe[p]).turn \in Turns
    BY <1>8, <1>3 DEF ReadUnowned, Answered
  <2>2. SessionTyped'
    BY <1>8, <2>1, <1>4 DEF TypeOK, SessionTyped, ReadUnowned
  <2>. QED
    BY <1>8, <2>2, <1>2, <1>4, UnchangedTyped DEF TypeOK, ReadUnowned
<1>9. CASE ReadResult(p)
  <2>. DEFINE t == Head(pipe[p]).turn
              told == [local EXCEPT ![inflight] = IF @ = "pending" THEN "resolved" ELSE @]
  <2>1. t \in Turns /\ fate[t] \in {"completed", "failed", "unrecognized"}
    BY <1>9, <1>3 DEF ReadResult, Answered
  <2>2. SessionTyped'
    BY <1>9, <2>1, <1>4 DEF TypeOK, SessionTyped, ReadResult
  <2>3. /\ OwnershipTyped'
        /\ registering' \subseteq Turns
        /\ todo' \in [Procs -> Seq(Turns)]
    <3>1. CASE Recognized(fate[t])
      <4>1. /\ native' = [native EXCEPT ![inflight] = fate[t]]
            /\ ProcessNextTurn(told, registering)
        BY <1>9, <3>1 DEF ReadResult
      <4>2. native' \in [Turns -> {"unknown", "completed", "failed"}]
        BY <4>1, <3>1, <2>1 DEF TypeOK, OwnershipTyped, Recognized
      <4>3. told \in [Turns -> LocalOutcomes] /\ registering \in SUBSET Turns
        BY DEF TypeOK, OwnershipTyped, PendingTyped, LocalOutcomes
      <4>. QED
        BY <4>1, <4>2, <4>3, ProcessNextTurnTyped
    <3>2. CASE ~Recognized(fate[t])
      <4>1. /\ native' = [native EXCEPT ![inflight] = "unknown"]
            /\ RejectInflight("unrecognized-terminal")
            /\ UNCHANGED <<inflight, disp, registering, todo>>
        BY <1>9, <3>2 DEF ReadResult
      <4>2. /\ local' \in [Turns -> LocalOutcomes]
            /\ queue' \in {queue, <<>>}
            /\ timer' \in Turns \cup {NoTurn}
        BY <4>1, RejectInflightTyped DEF Failures
      <4>3. queue' \in Seq(Turns)
        <5>1. queue \in Seq(Turns) /\ <<>> \in Seq(Turns)
          BY DEF TypeOK, OwnershipTyped
        <5>. QED
          BY <4>2, <5>1
      <4>4. /\ native' \in [Turns -> {"unknown", "completed", "failed"}]
            /\ inflight' \in Turns \cup {NoTurn}
            /\ disp' \in [Turns -> {"not-dispatched", "attempted"}]
            /\ registering' \subseteq Turns
        BY <4>1 DEF TypeOK, OwnershipTyped, PendingTyped
      <4>. QED
        BY <4>1, <4>2, <4>3, <4>4, <1>4, DispatchTyped
    <3>. QED
      BY <3>1, <3>2
  <2>4. PendingTyped'
    BY <1>9, <2>3 DEF TypeOK, PendingTyped, ReadResult
  <2>. QED
    BY <1>9, <2>2, <2>3, <2>4, <1>2 DEF TypeOK, ReadResult
<1>10. CASE ReadEof(p)
  <2>1. PendingTyped'
    BY <1>10 DEF TypeOK, PendingTyped, ReadEof
  <2>. QED
    BY <1>10, <2>1, UnchangedTyped DEF TypeOK, ReadEof
<1>11. ASSUME SettleMissing \/ UNCHANGED disp, UNCHANGED <<inflight, native>>,
              RejectInflightAndQueue("transport") \/ UNCHANGED <<local, queue, timer>>
       PROVE  OwnershipTyped'
  <2>1. disp' \in [Turns -> {"not-dispatched", "attempted"}]
    BY <1>11, SettleMissingGivesBack DEF TypeOK, OwnershipTyped
  <2>2. /\ local' \in [Turns -> LocalOutcomes]
        /\ queue' \in {queue, <<>>}
        /\ timer' \in Turns \cup {NoTurn}
    BY <1>11, RejectInflightAndQueueTyped DEF TypeOK, OwnershipTyped, LocalOutcomes, Failures
  <2>. QED
    BY <1>11, <2>1, <2>2, RejectionTyped
<1>12. ASSUME alive' \in BOOLEAN, ended' \in BOOLEAN,
              UNCHANGED <<proc, spawned, ext, stderr, seen>>
       PROVE  SessionTyped'
  BY <1>12 DEF TypeOK, SessionTyped
<1>13. alive \in BOOLEAN /\ ended \in BOOLEAN
  BY DEF TypeOK, SessionTyped
<1>14. CASE ReadSettles(p)
  <2>1. PendingTyped'
    BY <1>14, RejectControlTyped DEF TypeOK, PendingTyped, ReadSettles, TransportFailure
  <2>2. SessionTyped'
    BY <1>14, <1>12 DEF ReadSettles, TransportFailure
  <2>3. OwnershipTyped'
    BY <1>14, <1>11 DEF ReadSettles, TransportFailure
  <2>. QED
    BY <1>14, <2>1, <2>2, <2>3, UnchangedTyped DEF TypeOK, ReadSettles
<1>15. CASE ReadError(p)
  <2>1. PendingTyped'
    BY <1>15, RejectControlTyped DEF TypeOK, PendingTyped, ReadError, TransportFailure
  <2>2. SessionTyped'
    BY <1>15, <1>12, <1>13 DEF ReadError, TransportFailure
  <2>3. OwnershipTyped'
    BY <1>15, <1>11 DEF ReadError, TransportFailure
  <2>. QED
    BY <1>15, <2>1, <2>2, <2>3, UnchangedTyped DEF TypeOK, ReadError
<1>16. CASE ReadStderr(p)
  <2>1. SessionTyped'
    BY <1>16, <1>4 DEF TypeOK, SessionTyped, ReadStderr
  <2>. QED
    BY <1>16, <2>1, UnchangedTyped DEF TypeOK, ReadStderr
<1>17. CASE ExitNoticed(p)
  <2>1. PendingTyped'
    BY <1>17 DEF TypeOK, PendingTyped, ExitNoticed
  <2>2. SessionTyped'
    BY <1>17, <1>12, <1>13 DEF ExitNoticed
  <2>. QED
    BY <1>17, <2>1, <2>2, UnchangedTyped DEF TypeOK, ExitNoticed
<1>18. CASE ExitDrained(p)
  <2>1. PendingTyped'
    BY <1>18 DEF TypeOK, PendingTyped, ExitDrained
  <2>. QED
    BY <1>18, <2>1, UnchangedTyped DEF TypeOK, ExitDrained
<1>19. CASE ExitSettles(p)
  <2>1. PendingTyped'
    BY <1>19, RejectControlTyped DEF TypeOK, PendingTyped, ExitSettles
  <2>2. SessionTyped'
    BY <1>19, <1>12, <1>13 DEF ExitSettles
  <2>3. OwnershipTyped'
    BY <1>19, <1>11 DEF ExitSettles
  <2>. QED
    BY <1>19, <2>1, <2>2, <2>3, UnchangedTyped DEF TypeOK, ExitSettles
<1>. QED
  BY <1>5, <1>6, <1>7, <1>8, <1>9, <1>10, <1>14, <1>15, <1>16, <1>17, <1>18, <1>19

LEMMA EmitTyped ==
    ASSUME TypeOK, NEW p \in Procs, NEW kind \in {"control", "init", "result"},
           NEW t \in Turns \cup {NoTurn}, Emit(p, kind, t)
    PROVE  pipe' \in [Procs -> Seq(Lines)]
<1>1. [kind |-> kind, turn |-> t] \in Lines
  BY DEF Lines
<1>. QED
  BY <1>1 DEF TypeOK, CliTyped, Emit

LEMMA CliStepTyped ==
    ASSUME TypeOK, LinesAnswered, Cli
    PROVE  TypeOK'
<1>1. UNCHANGED session /\ UNCHANGED ownership /\ UNCHANGED pending
  BY DEF Cli, CliAnswersInit, CliTakesTurn, CliAnswers, CliRepeats, CliClosesOutput, CliExits
<1>. SUFFICES CliTyped'
  BY <1>1, UnchangedTyped DEF TypeOK
<1>2. ASSUME NEW p \in Procs, CliAnswersInit(p)
      PROVE  CliTyped'
  BY <1>2, EmitTyped DEF TypeOK, CliTyped, CliAnswersInit
<1>3. ASSUME NEW p \in Procs, CliTakesTurn(p)
      PROVE  CliTyped'
  BY <1>3, EmitTyped DEF TypeOK, CliTyped, CliTakesTurn
<1>4. ASSUME NEW p \in Procs, CliAnswers(p)
      PROVE  CliTyped'
  <2>1. /\ Head(todo[p]) \in Turns /\ Tail(todo[p]) \in Seq(Turns)
    BY <1>4 DEF TypeOK, CliTyped, CliAnswers
  <2>2. pipe' \in [Procs -> Seq(Lines)]
    BY <1>4, <2>1, EmitTyped DEF CliAnswers
  <2>3. todo' \in [Procs -> Seq(Turns)]
    BY <1>4, <2>1 DEF TypeOK, CliTyped, CliAnswers
  <2>. QED
    BY <1>4, <2>2, <2>3 DEF TypeOK, CliTyped, CliAnswers
<1>5. ASSUME NEW p \in Procs, NEW t \in Turns, CliRepeats(p, t)
      PROVE  CliTyped'
  BY <1>5, EmitTyped DEF TypeOK, CliTyped, CliRepeats
<1>6. ASSUME NEW p \in Procs, CliClosesOutput(p) \/ CliExits(p)
      PROVE  CliTyped'
  BY <1>6 DEF TypeOK, CliTyped, CliClosesOutput, CliExits
<1>. QED
  BY <1>2, <1>3, <1>4, <1>5, <1>6 DEF Cli

----------------------------------------------------------------------------
(* A result line always has an outcome to record                            *)

LEMMA LinesKept ==
    ASSUME TypeOK, LinesAnswered, UNCHANGED <<seen, pipe, fate>>
    PROVE  LinesAnswered'
BY DEF LinesAnswered, Answered

\* Taking a line off a pipe, and remembering its result.
LEMMA LinesPopped ==
    ASSUME TypeOK, LinesAnswered, NEW p \in Procs, ReadsFrom(p), Pop(p), UNCHANGED fate,
           seen' = seen \/ (seen' = seen \cup {Head(pipe[p]).turn}
                             /\ Head(pipe[p]).kind = "result")
    PROVE  LinesAnswered'
<1>1. pipe[p] \in Seq(Lines) /\ pipe[p] # <<>>
  BY DEF TypeOK, CliTyped, ReadsFrom
<1>2. Head(pipe[p]) = pipe[p][1] /\ 1 \in 1..Len(pipe[p])
  BY <1>1
<1>3. seen' \subseteq Answered'
  BY <1>1, <1>2 DEF LinesAnswered, Answered
<1>4. ASSUME NEW q \in Procs, NEW i \in 1..Len(pipe'[q]), pipe'[q][i].kind = "result"
      PROVE  pipe'[q][i].turn \in Answered'
  <2>1. CASE q = p
    <3>1. pipe'[q] = Tail(pipe[p])
      BY <2>1 DEF Pop, TypeOK, CliTyped
    <3>2. i + 1 \in 1..Len(pipe[p]) /\ pipe'[q][i] = pipe[p][i + 1]
      BY <1>1, <1>4, <3>1
    <3>. QED
      BY <1>4, <3>2 DEF LinesAnswered, Answered
  <2>2. CASE q # p
    BY <1>4, <2>2 DEF Pop, TypeOK, CliTyped, LinesAnswered, Answered
  <2>. QED
    BY <2>1, <2>2
<1>. QED
  BY <1>3, <1>4 DEF LinesAnswered

\* Writing a line, after outcomes were only added.
LEMMA LinesEmitted ==
    ASSUME TypeOK, LinesAnswered, UNCHANGED seen,
           NEW p \in Procs, NEW kind, NEW t, Emit(p, kind, t),
           Answered \subseteq Answered',
           kind = "result" => t \in Answered'
    PROVE  LinesAnswered'
<1>1. pipe \in [Procs -> Seq(Lines)] /\ seen \subseteq Turns
  BY DEF TypeOK, CliTyped, SessionTyped
<1>2. seen' \subseteq Answered'
  BY <1>1 DEF LinesAnswered
<1>3. ASSUME NEW q \in Procs, NEW i \in 1..Len(pipe'[q]), pipe'[q][i].kind = "result"
      PROVE  pipe'[q][i].turn \in Answered'
  <2>1. CASE q = p /\ i = Len(pipe[p]) + 1
    BY <1>1, <1>3, <2>1 DEF Emit
  <2>2. CASE q # p \/ i # Len(pipe[p]) + 1
    <3>1. i \in 1..Len(pipe[q]) /\ pipe'[q][i] = pipe[q][i]
      BY <1>1, <1>3, <2>2 DEF Emit
    <3>. QED
      BY <1>3, <3>1 DEF LinesAnswered, Answered
  <2>. QED
    BY <2>1, <2>2
<1>. QED
  BY <1>2, <1>3 DEF LinesAnswered

LEMMA LinesAnsweredStep ==
    ASSUME TypeOK, LinesAnswered, [Next]_vars
    PROVE  LinesAnswered'
<1>1. CASE Caller
  BY <1>1, LinesKept
  DEF Caller, Start, Kill, Interrupt, SendBlocked, SendRestarts, SendEnters, Spawn, session, cli
<1>2. CASE Continuations
  BY <1>2, LinesKept
  DEF Continuations, StartReturns, InitTimeout, HookThrows, SendAdmits,
      RegistrationDone, RegistrationFails, TimerFires, session, cli
<1>3. ASSUME NEW p \in Procs,
             ReadDropped(p) \/ ReadControl(p) \/ ReadInit(p) \/ ReadUnowned(p) \/ ReadResult(p)
      PROVE  LinesAnswered'
  <2>1. /\ ReadsFrom(p) /\ Pop(p) /\ UNCHANGED fate
        /\ seen' = seen \/ (seen' = seen \cup {Head(pipe[p]).turn}
                             /\ Head(pipe[p]).kind = "result")
    BY <1>3 DEF ReadDropped, ReadControl, ReadInit, ReadUnowned, ReadResult, session, cli
  <2>. QED
    BY <2>1, LinesPopped
<1>4. ASSUME NEW p \in Procs,
             \/ ReadEof(p) \/ ReadSettles(p) \/ ReadError(p) \/ ReadStderr(p)
             \/ ExitNoticed(p) \/ ExitDrained(p) \/ ExitSettles(p)
      PROVE  LinesAnswered'
  BY <1>4, LinesKept
  DEF ReadEof, ReadSettles, ReadError, ReadStderr, ExitNoticed, ExitDrained, ExitSettles,
      session, cli
<1>5. ASSUME NEW p \in Procs, CliAnswersInit(p)
      PROVE  LinesAnswered'
  <2>1. Emit(p, "control", NoTurn) /\ UNCHANGED <<seen, fate>>
    BY <1>5 DEF CliAnswersInit, session
  <2>. QED
    BY <2>1, LinesEmitted DEF Answered
<1>6. ASSUME NEW p \in Procs, CliTakesTurn(p)
      PROVE  LinesAnswered'
  <2>1. /\ Emit(p, "init", NoTurn) /\ UNCHANGED seen
        /\ Answered \subseteq Answered'
    BY <1>6 DEF CliTakesTurn, session, Answered, TypeOK, CliTyped
  <2>. QED
    BY <2>1, LinesEmitted
<1>7. ASSUME NEW p \in Procs, CliAnswers(p)
      PROVE  LinesAnswered'
  <2>1. Head(todo[p]) \in Turns
    BY <1>7 DEF TypeOK, CliTyped, CliAnswers
  <2>2. /\ Emit(p, "result", Head(todo[p])) /\ UNCHANGED seen
        /\ Answered \subseteq Answered'
        /\ Head(todo[p]) \in Answered'
    BY <1>7, <2>1 DEF CliAnswers, session, Answered, TypeOK, CliTyped
  <2>. QED
    BY <2>2, LinesEmitted
<1>8. ASSUME NEW p \in Procs, NEW t \in Turns, CliRepeats(p, t)
      PROVE  LinesAnswered'
  <2>1. /\ Emit(p, "result", t) /\ UNCHANGED <<seen, fate>>
        /\ t \in Answered
    BY <1>8 DEF CliRepeats, session, LinesAnswered
  <2>. QED
    BY <2>1, LinesEmitted DEF Answered
<1>9. ASSUME NEW p \in Procs, CliClosesOutput(p) \/ CliExits(p)
      PROVE  LinesAnswered'
  BY <1>9, LinesKept DEF CliClosesOutput, CliExits, session
<1>10. CASE UNCHANGED vars
  BY <1>10, LinesKept DEF vars, session, cli
<1>. QED
  BY <1>1, <1>2, <1>3, <1>4, <1>5, <1>6, <1>7, <1>8, <1>9, <1>10 DEF Next, Streams, Cli

----------------------------------------------------------------------------
(* Ownership                                                                *)

Owned == OwnerHolds /\ QueueWaits /\ RegistrationWaits /\ UnsentUntouched

\* A step that dispatches nothing: the queue may be dropped, a turn may be
\* given back as not dispatched, a send may become an attempt.
LEMMA QuietStep ==
    ASSUME TypeOK, TypeOK', Owned,
           UNCHANGED <<inflight, native, registering>>,
           queue' \in {queue, <<>>},
           \A t \in Turns : disp'[t] \in {disp[t], "not-dispatched"},
           \A t \in Turns : send'[t] = "sent" \/ (send'[t] # "sent" /\ send[t] # "sent")
    PROVE  Owned'
<1>1. OwnerHolds'
  BY DEF Owned, OwnerHolds, Unresolved
<1>2. QueueWaits'
  <2>1. CASE queue' = <<>>
    BY <2>1 DEF QueueWaits
  <2>2. CASE queue' = queue
    <3>1. \A i \in 1..Len(queue) : queue[i] \in Turns
      BY DEF TypeOK, OwnershipTyped
    <3>. QED
      BY <2>2, <3>1 DEF Owned, QueueWaits
  <2>. QED
    BY <2>1, <2>2
<1>3. RegistrationWaits'
  BY DEF Owned, RegistrationWaits, TypeOK, PendingTyped
<1>4. UnsentUntouched'
  BY DEF Owned, UnsentUntouched
<1>. QED
  BY <1>1, <1>2, <1>3, <1>4 DEF Owned

\* The slot was free of unresolved work: whatever takes it keeps the promise.
LEMMA FreeSlotStep ==
    ASSUME TypeOK, TypeOK', Owned,
           NEW told \in [Turns -> LocalOutcomes], NEW regs \in SUBSET registering,
           ProcessNextTurn(told, regs), UNCHANGED send,
           \A u \in Turns : ~(disp[u] = "attempted" /\ native'[u] = "unknown")
    PROVE  Owned'
<1>1. /\ queue \in Seq(Turns) /\ disp \in [Turns -> {"not-dispatched", "attempted"}]
      /\ registering \subseteq Turns /\ regs \in SUBSET Turns
  BY DEF TypeOK, OwnershipTyped, PendingTyped
<1>2. \/ /\ inflight' = NoTurn /\ queue' = queue
         /\ disp' = disp /\ registering' = regs
      \/ /\ queue # <<>> /\ inflight' = Head(queue)
         /\ queue' \in {Tail(queue), <<>>}
         /\ \/ /\ Head(queue) \in Registered
               /\ disp' = disp /\ registering' = regs \cup {Head(queue)}
            \/ /\ Head(queue) \notin Registered
               /\ disp' = [disp EXCEPT ![Head(queue)] = "attempted"]
               /\ registering' = regs
  BY <1>1, ProcessNextTurnEffect
<1>3. CASE /\ inflight' = NoTurn /\ queue' = queue
           /\ disp' = disp /\ registering' = regs
  <2>1. OwnerHolds'
    BY <1>3 DEF OwnerHolds, Unresolved
  <2>2. QueueWaits'
    BY <1>3 DEF Owned, QueueWaits
  <2>3. RegistrationWaits' /\ UnsentUntouched'
    BY <1>3 DEF Owned, RegistrationWaits, UnsentUntouched
  <2>. QED
    BY <2>1, <2>2, <2>3 DEF Owned
<1>4. CASE /\ queue # <<>> /\ inflight' = Head(queue)
           /\ queue' \in {Tail(queue), <<>>}
           /\ \/ /\ Head(queue) \in Registered
                 /\ disp' = disp /\ registering' = regs \cup {Head(queue)}
              \/ /\ Head(queue) \notin Registered
                 /\ disp' = [disp EXCEPT ![Head(queue)] = "attempted"]
                 /\ registering' = regs
  <2>. DEFINE h == Head(queue)
  <2>1. h = queue[1] /\ 1 \in 1..Len(queue) /\ h \in Turns
    BY <1>1, <1>4
  <2>2. disp[h] = "not-dispatched" /\ send[h] = "sent" /\ h \notin registering
    BY <2>1 DEF Owned, QueueWaits
  <2>3. ASSUME NEW i \in 1..Len(queue')
        PROVE  /\ i + 1 \in 1..Len(queue) /\ queue'[i] = queue[i + 1]
               /\ queue[i + 1] # h /\ queue[i + 1] \in Turns
    <3>1. i + 1 \in 1..Len(queue) /\ queue'[i] = queue[i + 1] /\ queue[i + 1] \in Turns
      BY <1>1, <1>4, <2>3
    <3>2. queue[i + 1] = queue[1] => i + 1 = 1
      BY <2>1, <3>1 DEF Owned, QueueWaits
    <3>. QED
      BY <2>1, <3>1, <3>2
  <2>4. OwnerHolds'
    BY <1>1, <1>4, <2>1 DEF OwnerHolds, Unresolved
  <2>5. QueueWaits'
    <3>1. ASSUME NEW i \in 1..Len(queue')
          PROVE  /\ disp'[queue'[i]] = "not-dispatched" /\ send'[queue'[i]] = "sent"
                 /\ queue'[i] \notin registering'
      <4>1. /\ disp[queue[i + 1]] = "not-dispatched" /\ send[queue[i + 1]] = "sent"
            /\ queue[i + 1] \notin registering
        BY <2>3, <3>1 DEF Owned, QueueWaits
      <4>. QED
        BY <1>1, <1>4, <2>1, <2>3, <3>1, <4>1
    <3>2. ASSUME NEW i \in 1..Len(queue'), NEW j \in 1..Len(queue'), queue'[i] = queue'[j]
          PROVE  i = j
      <4>1. i + 1 = j + 1
        BY <2>3, <3>2 DEF Owned, QueueWaits
      <4>. QED
        BY <4>1
    <3>. QED
      BY <3>1, <3>2 DEF QueueWaits
  <2>6. RegistrationWaits'
    BY <1>1, <1>4, <2>1, <2>2 DEF Owned, RegistrationWaits
  <2>7. UnsentUntouched'
    BY <1>1, <1>4, <2>1, <2>2 DEF Owned, UnsentUntouched
  <2>. QED
    BY <2>4, <2>5, <2>6, <2>7 DEF Owned
<1>. QED
  BY <1>2, <1>3, <1>4

\* A send that becomes an attempt either is refused, takes a free slot or queues.
LEMMA SendAdmitsOwned ==
    ASSUME TypeOK, TypeOK', Owned, NEW t \in Turns, SendAdmits(t)
    PROVE  Owned'
<1>1. /\ queue \in Seq(Turns) /\ disp \in [Turns -> {"not-dispatched", "attempted"}]
      /\ registering \in SUBSET Turns
      /\ [local EXCEPT ![t] = "pending"] \in [Turns -> LocalOutcomes]
      /\ \A i \in 1..Len(queue) : queue[i] \in Turns
  BY DEF TypeOK, OwnershipTyped, PendingTyped, LocalOutcomes
<1>2. /\ send[t] = "hooks" /\ send' = [send EXCEPT ![t] = "sent"] /\ native' = native
      /\ \A u \in Turns : send'[u] = "sent" <=> (u = t \/ send[u] = "sent")
  BY DEF SendAdmits, TypeOK, PendingTyped
<1>3. /\ disp[t] = "not-dispatched" /\ t \notin registering
      /\ \A i \in 1..Len(queue) : queue[i] # t
  BY <1>2 DEF Owned, UnsentUntouched, RegistrationWaits, QueueWaits
<1>4. CASE UNCHANGED <<inflight, queue, disp, registering>>
  BY <1>1, <1>2, <1>4, QuietStep
<1>5. CASE /\ inflight = NoTurn
           /\ DispatchTurn(t, queue, [local EXCEPT ![t] = "pending"], registering)
  <2>1. /\ inflight' = t
        /\ \/ /\ t \in Registered
              /\ disp' = disp /\ registering' = registering \cup {t}
           \/ /\ t \notin Registered
              /\ disp' = [disp EXCEPT ![t] = "attempted"] /\ registering' = registering
        /\ queue' \in {queue, <<>>}
    BY <1>1, <1>5, DispatchTurnEffect
  <2>2. \A u \in Turns : ~Unresolved(u)
    BY <1>5, SessionAssumption DEF Owned, OwnerHolds
  <2>3. OwnerHolds'
    BY <1>1, <1>2, <2>1, <2>2 DEF OwnerHolds, Unresolved
  <2>4. QueueWaits'
    BY <1>1, <1>2, <1>3, <2>1 DEF Owned, QueueWaits
  <2>5. RegistrationWaits'
    BY <1>1, <1>2, <1>3, <2>1 DEF Owned, RegistrationWaits
  <2>6. UnsentUntouched'
    BY <1>1, <1>2, <2>1 DEF Owned, UnsentUntouched
  <2>. QED
    BY <2>3, <2>4, <2>5, <2>6 DEF Owned
<1>6. CASE /\ queue' = Append(queue, t)
           /\ UNCHANGED <<inflight, disp, registering>>
  <2>1. /\ Len(queue') = Len(queue) + 1 /\ queue'[Len(queue) + 1] = t
        /\ \A i \in 1..Len(queue) : queue'[i] = queue[i]
    BY <1>1, <1>6
  <2>2. Len(queue) \in Nat
    BY <1>1
  <2>3. QueueWaits'
    <3>1. ASSUME NEW i \in 1..Len(queue')
          PROVE  /\ disp'[queue'[i]] = "not-dispatched" /\ send'[queue'[i]] = "sent"
                 /\ queue'[i] \notin registering'
      BY <1>1, <1>2, <1>3, <1>6, <2>1, <2>2, <3>1 DEF Owned, QueueWaits
    <3>2. ASSUME NEW i \in 1..Len(queue'), NEW j \in 1..Len(queue'), queue'[i] = queue'[j]
          PROVE  i = j
      BY <1>3, <2>1, <2>2, <3>2 DEF Owned, QueueWaits
    <3>. QED
      BY <3>1, <3>2 DEF QueueWaits
  <2>4. OwnerHolds' /\ RegistrationWaits' /\ UnsentUntouched'
    BY <1>1, <1>2, <1>6 DEF Owned, OwnerHolds, Unresolved, RegistrationWaits, UnsentUntouched
  <2>. QED
    BY <2>3, <2>4 DEF Owned
<1>. QED
  BY <1>4, <1>5, <1>6 DEF SendAdmits

\* onAdmission resolves: written, given up for the next, or stale.
LEMMA RegistrationDoneOwned ==
    ASSUME TypeOK, TypeOK', Owned, NEW t \in Turns, RegistrationDone(t)
    PROVE  Owned'
<1>1. /\ queue \in Seq(Turns) /\ local \in [Turns -> LocalOutcomes]
      /\ disp \in [Turns -> {"not-dispatched", "attempted"}]
      /\ registering \ {t} \in SUBSET registering
      /\ \A i \in 1..Len(queue) : queue[i] \in Turns
  BY DEF TypeOK, OwnershipTyped, LocalOutcomes
<1>2. /\ t \in registering /\ UNCHANGED <<send, native>>
      /\ disp[t] = "not-dispatched" /\ send[t] = "sent"
      /\ \A i \in 1..Len(queue) : queue[i] # t
  BY DEF RegistrationDone, Owned, RegistrationWaits, QueueWaits
<1>3. CASE inflight = t /\ WriteTurn(t, queue, local) /\ registering' = registering \ {t}
  <2>1. /\ inflight' = t /\ disp' = [disp EXCEPT ![t] = "attempted"]
        /\ queue' \in {queue, <<>>}
    BY <1>1, <1>3, WriteTurnEffect
  <2>2. OwnerHolds'
    BY <1>1, <1>2, <1>3, <2>1 DEF Owned, OwnerHolds, Unresolved
  <2>3. QueueWaits'
    BY <1>1, <1>2, <1>3, <2>1 DEF Owned, QueueWaits
  <2>4. RegistrationWaits' /\ UnsentUntouched'
    BY <1>1, <1>2, <1>3, <2>1 DEF Owned, RegistrationWaits, UnsentUntouched, TypeOK, PendingTyped
  <2>. QED
    BY <2>2, <2>3, <2>4 DEF Owned
<1>4. CASE inflight = t /\ ProcessNextTurn(local, registering \ {t})
  <2>1. \A u \in Turns : ~(disp[u] = "attempted" /\ native'[u] = "unknown")
    BY <1>2, <1>4 DEF Owned, OwnerHolds, Unresolved
  <2>. QED
    BY <1>1, <1>2, <1>4, <2>1, FreeSlotStep
<1>5. CASE registering' = registering \ {t} /\ UNCHANGED <<inflight, queue, disp>>
  BY <1>1, <1>2, <1>5
  DEF Owned, OwnerHolds, Unresolved, QueueWaits, RegistrationWaits, UnsentUntouched
<1>. QED
  BY <1>3, <1>4, <1>5 DEF RegistrationDone

LEMMA RegistrationFailsOwned ==
    ASSUME TypeOK, TypeOK', Owned, NEW t \in Turns, RegistrationFails(t)
    PROVE  Owned'
<1>. DEFINE told == [local EXCEPT ![t] = IF @ = "pending" THEN "registration" ELSE @]
<1>1. told \in [Turns -> LocalOutcomes] /\ registering \ {t} \in SUBSET registering
  BY DEF TypeOK, OwnershipTyped, LocalOutcomes, Failures
<1>2. /\ t \in registering /\ UNCHANGED <<send, native>> /\ disp[t] = "not-dispatched"
  BY DEF RegistrationFails, Owned, RegistrationWaits
<1>3. CASE inflight = t /\ ProcessNextTurn(told, registering \ {t})
  <2>1. \A u \in Turns : ~(disp[u] = "attempted" /\ native'[u] = "unknown")
    BY <1>2, <1>3 DEF Owned, OwnerHolds, Unresolved
  <2>. QED
    BY <1>1, <1>2, <1>3, <2>1, FreeSlotStep
<1>4. CASE registering' = registering \ {t} /\ UNCHANGED <<inflight, queue, disp>>
  BY <1>2, <1>4
  DEF Owned, OwnerHolds, Unresolved, QueueWaits, RegistrationWaits, UnsentUntouched
<1>. QED
  BY <1>3, <1>4 DEF RegistrationFails

\* A result answers the turn in flight, and only then is the slot given away.
LEMMA ReadResultOwned ==
    ASSUME TypeOK, TypeOK', Owned, LinesAnswered, NEW p \in Procs, ReadResult(p)
    PROVE  Owned'
<1>. DEFINE outcome == fate[Head(pipe[p]).turn]
            told == [local EXCEPT ![inflight] = IF @ = "pending" THEN "resolved" ELSE @]
<1>1. outcome \in {"completed", "failed", "unrecognized"}
  <2>1. pipe[p] \in Seq(Lines) /\ pipe[p] # <<>> /\ Head(pipe[p]).kind = "result"
    BY DEF ReadResult, ReadsFrom, TypeOK, CliTyped
  <2>2. Head(pipe[p]) = pipe[p][1] /\ 1 \in 1..Len(pipe[p])
    BY <2>1
  <2>. QED
    BY <2>1, <2>2 DEF LinesAnswered, Answered
<1>2. UNCHANGED send /\ inflight \in Turns
  BY DEF ReadResult, TypeOK, OwnershipTyped
<1>3. CASE Recognized(outcome)
  <2>1. /\ native' = [native EXCEPT ![inflight] = outcome]
        /\ ProcessNextTurn(told, registering)
    BY <1>3 DEF ReadResult
  <2>2. told \in [Turns -> LocalOutcomes]
    BY DEF TypeOK, OwnershipTyped, LocalOutcomes
  <2>3. \A u \in Turns : ~(disp[u] = "attempted" /\ native'[u] = "unknown")
    BY <1>1, <1>2, <1>3, <2>1
    DEF Owned, OwnerHolds, Unresolved, Recognized, TypeOK, OwnershipTyped
  <2>. QED
    BY <1>2, <2>1, <2>2, <2>3, FreeSlotStep
<1>4. CASE ~Recognized(outcome)
  <2>1. /\ native' = [native EXCEPT ![inflight] = "unknown"]
        /\ RejectInflight("unrecognized-terminal")
        /\ UNCHANGED <<inflight, disp, registering>>
    BY <1>4 DEF ReadResult
  <2>2. queue' \in {queue, <<>>}
    BY <2>1, RejectInflightTyped DEF Failures
  <2>3. OwnerHolds'
    BY <1>2, <2>1 DEF Owned, OwnerHolds, Unresolved, TypeOK, OwnershipTyped
  <2>4. QueueWaits'
    BY <1>2, <2>1, <2>2 DEF Owned, QueueWaits
  <2>5. RegistrationWaits' /\ UnsentUntouched'
    BY <1>2, <2>1 DEF Owned, RegistrationWaits, UnsentUntouched
  <2>. QED
    BY <2>3, <2>4, <2>5 DEF Owned
<1>. QED
  BY <1>3, <1>4

\* A start() continues one send() at most, which waits for it.
LEMMA StartersStep ==
    ASSUME TypeOK, StartersWait, [Next]_vars
    PROVE  StartersWait'
<1>1. /\ send \in [Turns -> {"idle", "starting", "hooks", "sent", "refused"}]
      /\ starter \in [Procs -> Turns \cup {NoTurn}]
  BY DEF TypeOK, PendingTyped
<1>2. ASSUME UNCHANGED starter,
             \A t \in Turns : send[t] = "starting" => send'[t] = "starting"
      PROVE  StartersWait'
  BY <1>1, <1>2 DEF StartersWait
<1>3. CASE Start
  BY <1>1, <1>3 DEF Start, Spawn, StartersWait
<1>4. ASSUME NEW t \in Turns, SendRestarts(t)
      PROVE  StartersWait'
  <2>1. /\ send[t] = "idle" /\ send' = [send EXCEPT ![t] = "starting"]
        /\ starter' = [starter EXCEPT ![spawned + 1] = t]
    BY <1>4 DEF SendRestarts, Spawn
  <2>2. \A p \in Procs : starter[p] # t
    BY <1>1, <2>1, SessionAssumption DEF StartersWait
  <2>. QED
    BY <1>1, <2>1, <2>2, SessionAssumption DEF StartersWait
<1>5. ASSUME NEW p \in Procs, StartReturns(p)
      PROVE  StartersWait'
  <2>1. /\ starter' = [starter EXCEPT ![p] = NoTurn]
        /\ \A t \in Turns : t # starter[p] => send'[t] = send[t]
    BY <1>1, <1>5 DEF StartReturns, Proceed
  <2>2. ASSUME NEW q \in Procs, starter'[q] # NoTurn
        PROVE  /\ q # p /\ starter'[q] = starter[q] /\ starter[q] \in Turns
               /\ starter[q] # starter[p]
    BY <1>1, <2>1, <2>2 DEF StartersWait
  <2>3. ASSUME NEW q \in Procs, starter'[q] # NoTurn
        PROVE  /\ send'[starter'[q]] = "starting"
               /\ \A r \in Procs : starter'[r] = starter'[q] => r = q
    BY <2>1, <2>2, <2>3 DEF StartersWait
  <2>. QED
    BY <2>3 DEF StartersWait
<1>6. CASE \/ Kill \/ Interrupt \/ TimerFires
           \/ \E t \in Turns : \/ SendBlocked(t) \/ SendEnters(t) \/ HookThrows(t)
                               \/ SendAdmits(t) \/ RegistrationDone(t) \/ RegistrationFails(t)
           \/ \E p \in Procs : InitTimeout(p)
  BY <1>1, <1>2, <1>6
  DEF Kill, Interrupt, TimerFires, SendBlocked, SendEnters, HookThrows, SendAdmits,
      RegistrationDone, RegistrationFails, InitTimeout, Proceed, pending
<1>7. CASE Streams
  BY <1>2, <1>7
  DEF Streams, ReadDropped, ReadControl, ReadInit, ReadUnowned, ReadResult, ReadEof,
      ReadSettles, ReadError, ReadStderr, ExitNoticed, ExitDrained, ExitSettles, pending
<1>8. CASE Cli
  BY <1>2, <1>8
  DEF Cli, CliAnswersInit, CliTakesTurn, CliAnswers, CliRepeats, CliClosesOutput, CliExits,
      pending
<1>9. CASE UNCHANGED vars
  BY <1>2, <1>9 DEF vars, pending
<1>. QED
  BY <1>3, <1>4, <1>5, <1>6, <1>7, <1>8, <1>9 DEF Next, Caller, Continuations

\* Every other action dispatches nothing.
LEMMA OwnedStep ==
    ASSUME TypeOK, TypeOK', Owned, StartersWait, LinesAnswered, [Next]_vars
    PROVE  Owned'
<1>. DEFINE Dispatches ==
              \/ \E t \in Turns : SendAdmits(t) \/ RegistrationDone(t) \/ RegistrationFails(t)
              \/ \E p \in Procs : ReadResult(p)
<1>1. CASE Dispatches
  BY <1>1, SendAdmitsOwned, RegistrationDoneOwned, RegistrationFailsOwned, ReadResultOwned
<1>2. /\ send \in [Turns -> {"idle", "starting", "hooks", "sent", "refused"}]
      /\ disp \in [Turns -> {"not-dispatched", "attempted"}]
  BY DEF TypeOK, OwnershipTyped, PendingTyped
<1>3. ASSUME UNCHANGED <<inflight, native, registering, disp, send>>,
             queue' \in {queue, <<>>}
      PROVE  Owned'
  BY <1>2, <1>3, QuietStep
<1>4. ASSUME UNCHANGED <<inflight, native, registering, send>>, SettleMissing,
             queue' \in {queue, <<>>}
      PROVE  Owned'
  BY <1>2, <1>4, QuietStep, SettleMissingGivesBack
<1>5. CASE Caller
  <2>1. CASE Start
    BY <2>1, <1>3 DEF Start, ownership
  <2>2. CASE Kill
    BY <2>2, <1>3 DEF Kill
  <2>3. CASE Interrupt
    BY <2>3, <1>3, RejectInflightTyped DEF Interrupt, pending, Failures
  <2>4. ASSUME NEW t \in Turns, SendBlocked(t) \/ SendRestarts(t) \/ SendEnters(t)
        PROVE  Owned'
    <3>1. /\ UNCHANGED <<inflight, native, registering, disp, queue>>
          /\ \A u \in Turns : send'[u] = "sent" \/ (send'[u] # "sent" /\ send[u] # "sent")
      BY <2>4, <1>2 DEF SendBlocked, SendRestarts, SendEnters, Proceed, ownership
    <3>. QED
      BY <3>1, <1>2, QuietStep
  <2>. QED
    BY <1>5, <2>1, <2>2, <2>3, <2>4 DEF Caller
<1>6. ASSUME NEW p \in Procs, StartReturns(p)
      PROVE  Owned'
  <2>1. /\ UNCHANGED <<inflight, native, registering, disp>>
        /\ queue' \in {queue, <<>>}
    BY <1>6 DEF StartReturns
  <2>2. \A u \in Turns : send'[u] = "sent" \/ (send'[u] # "sent" /\ send[u] # "sent")
    <3>1. \A u \in Turns : send'[u] = send[u] \/ (u = starter[p] /\ send'[u] # "sent")
      BY <1>6, <1>2 DEF StartReturns, Proceed
    <3>2. starter[p] \in Turns => send[starter[p]] = "starting"
      BY SessionAssumption DEF StartersWait
    <3>. QED
      BY <3>1, <3>2
  <2>. QED
    BY <1>2, <2>1, <2>2, QuietStep
<1>7. ASSUME NEW p \in Procs, InitTimeout(p)
      PROVE  Owned'
  BY <1>7, <1>3 DEF InitTimeout, ownership
<1>8. ASSUME NEW t \in Turns, HookThrows(t)
      PROVE  Owned'
  <2>1. /\ UNCHANGED <<inflight, native, registering, disp, queue>>
        /\ \A u \in Turns : send'[u] = "sent" \/ (send'[u] # "sent" /\ send[u] # "sent")
    BY <1>8, <1>2 DEF HookThrows, ownership
  <2>. QED
    BY <2>1, <1>2, QuietStep
<1>9. CASE TimerFires
  BY <1>9, <1>3, RejectInflightTyped DEF TimerFires, pending, Failures
<1>10. ASSUME NEW p \in Procs,
              \/ ReadDropped(p) \/ ReadControl(p) \/ ReadInit(p) \/ ReadUnowned(p)
              \/ ReadEof(p) \/ ReadStderr(p) \/ ExitNoticed(p) \/ ExitDrained(p)
       PROVE  Owned'
  BY <1>10, <1>3
  DEF ReadDropped, ReadControl, ReadInit, ReadUnowned, ReadEof, ReadStderr,
      ExitNoticed, ExitDrained, ownership, pending
<1>11. ASSUME NEW p \in Procs, ReadSettles(p)
       PROVE  Owned'
  BY <1>11, <1>4 DEF ReadSettles, TransportFailure, RejectInflightAndQueue
<1>12. ASSUME NEW p \in Procs, ReadError(p)
       PROVE  Owned'
  BY <1>12, <1>3 DEF ReadError, TransportFailure, RejectInflightAndQueue
<1>13. ASSUME NEW p \in Procs, ExitSettles(p)
       PROVE  Owned'
  BY <1>13, <1>4 DEF ExitSettles, RejectInflightAndQueue
<1>14. CASE Cli
  BY <1>14, <1>3
  DEF Cli, CliAnswersInit, CliTakesTurn, CliAnswers, CliRepeats, CliClosesOutput, CliExits,
      ownership, pending
<1>15. CASE UNCHANGED vars
  BY <1>15, <1>3 DEF vars, ownership, pending
<1>. QED
  BY <1>1, <1>5, <1>6, <1>7, <1>8, <1>9, <1>10, <1>11, <1>12, <1>13, <1>14, <1>15
  DEF Next, Continuations, Streams

----------------------------------------------------------------------------
(* The theorems                                                             *)

\* The inductive invariant holds of a session that has done nothing yet, whether
\* or not it resumes a conversation (the constructor).
LEMMA InitInductive == Init => OwnershipInductive
<1>. SUFFICES ASSUME Init PROVE OwnershipInductive
  OBVIOUS
<1>1. SessionTyped
  <2>1. alive \in BOOLEAN /\ ended \in BOOLEAN
    BY DEF Init
  <2>2. /\ proc \in 0..MaxProcs /\ spawned \in 0..MaxProcs
        /\ ext \in 0..(MaxProcs + 1) /\ stderr \subseteq 0..(MaxProcs + 1)
        /\ seen \subseteq Turns
    BY SessionAssumption DEF Init, Resumed
  <2>. QED
    BY <2>1, <2>2 DEF SessionTyped
<1>2. OwnershipTyped
  BY DEF Init, OwnershipTyped
<1>3. PendingTyped
  BY DEF Init, PendingTyped
<1>4. CliTyped
  BY SessionAssumption DEF Init, CliTyped
<1>5. OwnerHolds /\ QueueWaits /\ RegistrationWaits /\ UnsentUntouched /\ StartersWait
  BY DEF Init, OwnerHolds, Unresolved, QueueWaits, RegistrationWaits, UnsentUntouched,
         StartersWait
<1>6. LinesAnswered
  BY DEF Init, LinesAnswered
<1>. QED
  BY <1>1, <1>2, <1>3, <1>4, <1>5, <1>6 DEF OwnershipInductive, TypeOK

\* Every handler, continuation and step of the CLI preserves it.
LEMMA StepInductive == OwnershipInductive /\ [Next]_vars => OwnershipInductive'
<1>. SUFFICES ASSUME OwnershipInductive, [Next]_vars PROVE OwnershipInductive'
  OBVIOUS
<1>1. TypeOK /\ LinesAnswered /\ StartersWait /\ Owned
  BY DEF OwnershipInductive, Owned
<1>2. TypeOK'
  <2>1. CASE UNCHANGED vars
    BY <1>1, <2>1, UnchangedTyped DEF vars, TypeOK
  <2>. QED
    BY <1>1, <2>1, CallerTyped, ContinuationsTyped, StreamsTyped, CliStepTyped DEF Next
<1>3. LinesAnswered'
  BY <1>1, LinesAnsweredStep
<1>4. Owned'
  BY <1>1, <1>2, OwnedStep
<1>5. StartersWait'
  BY <1>1, StartersStep
<1>. QED
  BY <1>2, <1>3, <1>4, <1>5 DEF OwnershipInductive, Owned

\* The inductive invariant holds in every state of the session (all of
\* claude-code-session.ts the module models).
THEOREM Invariance == Spec => []OwnershipInductive
BY InitInductive, StepInductive, PTL DEF Spec

\* Every field of the session keeps its type: in particular no turn is recorded
\* with an outcome the session does not know (_processLine's result branch).
THEOREM TypeCorrect == Spec => []TypeOK
<1>1. OwnershipInductive => TypeOK
  BY DEF OwnershipInductive
<1>. QED
  BY <1>1, Invariance, PTL

\* Native work nobody has answered is always the in-flight turn's, whatever was
\* told to callers and whichever processes came and went (_writeTurn,
\* _rejectInflight, kill, _processNextTurn).
THEOREM OwnershipHeld == Spec => []OwnerHolds
<1>1. OwnershipInductive => OwnerHolds
  BY DEF OwnershipInductive
<1>. QED
  BY <1>1, Invariance, PTL

\* So at most one turn is unresolved at a time: the promise of TurnOwnership.
THEOREM OneUnresolved ==
    Spec => [](\A t, u \in Turns : Unresolved(t) /\ Unresolved(u) => t = u)
<1>1. OwnerHolds => \A t, u \in Turns : Unresolved(t) /\ Unresolved(u) => t = u
  BY DEF OwnerHolds
<1>. QED
  BY <1>1, OwnershipHeld, PTL

----------------------------------------------------------------------------
(* The ledger: what is recorded of turns against what CLIs did with them    *)

\* Steps that neither write, answer nor read a turn.
LEMMA LedgerQuiet ==
    ASSUME Ledger, proc' \in {proc, 0}, ext # 0 => ext' = ext,
           stderr' # {} => stderr # {} \/ \E q \in Procs : refuses[q],
           UNCHANGED <<disp, native, fate, inflight, refuses, todo, sid>>
    PROVE  Ledger'
<1>. USE DEF Ledger
<1>1. HonestOutcome' /\ HonestNoSend' /\ AnsweredWasWritten'
  BY DEF HonestOutcome, HonestNoSend, AnsweredWasWritten
<1>2. TodoOwned'
  BY DEF TodoOwned, Unresolved, Answered
<1>3. GoneForGood'
  BY DEF GoneForGood, Unresolved
<1>. QED
  BY <1>1, <1>2, <1>3

\* A process is spawned only when no turn is unresolved, so no CLI that serves
\* holds one; and a conversation that is gone stays gone.
LEMMA SpawnLedger ==
    ASSUME TypeOK, OwnerHolds, Ledger, NEW t \in Turns \cup {NoTurn}, Spawn(t),
           UNCHANGED <<ext, stderr, disp, native, fate, inflight, todo>>
    PROVE  Ledger'
<1>. USE DEF Ledger
<1>. DEFINE p == spawned + 1
<1>1. /\ p \in Procs /\ proc' = p
      /\ refuses \in [Procs -> BOOLEAN] /\ sid \in [Procs -> 0..(MaxProcs + 1)]
      /\ \A q \in Procs : q # p => refuses'[q] = refuses[q] /\ sid'[q] = sid[q]
      /\ sid'[p] = IF ext = 0 THEN p ELSE ext
      /\ refuses'[p] \in BOOLEAN
      /\ refuses'[p] => ext # 0
      /\ \A q \in Procs : refuses[q] /\ sid[q] = ext => refuses'[p]
  BY SessionAssumption DEF Spawn, TypeOK, SessionTyped, CliTyped, Procs
<1>2. \A u \in Turns : ~Unresolved(u)
  BY DEF Spawn
<1>3. \A q \in Procs : ~refuses[q] => todo[q] = <<>>
  BY <1>2 DEF TodoOwned
<1>4. \A q \in Procs : refuses[q] => refuses'[q] /\ refuses'[p]
  BY <1>1 DEF GoneForGood
<1>5. HonestOutcome' /\ HonestNoSend' /\ AnsweredWasWritten'
  BY DEF HonestOutcome, HonestNoSend, AnsweredWasWritten
<1>6. TodoOwned'
  BY <1>3, <1>4 DEF TodoOwned
<1>7. \A u \in Turns : ~Unresolved(u)'
  BY <1>2 DEF Unresolved
<1>8. ASSUME NEW q \in Procs, refuses'[q]
      PROVE  /\ ext # 0 /\ sid'[q] = ext /\ refuses'[p]
             /\ \A i \in 1..Len(todo[q]) : fate[todo[q][i]] = "unread"
  <2>1. CASE refuses[q]
    BY <1>1, <1>4, <2>1 DEF GoneForGood
  <2>2. CASE ~refuses[q]
    <3>1. q = p
      BY <1>1, <1>8, <2>2
    <3>2. todo[q] = <<>> /\ \A i \in 1..Len(<<>>) : FALSE
      BY <1>3, <2>2
    <3>. QED
      BY <1>1, <1>8, <3>1, <3>2
  <2>. QED
    BY <2>1, <2>2
<1>9. \A q \in Procs : ~refuses'[q] => todo[q] = <<>>
  BY <1>3, <1>4
<1>10. GoneForGood'
  BY <1>1, <1>4, <1>7, <1>8, <1>9 DEF GoneForGood
<1>. QED
  BY <1>5, <1>6, <1>10

\* Only what a missing conversation left unread is settled as never dispatched.
LEMMA MissingLedger ==
    ASSUME TypeOK, OwnerHolds, Ledger, SettleMissing,
           UNCHANGED <<proc, ext, stderr, native, fate, inflight, refuses, todo, sid>>
    PROVE  Ledger'
<1>. USE DEF Ledger
<1>1. CASE disp' = disp
  BY <1>1, LedgerQuiet
<1>2. CASE disp' # disp
  <2>1. /\ disp \in [Turns -> {"not-dispatched", "attempted"}]
        /\ ext \in stderr
        /\ \A t \in Turns : \/ disp'[t] = disp[t]
                            \/ /\ t = inflight /\ native[t] = "unknown"
                               /\ disp'[t] = "not-dispatched"
    BY <1>2 DEF TypeOK, OwnershipTyped, SettleMissing, NoSend
  <2>2. PICK q \in Procs : refuses[q]
    BY <2>1 DEF GoneForGood
  <2>3. /\ \A p \in Procs : ~refuses[p] => todo[p] = <<>>
        /\ \A t \in Turns : Unresolved(t) => fate[t] = "unread"
    BY <2>2 DEF GoneForGood
  <2>4. HonestOutcome' /\ AnsweredWasWritten'
    BY <2>1 DEF HonestOutcome, AnsweredWasWritten
  <2>5. HonestNoSend'
    BY <2>1, <2>3 DEF HonestNoSend, Unresolved
  <2>6. TodoOwned'
    BY <2>3 DEF TodoOwned
  <2>7. GoneForGood'
    BY <2>1, <2>3 DEF GoneForGood, Unresolved
  <2>. QED
    BY <2>4, <2>5, <2>6, <2>7
<1>. QED
  BY <1>1, <1>2

\* A turn is written, or its registration awaited, when nothing is unresolved:
\* no CLI that serves holds another.
Takes(t) ==
    /\ inflight' = t
    /\ \/ disp' = disp /\ todo' = todo
       \/ /\ disp' = [disp EXCEPT ![t] = "attempted"]
          /\ todo' \in {todo, [todo EXCEPT ![proc] = Append(@, t)]}

NothingOwed ==
    /\ \A u \in Turns : ~(disp[u] = "attempted" /\ native'[u] = "unknown")
    /\ \A u \in Turns : native'[u] # "unknown" => disp[u] = "attempted" /\ native'[u] = fate[u]
    /\ \A p \in Procs : ~refuses[p] => todo[p] = <<>>

LEMMA NothingOwedWhenFree ==
    ASSUME Ledger, UNCHANGED native, \A u \in Turns : ~Unresolved(u)
    PROVE  NothingOwed
BY DEF Ledger, NothingOwed, Unresolved, HonestOutcome, AnsweredWasWritten, TodoOwned

LEMMA TakesLedger ==
    ASSUME TypeOK, TypeOK', Ledger, NothingOwed, NEW t \in Turns, Takes(t),
           disp[t] = "not-dispatched", ext # 0 => ext' = ext,
           UNCHANGED <<proc, stderr, fate, refuses, sid>>
    PROVE  Ledger'
<1>. USE DEF Ledger
<1>1. /\ disp \in [Turns -> {"not-dispatched", "attempted"}]
      /\ todo \in [Procs -> Seq(Turns)]
      /\ fate[t] = "unread" /\ native'[t] = "unknown"
  BY DEF TypeOK, OwnershipTyped, CliTyped, HonestNoSend, NothingOwed
<1>2. /\ disp'[t] \in {"not-dispatched", "attempted"}
      /\ \A u \in Turns : u # t => disp'[u] = disp[u]
      /\ \A u \in Turns : disp[u] = "attempted" => disp'[u] = "attempted"
      /\ \A u \in Turns : disp'[u] = "not-dispatched" => disp[u] = "not-dispatched"
  BY <1>1 DEF Takes
<1>3. ASSUME NEW p \in Procs
      PROVE  \/ todo'[p] = todo[p]
             \/ /\ p = proc /\ todo'[p] = Append(todo[p], t) /\ disp'[t] = "attempted"
  BY <1>1 DEF Takes
<1>4. HonestOutcome' /\ HonestNoSend'
  BY <1>2 DEF NothingOwed, HonestOutcome, HonestNoSend
<1>5. AnsweredWasWritten'
  BY <1>1, <1>2 DEF Takes, NothingOwed, AnsweredWasWritten
<1>6. TodoOwned'
  <2>. SUFFICES ASSUME NEW p \in Procs, ~refuses[p], todo'[p] # <<>>
                PROVE  /\ inflight' \in Turns /\ todo'[p] = <<inflight'>>
                       /\ Unresolved(inflight)' /\ inflight' \notin Answered'
                       /\ \A q \in Procs : ~refuses[q] /\ q # p => todo'[q] = <<>>
    BY DEF TodoOwned
  <2>1. todo[p] = <<>> /\ p = proc /\ todo'[p] = Append(<<>>, t) /\ disp'[t] = "attempted"
    BY <1>3 DEF NothingOwed
  <2>2. todo'[p] = <<t>>
    BY <2>1
  <2>3. \A q \in Procs : ~refuses[q] /\ q # p => todo'[q] = <<>>
    BY <1>3, <2>1 DEF NothingOwed
  <2>. QED
    BY <1>1, <2>1, <2>2, <2>3 DEF Takes, Unresolved, Answered
<1>7. GoneForGood'
  <2>1. ASSUME NEW q \in Procs, refuses[q]
        PROVE  /\ ext' # 0 /\ sid[q] = ext'
               /\ proc # 0 => refuses[proc]
    BY <2>1 DEF GoneForGood
  <2>2. ASSUME NEW q \in Procs, refuses[q], NEW p \in Procs, ~refuses[p]
        PROVE  todo'[p] = <<>>
    <3>1. p # proc
      BY <2>1, <2>2, SessionAssumption DEF Procs
    <3>. QED
      BY <1>3, <2>2, <3>1 DEF NothingOwed
  <2>3. ASSUME NEW q \in Procs, refuses[q], NEW i \in 1..Len(todo'[q])
        PROVE  fate[todo'[q][i]] = "unread"
    <3>1. \A j \in 1..Len(todo[q]) : fate[todo[q][j]] = "unread"
      BY <2>3 DEF GoneForGood
    <3>2. todo[q] \in Seq(Turns)
      BY <1>1
    <3>3. CASE todo'[q] = todo[q]
      BY <2>3, <3>1, <3>3
    <3>4. CASE todo'[q] = Append(todo[q], t)
      <4>1. CASE i \in 1..Len(todo[q])
        BY <3>1, <3>2, <3>4, <4>1
      <4>2. CASE i \notin 1..Len(todo[q])
        BY <1>1, <2>3, <3>2, <3>4, <4>2
      <4>. QED
        BY <4>1, <4>2
    <3>. QED
      BY <1>3, <3>3, <3>4
  <2>4. \A u \in Turns : Unresolved(u)' => fate[u] = "unread"
    BY <1>1, <1>2 DEF Unresolved, NothingOwed
  <2>5. stderr # {} => \E q \in Procs : refuses[q]
    BY DEF GoneForGood
  <2>. QED
    BY <2>1, <2>2, <2>3, <2>4, <2>5 DEF GoneForGood
<1>. QED
  BY <1>4, <1>5, <1>6, <1>7

\* The slot stays free.
LEMMA FreedLedger ==
    ASSUME Ledger, NothingOwed, inflight' = NoTurn, ext # 0 => ext' = ext,
           UNCHANGED <<proc, stderr, disp, todo, fate, refuses, sid>>
    PROVE  Ledger'
<1>. USE DEF Ledger, NothingOwed
<1>1. HonestOutcome' /\ HonestNoSend' /\ AnsweredWasWritten'
  BY SessionAssumption DEF HonestOutcome, HonestNoSend, AnsweredWasWritten
<1>2. TodoOwned'
  BY DEF TodoOwned
<1>3. GoneForGood'
  BY DEF GoneForGood, Unresolved
<1>. QED
  BY <1>1, <1>2, <1>3

LEMMA WriteTurnTakes ==
    ASSUME NEW t, NEW rest, NEW told, WriteTurn(t, rest, told)
    PROVE  Takes(t)
BY DEF WriteTurn, Takes

LEMMA DispatchTurnTakes ==
    ASSUME NEW t, NEW rest, NEW told, NEW regs, DispatchTurn(t, rest, told, regs)
    PROVE  Takes(t)
BY WriteTurnTakes DEF DispatchTurn, Takes

LEMMA ProcessNextTurnLedger ==
    ASSUME TypeOK, TypeOK', QueueWaits, Ledger, NothingOwed, NEW told, NEW regs,
           ProcessNextTurn(told, regs), ext # 0 => ext' = ext,
           UNCHANGED <<proc, stderr, fate, refuses, sid>>
    PROVE  Ledger'
<1>1. CASE queue # <<>> /\ alive
  <2>1. queue \in Seq(Turns) /\ Head(queue) = queue[1] /\ 1 \in 1..Len(queue)
    BY <1>1 DEF TypeOK, OwnershipTyped
  <2>2. Head(queue) \in Turns /\ disp[Head(queue)] = "not-dispatched"
    BY <2>1 DEF QueueWaits
  <2>3. Takes(Head(queue))
    BY <1>1, DispatchTurnTakes DEF ProcessNextTurn
  <2>. QED
    BY <2>2, <2>3, TakesLedger
<1>2. CASE ~(queue # <<>> /\ alive)
  BY <1>2, FreedLedger DEF ProcessNextTurn
<1>. QED
  BY <1>1, <1>2

\* A result read as the in-flight turn's is that turn's, and no CLI that serves
\* holds a turn any more.
LEMMA ResultIsInflights ==
    ASSUME TypeOK, OwnerHolds, LinesAnswered, Ledger, LinesOwed, NEW p \in Procs, ReadResult(p)
    PROVE  /\ Head(pipe[p]).turn = inflight /\ inflight \in Answered
           /\ Unresolved(inflight)
           /\ \A q \in Procs : ~refuses[q] => todo[q] = <<>>
<1>. DEFINE t == Head(pipe[p]).turn
<1>1. pipe[p] \in Seq(Lines) /\ pipe[p] # <<>> /\ Head(pipe[p]).kind = "result" /\ t \notin seen
  BY DEF ReadResult, ReadsFrom, Duplicate, TypeOK, CliTyped
<1>2. Head(pipe[p]) = pipe[p][1] /\ 1 \in 1..Len(pipe[p])
  BY <1>1
<1>3. t \in Answered /\ Unresolved(t)
  BY <1>1, <1>2 DEF LinesAnswered, LinesOwed
<1>4. t = inflight
  BY <1>3 DEF OwnerHolds, Answered
<1>5. \A q \in Procs : ~refuses[q] => todo[q] = <<>>
  BY <1>3, <1>4 DEF Ledger, TodoOwned
<1>. QED
  BY <1>3, <1>4, <1>5

LEMMA ReadResultLedger ==
    ASSUME TypeOK, TypeOK', OwnerHolds, QueueWaits, LinesAnswered, Ledger, LinesOwed,
           NEW p \in Procs, ReadResult(p)
    PROVE  Ledger'
<1>. DEFINE outcome == fate[Head(pipe[p]).turn]
<1>1. /\ Head(pipe[p]).turn = inflight /\ inflight \in Answered /\ Unresolved(inflight)
      /\ \A q \in Procs : ~refuses[q] => todo[q] = <<>>
  BY ResultIsInflights
<1>2. /\ outcome = fate[inflight] /\ inflight \in Turns
      /\ outcome \in {"completed", "failed", "unrecognized"}
      /\ native \in [Turns -> {"unknown", "completed", "failed"}]
  BY <1>1 DEF Answered, TypeOK, OwnershipTyped
<1>3. /\ ext # 0 => ext' = ext
      /\ UNCHANGED <<proc, stderr, fate, refuses, sid>>
  BY DEF ReadResult, Foreign
<1>4. CASE Recognized(outcome)
  <2>1. /\ native' = [native EXCEPT ![inflight] = outcome]
        /\ \E told : ProcessNextTurn(told, registering)
    BY <1>4 DEF ReadResult
  <2>2. /\ native'[inflight] = fate[inflight] /\ native'[inflight] # "unknown"
        /\ \A u \in Turns : u # inflight => native'[u] = native[u]
    BY <1>2, <1>4, <2>1 DEF Recognized
  <2>3. NothingOwed
    BY <1>1, <1>2, <2>2
    DEF NothingOwed, OwnerHolds, Unresolved, Ledger, HonestOutcome, AnsweredWasWritten
  <2>. QED
    BY <1>3, <2>1, <2>3, ProcessNextTurnLedger
<1>5. CASE ~Recognized(outcome)
  <2>1. /\ native' = [native EXCEPT ![inflight] = "unknown"]
        /\ UNCHANGED <<inflight, disp, todo>>
    BY <1>5 DEF ReadResult
  <2>2. native' = native
    BY <1>1, <1>2, <2>1 DEF Unresolved
  <2>. QED
    BY <1>3, <2>1, <2>2, LedgerQuiet DEF Ledger, GoneForGood
<1>. QED
  BY <1>4, <1>5

LEMMA SendAdmitsLedger ==
    ASSUME TypeOK, TypeOK', Owned, Ledger, NEW t \in Turns, SendAdmits(t)
    PROVE  Ledger'
<1>1. UNCHANGED <<proc, ext, stderr, native, fate, refuses, sid>> /\ disp[t] = "not-dispatched"
  BY DEF SendAdmits, session, Owned, UnsentUntouched
<1>2. CASE UNCHANGED <<inflight, disp, todo>>
  BY <1>1, <1>2, LedgerQuiet
<1>3. CASE /\ inflight = NoTurn
           /\ DispatchTurn(t, queue, [local EXCEPT ![t] = "pending"], registering)
  <2>1. \A u \in Turns : ~Unresolved(u)
    BY <1>3, SessionAssumption DEF Owned, OwnerHolds
  <2>. QED
    BY <1>1, <1>3, <2>1, NothingOwedWhenFree, DispatchTurnTakes, TakesLedger
<1>. QED
  BY <1>2, <1>3 DEF SendAdmits

LEMMA RegistrationLedger ==
    ASSUME TypeOK, TypeOK', Owned, Ledger, NEW t \in Turns,
           RegistrationDone(t) \/ RegistrationFails(t)
    PROVE  Ledger'
<1>1. /\ UNCHANGED <<proc, ext, stderr, native, fate, refuses, sid>>
      /\ disp[t] = "not-dispatched"
  BY DEF RegistrationDone, RegistrationFails, session, Owned, RegistrationWaits
<1>2. CASE UNCHANGED <<inflight, disp, todo>>
  BY <1>1, <1>2, LedgerQuiet
<1>3. CASE inflight = t /\ (WriteTurn(t, queue, local) \/ \E told : ProcessNextTurn(told, registering \ {t}))
  <2>1. \A u \in Turns : ~Unresolved(u)
    BY <1>1, <1>3 DEF Owned, OwnerHolds, Unresolved
  <2>2. NothingOwed /\ QueueWaits
    BY <1>1, <2>1, NothingOwedWhenFree DEF Owned
  <2>. QED
    BY <1>1, <1>3, <2>2, WriteTurnTakes, TakesLedger, ProcessNextTurnLedger
<1>. QED
  BY <1>2, <1>3 DEF RegistrationDone, RegistrationFails

\* A CLI that serves starts the turn in flight; no CLI that refused holds it.
LEMMA CliTakesTurnLedger ==
    ASSUME TypeOK, Ledger, NEW p \in Procs, CliTakesTurn(p)
    PROVE  Ledger'
<1>. DEFINE t == Head(todo[p])
<1>1. /\ UNCHANGED <<proc, ext, stderr, native, disp, inflight, refuses, todo, sid>>
      /\ ~refuses[p] /\ todo[p] # <<>>
      /\ fate[t] = "unread" /\ fate' = [fate EXCEPT ![t] = "running"]
  BY DEF CliTakesTurn, Serves, session, ownership
<1>2. /\ inflight \in Turns /\ t = inflight /\ Unresolved(inflight)
      /\ \A q \in Procs : ~refuses[q]
      /\ fate \in [Turns -> {"unread", "running", "completed", "failed", "unrecognized"}]
  BY <1>1 DEF Ledger, TodoOwned, GoneForGood, TypeOK, CliTyped
<1>3. HonestOutcome' /\ HonestNoSend' /\ AnsweredWasWritten'
  BY <1>1, <1>2 DEF Ledger, HonestOutcome, HonestNoSend, AnsweredWasWritten, Unresolved
<1>4. TodoOwned'
  BY <1>1, <1>2 DEF Ledger, TodoOwned, Unresolved, Answered
<1>5. GoneForGood'
  BY <1>1, <1>2 DEF Ledger, GoneForGood
<1>. QED
  BY <1>3, <1>4, <1>5 DEF Ledger

\* Only a turn that was started is answered: the one in flight.
LEMMA CliAnswersTurn ==
    ASSUME TypeOK, Ledger, NEW p \in Procs, CliAnswers(p)
    PROVE  /\ ~refuses[p] /\ todo[p] = <<inflight>> /\ inflight \in Turns
           /\ Unresolved(inflight) /\ \A q \in Procs : ~refuses[q]
<1>1. todo[p] \in Seq(Turns) /\ todo[p] # <<>> /\ fate[Head(todo[p])] = "running"
  BY DEF CliAnswers, TypeOK, CliTyped
<1>2. Head(todo[p]) = todo[p][1] /\ 1 \in 1..Len(todo[p])
  BY <1>1
<1>3. ~refuses[p]
  BY <1>1, <1>2 DEF Ledger, GoneForGood
<1>. QED
  BY <1>1, <1>3 DEF Ledger, TodoOwned, GoneForGood

LEMMA CliAnswersLedger ==
    ASSUME TypeOK, Ledger, NEW p \in Procs, CliAnswers(p)
    PROVE  Ledger'
<1>1. UNCHANGED <<proc, ext, stderr, native, disp, inflight, refuses, sid>>
  BY DEF CliAnswers, session, ownership
<1>2. /\ ~refuses[p] /\ todo[p] = <<inflight>> /\ inflight \in Turns
      /\ Unresolved(inflight) /\ \A q \in Procs : ~refuses[q]
  BY CliAnswersTurn
<1>3. /\ todo' = [todo EXCEPT ![p] = Tail(@)] /\ Tail(<<inflight>>) = <<>>
      /\ todo \in [Procs -> Seq(Turns)]
      /\ \A u \in Turns : u # inflight => fate'[u] = fate[u]
  BY <1>2 DEF CliAnswers, TypeOK, CliTyped
<1>4. \A q \in Procs : todo'[q] = <<>>
  BY <1>2, <1>3 DEF Ledger, TodoOwned
<1>5. HonestOutcome' /\ HonestNoSend' /\ AnsweredWasWritten'
  BY <1>1, <1>2, <1>3 DEF Ledger, HonestOutcome, HonestNoSend, AnsweredWasWritten, Unresolved
<1>6. TodoOwned' /\ GoneForGood'
  BY <1>1, <1>2, <1>4 DEF Ledger, TodoOwned, GoneForGood
<1>. QED
  BY <1>5, <1>6 DEF Ledger

LEMMA LedgerStep ==
    ASSUME TypeOK, TypeOK', Owned, LinesAnswered, Ledger, LinesOwed, [Next]_vars
    PROVE  Ledger'
<1>1. CASE Start
  BY <1>1, SpawnLedger DEF Start, Owned, ownership
<1>2. ASSUME NEW t \in Turns, SendRestarts(t)
      PROVE  Ledger'
  BY <1>2, SpawnLedger DEF SendRestarts, Owned, ownership
<1>3. CASE \/ Kill \/ Interrupt \/ TimerFires
           \/ \E t \in Turns : SendBlocked(t) \/ SendEnters(t) \/ HookThrows(t)
           \/ \E p \in Procs : StartReturns(p) \/ InitTimeout(p)
  BY <1>3, LedgerQuiet
  DEF Kill, Interrupt, TimerFires, SendBlocked, SendEnters, HookThrows, StartReturns,
      InitTimeout, RejectInflight, session, ownership, cli
<1>4. ASSUME NEW t \in Turns, SendAdmits(t) \/ RegistrationDone(t) \/ RegistrationFails(t)
      PROVE  Ledger'
  BY <1>4, SendAdmitsLedger, RegistrationLedger
<1>5. ASSUME NEW p \in Procs,
             \/ ReadDropped(p) \/ ReadControl(p) \/ ReadInit(p) \/ ReadUnowned(p)
             \/ ReadEof(p) \/ ReadError(p) \/ ReadStderr(p) \/ ExitNoticed(p) \/ ExitDrained(p)
      PROVE  Ledger'
  <2>1. /\ UNCHANGED <<proc, disp, native, fate, inflight, refuses, todo, sid>>
        /\ ext # 0 => ext' = ext
        /\ stderr' # {} => stderr # {} \/ refuses[p]
    BY <1>5
    DEF ReadDropped, ReadControl, ReadInit, ReadUnowned, ReadEof, ReadError, ReadStderr,
        ExitNoticed, ExitDrained, Foreign, session, ownership, cli
  <2>. QED
    BY <2>1, LedgerQuiet
<1>6. ASSUME NEW p \in Procs, ReadResult(p)
      PROVE  Ledger'
  BY <1>6, ReadResultLedger DEF Owned
<1>7. ASSUME NEW p \in Procs, ReadSettles(p) \/ ExitSettles(p)
      PROVE  Ledger'
  BY <1>7, MissingLedger DEF ReadSettles, ExitSettles, Owned, cli
<1>8. ASSUME NEW p \in Procs,
             \/ CliAnswersInit(p) \/ CliClosesOutput(p) \/ CliExits(p)
             \/ \E t \in Turns : CliRepeats(p, t)
      PROVE  Ledger'
  BY <1>8, LedgerQuiet
  DEF CliAnswersInit, CliClosesOutput, CliExits, CliRepeats, session, ownership
<1>9. ASSUME NEW p \in Procs, CliTakesTurn(p) \/ CliAnswers(p)
      PROVE  Ledger'
  BY <1>9, CliTakesTurnLedger, CliAnswersLedger
<1>10. CASE UNCHANGED vars
  BY <1>10, LedgerQuiet DEF vars, session, ownership, cli
<1>. QED
  BY <1>1, <1>2, <1>3, <1>4, <1>5, <1>6, <1>7, <1>8, <1>9, <1>10
  DEF Next, Caller, Continuations, Streams, Cli

----------------------------------------------------------------------------
(* A result not seen yet is of a turn still owed one                        *)

\* No answered turn stops being unresolved before its result is seen.
KeepsOwing ==
    /\ seen \subseteq seen'
    /\ \A t \in Answered : Unresolved(t) /\ t \notin seen' => Unresolved(t)'

LEMMA KeepsOwingStep ==
    ASSUME TypeOK, TypeOK', Owned, LinesAnswered, Ledger, LinesOwed, [Next]_vars
    PROVE  KeepsOwing
<1>1. disp \in [Turns -> {"not-dispatched", "attempted"}] /\ Answered \subseteq Turns
  BY DEF TypeOK, OwnershipTyped, Answered
<1>2. ASSUME UNCHANGED <<seen, native, disp>>
      PROVE  KeepsOwing
  BY <1>2 DEF KeepsOwing, Unresolved
<1>3. ASSUME UNCHANGED <<seen, native>>,
             NEW t \in Turns, disp' = disp \/ disp' = [disp EXCEPT ![t] = "attempted"]
      PROVE  KeepsOwing
  BY <1>1, <1>3 DEF KeepsOwing, Unresolved
<1>4. ASSUME UNCHANGED <<seen, native>>, SettleMissing
      PROVE  KeepsOwing
  <2>1. ASSUME NEW t \in Answered, Unresolved(t), disp'[t] # "attempted"
        PROVE  FALSE
    <3>1. stderr # {}
      BY <1>1, <1>4, <2>1 DEF SettleMissing, NoSend, Unresolved
    <3>2. fate[t] = "unread"
      BY <1>1, <2>1, <3>1 DEF Ledger, GoneForGood
    <3>. QED
      BY <2>1, <3>2 DEF Answered
  <2>. QED
    BY <1>4, <2>1 DEF KeepsOwing, Unresolved
<1>5. CASE Caller
  BY <1>2, <1>5
  DEF Caller, Start, Kill, Interrupt, SendBlocked, SendRestarts, SendEnters, ownership, session
<1>6. ASSUME NEW p \in Procs, StartReturns(p) \/ InitTimeout(p)
      PROVE  KeepsOwing
  BY <1>2, <1>6 DEF StartReturns, InitTimeout, ownership, session
<1>7. ASSUME NEW t \in Turns, HookThrows(t)
      PROVE  KeepsOwing
  BY <1>2, <1>7 DEF HookThrows, ownership, session
<1>8. CASE TimerFires
  BY <1>2, <1>8 DEF TimerFires, session
<1>9. ASSUME NEW told, NEW regs, UNCHANGED <<seen, native>>, ProcessNextTurn(told, regs)
      PROVE  KeepsOwing
  <2>1. CASE queue # <<>> /\ alive
    <3>1. Head(queue) \in Turns
      BY <2>1 DEF TypeOK, OwnershipTyped
    <3>. QED
      BY <1>3, <1>9, <2>1, <3>1, DispatchTurnTakes DEF ProcessNextTurn, Takes
  <2>2. CASE ~(queue # <<>> /\ alive)
    BY <1>2, <1>9, <2>2 DEF ProcessNextTurn
  <2>. QED
    BY <2>1, <2>2
<1>10. ASSUME NEW t \in Turns, SendAdmits(t)
       PROVE  KeepsOwing
  BY <1>2, <1>3, <1>10, DispatchTurnTakes DEF SendAdmits, Takes, session
<1>11. ASSUME NEW t \in Turns, RegistrationDone(t) \/ RegistrationFails(t)
       PROVE  KeepsOwing
  <2>1. UNCHANGED <<seen, native>>
    BY <1>11 DEF RegistrationDone, RegistrationFails, session
  <2>. QED
    BY <1>2, <1>3, <1>9, <1>11, <2>1, WriteTurnTakes
    DEF RegistrationDone, RegistrationFails, Takes
<1>12. ASSUME NEW p \in Procs,
              \/ ReadDropped(p) \/ ReadControl(p) \/ ReadInit(p) \/ ReadUnowned(p)
              \/ ReadEof(p) \/ ReadError(p) \/ ReadStderr(p) \/ ExitNoticed(p) \/ ExitDrained(p)
       PROVE  KeepsOwing
  <2>1. seen \subseteq seen' /\ UNCHANGED <<native, disp>>
    BY <1>12
    DEF ReadDropped, ReadControl, ReadInit, ReadUnowned, ReadEof, ReadError, ReadStderr,
        ExitNoticed, ExitDrained, session, ownership
  <2>. QED
    BY <2>1 DEF KeepsOwing, Unresolved
<1>13. ASSUME NEW p \in Procs, ReadResult(p)
       PROVE  KeepsOwing
  <2>1. seen' = seen \cup {inflight}
    BY <1>13, ResultIsInflights DEF ReadResult, Owned
  <2>2. \A t \in Turns : Unresolved(t) => t \in seen'
    BY <2>1 DEF Owned, OwnerHolds
  <2>. QED
    BY <1>1, <2>1, <2>2 DEF KeepsOwing
<1>14. ASSUME NEW p \in Procs, ReadSettles(p) \/ ExitSettles(p)
       PROVE  KeepsOwing
  BY <1>4, <1>14 DEF ReadSettles, ExitSettles
<1>15. CASE Cli \/ UNCHANGED vars
  BY <1>2, <1>15
  DEF Cli, CliAnswersInit, CliTakesTurn, CliAnswers, CliRepeats, CliClosesOutput, CliExits,
      vars, session, ownership
<1>. QED
  BY <1>5, <1>6, <1>7, <1>8, <1>10, <1>11, <1>12, <1>13, <1>14, <1>15
  DEF Next, Continuations, Streams

LEMMA LinesOwedKept ==
    ASSUME TypeOK, LinesAnswered, LinesOwed, KeepsOwing, UNCHANGED pipe
    PROVE  LinesOwed'
BY DEF LinesOwed, LinesAnswered, KeepsOwing

LEMMA LinesOwedPopped ==
    ASSUME TypeOK, LinesAnswered, LinesOwed, KeepsOwing,
           NEW p \in Procs, ReadsFrom(p), Pop(p)
    PROVE  LinesOwed'
<1>1. pipe[p] \in Seq(Lines) /\ pipe[p] # <<>> /\ pipe' = [pipe EXCEPT ![p] = Tail(@)]
      /\ pipe \in [Procs -> Seq(Lines)]
  BY DEF TypeOK, CliTyped, ReadsFrom, Pop
<1>2. ASSUME NEW q \in Procs, NEW i \in 1..Len(pipe'[q])
      PROVE  \E j \in 1..Len(pipe[q]) : pipe'[q][i] = pipe[q][j]
  <2>1. CASE q = p
    <3>1. /\ pipe[p] \in Seq(Lines) /\ pipe[p] # <<>>
          /\ pipe'[q] = Tail(pipe[p]) /\ i \in 1..Len(pipe'[q])
      BY <1>1, <1>2, <2>1
    <3>2. i + 1 \in 1..Len(pipe[p]) /\ pipe'[q][i] = pipe[p][i + 1]
      BY <3>1
    <3>. QED
      BY <2>1, <3>2
  <2>2. CASE q # p
    BY <1>1, <1>2, <2>2
  <2>. QED
    BY <2>1, <2>2
<1>. QED
  BY <1>2 DEF LinesOwed, LinesAnswered, KeepsOwing

LEMMA LinesOwedEmitted ==
    ASSUME TypeOK, LinesAnswered, LinesOwed, KeepsOwing,
           NEW p \in Procs, NEW kind, NEW t, Emit(p, kind, t),
           kind = "result" => t \in seen \/ (disp'[t] = "attempted" /\ native'[t] = "unknown")
    PROVE  LinesOwed'
<1>1. pipe \in [Procs -> Seq(Lines)]
  BY DEF TypeOK, CliTyped
<1>. SUFFICES ASSUME NEW q \in Procs, NEW i \in 1..Len(pipe'[q]), pipe'[q][i].kind = "result",
                     pipe'[q][i].turn \notin seen'
              PROVE  disp'[pipe'[q][i].turn] = "attempted" /\ native'[pipe'[q][i].turn] = "unknown"
  BY DEF LinesOwed, Unresolved
<1>2. CASE q = p /\ i = Len(pipe[p]) + 1
  <2>1. pipe'[q][i] = [kind |-> kind, turn |-> t]
    BY <1>1, <1>2 DEF Emit
  <2>. QED
    BY <2>1 DEF KeepsOwing
<1>3. CASE q # p \/ i # Len(pipe[p]) + 1
  <2>1. i \in 1..Len(pipe[q]) /\ pipe'[q][i] = pipe[q][i]
    BY <1>1, <1>3 DEF Emit
  <2>2. pipe[q][i].turn \in Answered /\ Unresolved(pipe[q][i].turn)
    BY <2>1 DEF LinesOwed, LinesAnswered, KeepsOwing
  <2>. QED
    BY <2>1, <2>2 DEF KeepsOwing, Unresolved
<1>. QED
  BY <1>2, <1>3

LEMMA LinesOwedStep ==
    ASSUME TypeOK, TypeOK', Owned, LinesAnswered, Ledger, LinesOwed, [Next]_vars
    PROVE  LinesOwed'
<1>1. KeepsOwing
  BY KeepsOwingStep
<1>2. ASSUME NEW p \in Procs,
             ReadDropped(p) \/ ReadControl(p) \/ ReadInit(p) \/ ReadUnowned(p) \/ ReadResult(p)
      PROVE  LinesOwed'
  <2>1. ReadsFrom(p) /\ Pop(p)
    BY <1>2 DEF ReadDropped, ReadControl, ReadInit, ReadUnowned, ReadResult
  <2>. QED
    BY <1>1, <2>1, LinesOwedPopped
<1>3. ASSUME NEW p \in Procs, CliAnswersInit(p) \/ CliTakesTurn(p)
      PROVE  LinesOwed'
  <2>1. Emit(p, "control", NoTurn) \/ Emit(p, "init", NoTurn)
    BY <1>3 DEF CliAnswersInit, CliTakesTurn
  <2>. QED
    BY <1>1, <2>1, LinesOwedEmitted
<1>4. ASSUME NEW p \in Procs, CliAnswers(p)
      PROVE  LinesOwed'
  <2>1. /\ Emit(p, "result", Head(todo[p])) /\ UNCHANGED <<disp, native>>
        /\ todo[p] = <<inflight>> /\ Unresolved(inflight)
    BY <1>4, CliAnswersTurn DEF CliAnswers, ownership
  <2>2. Head(todo[p]) = inflight
    BY <2>1
  <2>3. disp'[Head(todo[p])] = "attempted" /\ native'[Head(todo[p])] = "unknown"
    BY <2>1, <2>2 DEF Unresolved
  <2>. QED
    BY <1>1, <2>1, <2>3, LinesOwedEmitted
<1>5. ASSUME NEW p \in Procs, NEW t \in Turns, CliRepeats(p, t)
      PROVE  LinesOwed'
  <2>1. Emit(p, "result", t) /\ t \in seen
    BY <1>5 DEF CliRepeats
  <2>. QED
    BY <1>1, <2>1, LinesOwedEmitted
<1>6. CASE UNCHANGED pipe
  BY <1>1, <1>6, LinesOwedKept
<1>7. CASE Caller
  BY <1>6, <1>7
  DEF Caller, Start, Kill, Interrupt, SendBlocked, SendRestarts, SendEnters, Spawn, session, cli
<1>8. CASE Continuations
  BY <1>6, <1>8
  DEF Continuations, StartReturns, InitTimeout, HookThrows, SendAdmits,
      RegistrationDone, RegistrationFails, TimerFires, cli
<1>9. ASSUME NEW p \in Procs,
             \/ ReadEof(p) \/ ReadSettles(p) \/ ReadError(p) \/ ReadStderr(p)
             \/ ExitNoticed(p) \/ ExitDrained(p) \/ ExitSettles(p)
             \/ CliClosesOutput(p) \/ CliExits(p)
      PROVE  LinesOwed'
  BY <1>6, <1>9
  DEF ReadEof, ReadSettles, ReadError, ReadStderr, ExitNoticed, ExitDrained, ExitSettles,
      CliClosesOutput, CliExits, cli
<1>10. CASE UNCHANGED vars
  BY <1>6, <1>10 DEF vars, cli
<1>. QED
  BY <1>2, <1>3, <1>4, <1>5, <1>7, <1>8, <1>9, <1>10 DEF Next, Streams, Cli

----------------------------------------------------------------------------
(* Callers: a queued send waits, one not yet an attempt was told nothing    *)

Told == QueuePending /\ UnsentUntold

\* From what it was told so far a caller hears of a failure, if it still waits.
Fails(told) == \A t \in Turns : local'[t] = told[t] \/ (told[t] = "pending" /\ local'[t] \in Failures)

LEMMA RejectionFails ==
    ASSUME TypeOK, NEW why \in Failures,
           RejectInflight(why) \/ RejectInflightAndQueue(why)
           \/ (local' = RejectedFor(why) /\ queue' = <<>>) \/ UNCHANGED <<local, queue>>
    PROVE  Fails(local) /\ queue' \in {queue, <<>>} /\ (queue' # <<>> => UNCHANGED <<local, queue>>)
<1>1. \A t \in Turns : \/ RejectedFor(why)[t] = local[t]
                       \/ local[t] = "pending" /\ RejectedFor(why)[t] \in Failures
  BY DEF RejectedFor, Failures
<1>. QED
  BY <1>1 DEF Fails, RejectInflight, RejectInflightAndQueue

LEMMA WriteTurnFails ==
    ASSUME TypeOK, NEW t \in Turns, NEW rest \in Seq(Turns), NEW told \in [Turns -> LocalOutcomes],
           told[t] = "pending", \A i \in 1..Len(rest) : told[rest[i]] = "pending",
           WriteTurn(t, rest, told)
    PROVE  Fails(told) /\ QueuePending'
<1>1. CASE queue' = rest /\ local' = told
  BY <1>1 DEF Fails, QueuePending
<1>2. CASE /\ queue' = <<>>
           /\ local' = [u \in Turns |-> IF u = t THEN "transport"
                                        ELSE IF u \in Elems(rest) THEN "blocked"
                                        ELSE told[u]]
  <2>1. \A u \in Elems(rest) : told[u] = "pending"
    BY DEF Elems
  <2>. QED
    BY <1>2, <2>1 DEF Fails, Failures, QueuePending
<1>. QED
  BY <1>1, <1>2 DEF WriteTurn

LEMMA DispatchTurnFails ==
    ASSUME TypeOK, NEW t \in Turns, NEW rest \in Seq(Turns), NEW told \in [Turns -> LocalOutcomes],
           NEW regs, told[t] = "pending", \A i \in 1..Len(rest) : told[rest[i]] = "pending",
           DispatchTurn(t, rest, told, regs)
    PROVE  Fails(told) /\ QueuePending'
<1>1. CASE WriteTurn(t, rest, told)
  BY <1>1, WriteTurnFails
<1>2. CASE queue' = rest /\ local' = told
  BY <1>2 DEF Fails, QueuePending
<1>. QED
  BY <1>1, <1>2 DEF DispatchTurn

LEMMA ProcessNextTurnFails ==
    ASSUME TypeOK, NEW told \in [Turns -> LocalOutcomes], NEW regs,
           \A i \in 1..Len(queue) : told[queue[i]] = "pending",
           ProcessNextTurn(told, regs)
    PROVE  Fails(told) /\ QueuePending'
<1>1. CASE queue # <<>> /\ alive
  <2>1. /\ queue \in Seq(Turns) /\ Head(queue) = queue[1] /\ 1 \in 1..Len(queue)
        /\ Head(queue) \in Turns /\ Tail(queue) \in Seq(Turns)
    BY <1>1 DEF TypeOK, OwnershipTyped
  <2>2. \A i \in 1..Len(Tail(queue)) : i + 1 \in 1..Len(queue) /\ Tail(queue)[i] = queue[i + 1]
    BY <1>1, <2>1
  <2>3. /\ told[Head(queue)] = "pending"
        /\ \A i \in 1..Len(Tail(queue)) : told[Tail(queue)[i]] = "pending"
    BY <2>1, <2>2
  <2>4. DispatchTurn(Head(queue), Tail(queue), told, regs)
    BY <1>1 DEF ProcessNextTurn
  <2>. QED
    BY <2>1, <2>3, <2>4, DispatchTurnFails
<1>2. CASE ~(queue # <<>> /\ alive)
  BY <1>2 DEF ProcessNextTurn, Fails, QueuePending
<1>. QED
  BY <1>1, <1>2

\* What a step may tell a caller: nothing, that it waits, a failure, or the
\* runtime's own outcome.
LocalMoves ==
    \A t \in Turns :
        \/ local'[t] = local[t]
        \/ local[t] = "none" /\ send[t] # "sent" /\ send'[t] = "sent"
           /\ local'[t] \in {"pending"} \cup Failures
        \/ local[t] = "pending" /\ local'[t] \in Failures
        \/ local[t] = "pending" /\ local'[t] = "resolved" /\ native'[t] # "unknown"

\* Steps that tell at most failures.
LEMMA ToldFailures ==
    ASSUME TypeOK, Told, Fails(local), QueuePending',
           \A t \in Turns : send'[t] # "sent" => send[t] # "sent"
    PROVE  LocalMoves /\ Told'
<1>1. LocalMoves
  BY DEF Fails, LocalMoves
<1>2. UnsentUntold'
  BY DEF Told, UnsentUntold, Fails
<1>. QED
  BY <1>1, <1>2 DEF Told

\* Steps in which one send becomes an attempt.
LEMMA ToldAdmitted ==
    ASSUME TypeOK, Told, NEW t \in Turns, send[t] # "sent", send' = [send EXCEPT ![t] = "sent"],
           \A u \in Turns : u # t => local'[u] = local[u]
                                     \/ (local[u] = "pending" /\ local'[u] \in Failures),
           local'[t] \in {"pending"} \cup Failures, QueuePending'
    PROVE  LocalMoves /\ Told'
<1>1. send \in [Turns -> {"idle", "starting", "hooks", "sent", "refused"}]
  BY DEF TypeOK, PendingTyped
<1>2. LocalMoves
  BY <1>1 DEF Told, UnsentUntold, LocalMoves
<1>3. UnsentUntold'
  BY <1>1 DEF Told, UnsentUntold
<1>. QED
  BY <1>2, <1>3 DEF Told

LEMMA SendAdmitsTold ==
    ASSUME TypeOK, Owned, Told, NEW t \in Turns, SendAdmits(t)
    PROVE  LocalMoves /\ Told'
<1>. DEFINE told == [local EXCEPT ![t] = "pending"]
<1>1. /\ queue \in Seq(Turns) /\ local \in [Turns -> LocalOutcomes]
      /\ told \in [Turns -> LocalOutcomes]
      /\ send[t] # "sent" /\ send' = [send EXCEPT ![t] = "sent"]
      /\ \A i \in 1..Len(queue) : queue[i] \in Turns /\ queue[i] # t
  BY DEF SendAdmits, TypeOK, OwnershipTyped, LocalOutcomes, Owned, QueueWaits
<1>2. \A i \in 1..Len(queue) : local[queue[i]] = "pending" /\ told[queue[i]] = "pending"
  BY <1>1 DEF Told, QueuePending
<1>3. CASE local' = [local EXCEPT ![t] = "blocked"] /\ UNCHANGED queue
  <2>1. QueuePending'
    BY <1>1, <1>2, <1>3 DEF QueuePending
  <2>. QED
    BY <1>1, <1>3, <2>1, ToldAdmitted DEF Failures
<1>4. CASE DispatchTurn(t, queue, told, registering)
  <2>1. Fails(told) /\ QueuePending'
    BY <1>1, <1>2, <1>4, DispatchTurnFails
  <2>. QED
    BY <1>1, <2>1, ToldAdmitted DEF Fails
<1>5. CASE queue' = Append(queue, t) /\ local' = told
  <2>1. QueuePending'
    <3>. SUFFICES ASSUME NEW i \in 1..Len(queue') PROVE local'[queue'[i]] = "pending"
      BY DEF QueuePending
    <3>1. CASE i \in 1..Len(queue)
      <4>1. queue'[i] = queue[i]
        BY <1>1, <1>5, <3>1
      <4>. QED
        BY <1>2, <1>5, <3>1, <4>1
    <3>2. CASE i \notin 1..Len(queue)
      <4>1. queue'[i] = t
        BY <1>1, <1>5, <3>2
      <4>. QED
        BY <1>1, <1>5, <4>1
    <3>. QED
      BY <3>1, <3>2
  <2>. QED
    BY <1>1, <1>5, <2>1, ToldAdmitted
<1>. QED
  BY <1>3, <1>4, <1>5 DEF SendAdmits

LEMMA RegistrationTold ==
    ASSUME TypeOK, Owned, Told, NEW t \in Turns, RegistrationDone(t) \/ RegistrationFails(t)
    PROVE  LocalMoves /\ Told'
<1>1. /\ queue \in Seq(Turns) /\ local \in [Turns -> LocalOutcomes] /\ UNCHANGED send
      /\ \A i \in 1..Len(queue) : /\ queue[i] \in Turns /\ queue[i] # t
                                  /\ local[queue[i]] = "pending"
  BY DEF RegistrationDone, RegistrationFails, TypeOK, OwnershipTyped, LocalOutcomes, Owned,
         QueueWaits, Told, QueuePending
<1>2. CASE RegistrationDone(t)
  <2>1. Fails(local) /\ QueuePending'
    BY <1>1, <1>2, WriteTurnFails, ProcessNextTurnFails
    DEF RegistrationDone, Fails, QueuePending, Told
  <2>. QED
    BY <1>1, <2>1, ToldFailures
<1>3. CASE RegistrationFails(t)
  <2>. DEFINE told == [local EXCEPT ![t] = IF @ = "pending" THEN "registration" ELSE @]
  <2>1. /\ told \in [Turns -> LocalOutcomes]
        /\ \A i \in 1..Len(queue) : told[queue[i]] = "pending"
        /\ \A u \in Turns : told[u] = local[u]
                            \/ (local[u] = "pending" /\ told[u] \in Failures)
    BY <1>1 DEF LocalOutcomes, Failures
  <2>2. Fails(told) /\ QueuePending'
    <3>1. CASE ProcessNextTurn(told, registering \ {t})
      BY <2>1, <3>1, ProcessNextTurnFails
    <3>2. CASE local' = told /\ UNCHANGED queue
      BY <2>1, <3>2 DEF Fails, QueuePending
    <3>. QED
      BY <1>3, <3>1, <3>2 DEF RegistrationFails
  <2>3. Fails(local)
    BY <2>1, <2>2 DEF Fails, Failures
  <2>. QED
    BY <1>1, <2>2, <2>3, ToldFailures
<1>. QED
  BY <1>2, <1>3

LEMMA ReadResultTold ==
    ASSUME TypeOK, Owned, LinesAnswered, Ledger, LinesOwed, Told, NEW p \in Procs, ReadResult(p)
    PROVE  LocalMoves /\ Told'
<1>. DEFINE outcome == fate[Head(pipe[p]).turn]
            told == [local EXCEPT ![inflight] = IF @ = "pending" THEN "resolved" ELSE @]
<1>. HIDE DEF outcome, told
<1>1. /\ inflight \in Turns /\ outcome \in {"completed", "failed", "unrecognized"}
      /\ Unresolved(inflight) /\ UNCHANGED send
  BY ResultIsInflights DEF outcome, ReadResult, Answered, Owned
<1>2. /\ local \in [Turns -> LocalOutcomes]
      /\ native \in [Turns -> {"unknown", "completed", "failed"}]
      /\ queue \in Seq(Turns)
  BY DEF TypeOK, OwnershipTyped, LocalOutcomes
<1>3. told \in [Turns -> LocalOutcomes]
  BY <1>2 DEF told, LocalOutcomes
<1>4. /\ local \in [Turns -> LocalOutcomes] /\ told \in [Turns -> LocalOutcomes]
      /\ native \in [Turns -> {"unknown", "completed", "failed"}]
      /\ queue \in Seq(Turns)
      /\ \A i \in 1..Len(queue) : queue[i] \in Turns
  BY <1>2, <1>3
<1>5. \A i \in 1..Len(queue) : queue[i] # inflight /\ local[queue[i]] = "pending"
  BY <1>1, <1>4 DEF Owned, QueueWaits, Unresolved, Told, QueuePending
<1>6. CASE Recognized(outcome)
  <2>1. /\ native' = [native EXCEPT ![inflight] = outcome] /\ native'[inflight] # "unknown"
        /\ ProcessNextTurn(told, registering)
    BY <1>1, <1>4, <1>6 DEF ReadResult, Recognized, outcome, told
  <2>2. /\ \A i \in 1..Len(queue) : told[queue[i]] = "pending"
        /\ \A u \in Turns : told[u] = local[u]
             \/ (u = inflight /\ local[u] = "pending" /\ told[u] = "resolved")
    BY <1>4, <1>5 DEF told
  <2>3. Fails(told) /\ QueuePending'
    BY <1>4, <2>1, <2>2, ProcessNextTurnFails
  <2>4. LocalMoves
    BY <2>1, <2>2, <2>3 DEF Fails, LocalMoves
  <2>5. UnsentUntold'
    BY <1>1, <2>2, <2>3 DEF Fails, Told, UnsentUntold
  <2>. QED
    BY <2>3, <2>4, <2>5 DEF Told
<1>7. CASE ~Recognized(outcome)
  <2>1. RejectInflight("unrecognized-terminal")
    BY <1>7 DEF ReadResult, outcome
  <2>2. Fails(local) /\ QueuePending'
    BY <2>1, RejectionFails DEF Failures, Told, QueuePending
  <2>. QED
    BY <1>1, <2>2, ToldFailures
<1>. QED
  BY <1>6, <1>7

LEMMA ToldStep ==
    ASSUME TypeOK, Owned, StartersWait, LinesAnswered, Ledger, LinesOwed, Told, [Next]_vars
    PROVE  LocalMoves /\ Told'
<1>1. /\ send \in [Turns -> {"idle", "starting", "hooks", "sent", "refused"}]
      /\ \A i \in 1..Len(queue) : queue[i] \in Turns
  BY DEF TypeOK, PendingTyped, OwnershipTyped
<1>2. ASSUME NEW why \in Failures,
             \/ RejectInflight(why) \/ RejectInflightAndQueue(why)
             \/ (local' = RejectedFor(why) /\ queue' = <<>>) \/ UNCHANGED <<local, queue>>,
             \A t \in Turns : send'[t] # "sent" => send[t] # "sent"
      PROVE  LocalMoves /\ Told'
  <2>1. Fails(local)
    BY <1>2, RejectionFails
  <2>2. QueuePending'
    BY <1>2, RejectionFails DEF Told, QueuePending
  <2>. QED
    BY <1>2, <2>1, <2>2, ToldFailures
<1>3. ASSUME UNCHANGED <<local, queue>>, \A t \in Turns : send'[t] # "sent" => send[t] # "sent"
      PROVE  LocalMoves /\ Told'
  BY <1>2, <1>3 DEF Failures
<1>4. CASE Kill \/ Interrupt \/ TimerFires
  <2>1. UNCHANGED send
    BY <1>4 DEF Kill, Interrupt, TimerFires, pending
  <2>. QED
    BY <1>2, <1>4, <2>1 DEF Kill, Interrupt, TimerFires, Failures
<1>5. CASE Start
  BY <1>3, <1>5 DEF Start, ownership
<1>6. ASSUME NEW t \in Turns, SendRestarts(t) \/ SendEnters(t) \/ HookThrows(t)
      PROVE  LocalMoves /\ Told'
  <2>1. UNCHANGED <<local, queue>> /\ \A u \in Turns : send'[u] # "sent" => send[u] # "sent"
    BY <1>1, <1>6 DEF SendRestarts, SendEnters, HookThrows, Proceed, ownership
  <2>. QED
    BY <1>3, <2>1
<1>7. ASSUME NEW t \in Turns, SendBlocked(t)
      PROVE  LocalMoves /\ Told'
  <2>1. /\ send[t] # "sent" /\ send' = [send EXCEPT ![t] = "sent"]
        /\ local' = [local EXCEPT ![t] = "blocked"] /\ UNCHANGED queue
        /\ local \in [Turns -> LocalOutcomes]
    BY <1>7 DEF SendBlocked, TypeOK, OwnershipTyped, LocalOutcomes
  <2>2. QueuePending'
    BY <1>1, <2>1 DEF Owned, QueueWaits, Told, QueuePending
  <2>. QED
    BY <2>1, <2>2, ToldAdmitted DEF Failures
<1>8. ASSUME NEW p \in Procs, StartReturns(p)
      PROVE  LocalMoves /\ Told'
  <2>1. \A u \in Turns : send'[u] # "sent" => send[u] # "sent"
    <3>1. starter[p] \in Turns => send[starter[p]] = "starting"
      BY SessionAssumption DEF StartersWait
    <3>. QED
      BY <1>1, <1>8, <3>1 DEF StartReturns, Proceed
  <2>. QED
    BY <1>2, <1>8, <2>1 DEF StartReturns, Failures
<1>9. ASSUME NEW p \in Procs, InitTimeout(p)
      PROVE  LocalMoves /\ Told'
  BY <1>3, <1>9 DEF InitTimeout, ownership
<1>10. ASSUME NEW t \in Turns, SendAdmits(t) \/ RegistrationDone(t) \/ RegistrationFails(t)
       PROVE  LocalMoves /\ Told'
  BY <1>10, SendAdmitsTold, RegistrationTold
<1>11. ASSUME NEW p \in Procs, ReadResult(p)
       PROVE  LocalMoves /\ Told'
  BY <1>11, ReadResultTold
<1>12. ASSUME NEW p \in Procs,
              \/ ReadDropped(p) \/ ReadControl(p) \/ ReadInit(p) \/ ReadUnowned(p)
              \/ ReadEof(p) \/ ReadStderr(p) \/ ExitNoticed(p) \/ ExitDrained(p)
       PROVE  LocalMoves /\ Told'
  BY <1>3, <1>12
  DEF ReadDropped, ReadControl, ReadInit, ReadUnowned, ReadEof, ReadStderr, ExitNoticed,
      ExitDrained, ownership, pending
<1>13. ASSUME NEW p \in Procs, ReadSettles(p) \/ ReadError(p) \/ ExitSettles(p)
       PROVE  LocalMoves /\ Told'
  <2>1. UNCHANGED send
    BY <1>13 DEF ReadSettles, ReadError, ExitSettles
  <2>. QED
    BY <1>2, <1>13, <2>1 DEF ReadSettles, ReadError, ExitSettles, TransportFailure, Failures
<1>14. CASE Cli \/ UNCHANGED vars
  BY <1>3, <1>14
  DEF Cli, CliAnswersInit, CliTakesTurn, CliAnswers, CliRepeats, CliClosesOutput, CliExits,
      vars, ownership, pending
<1>. QED
  BY <1>4, <1>5, <1>6, <1>7, <1>8, <1>9, <1>10, <1>11, <1>12, <1>13, <1>14
  DEF Next, Caller, Continuations, Streams

----------------------------------------------------------------------------
(* The session implements TurnOwnership                                     *)

\* What a step may do to the dispatch of a turn, and to the runtime's outcome.
DispatchMoves ==
    \A t \in Turns :
        \/ disp'[t] = disp[t]
        \/ disp[t] = "attempted" /\ disp'[t] = "not-dispatched" /\ native[t] = "unknown"
        \/ /\ disp[t] = "not-dispatched" /\ disp'[t] = "attempted"
           /\ local[t] \in {"none", "pending"} /\ native[t] = "unknown"

NativeMoves ==
    \A t \in Turns :
        native'[t] = native[t] \/ (Unresolved(t) /\ native'[t] \in {"completed", "failed"})

LEMMA DispatchMovesStep ==
    ASSUME TypeOK, Owned, Ledger, Told, [Next]_vars
    PROVE  DispatchMoves
<1>1. /\ disp \in [Turns -> {"not-dispatched", "attempted"}]
      /\ \A t \in Turns : disp[t] = "not-dispatched" => native[t] = "unknown"
  BY DEF TypeOK, OwnershipTyped, Ledger, AnsweredWasWritten
<1>2. CASE UNCHANGED disp
  BY <1>2 DEF DispatchMoves
<1>3. CASE SettleMissing
  BY <1>1, <1>3 DEF SettleMissing, NoSend, DispatchMoves
<1>4. ASSUME NEW t \in Turns, Takes(t), local[t] \in {"none", "pending"}
      PROVE  DispatchMoves
  BY <1>1, <1>4 DEF Takes, DispatchMoves
<1>5. ASSUME NEW told, NEW regs, ProcessNextTurn(told, regs)
      PROVE  DispatchMoves
  <2>1. CASE queue # <<>> /\ alive
    <3>1. queue \in Seq(Turns) /\ Head(queue) = queue[1] /\ 1 \in 1..Len(queue) /\ Head(queue) \in Turns
      BY <2>1 DEF TypeOK, OwnershipTyped
    <3>2. local[Head(queue)] = "pending"
      BY <3>1 DEF Told, QueuePending
    <3>. QED
      BY <1>4, <1>5, <2>1, <3>1, <3>2, DispatchTurnTakes DEF ProcessNextTurn
  <2>2. CASE ~(queue # <<>> /\ alive)
    BY <1>2, <1>5, <2>2 DEF ProcessNextTurn
  <2>. QED
    BY <2>1, <2>2
<1>6. CASE Caller
  BY <1>2, <1>6
  DEF Caller, Start, Kill, Interrupt, SendBlocked, SendRestarts, SendEnters, ownership
<1>7. ASSUME NEW p \in Procs, StartReturns(p) \/ InitTimeout(p)
      PROVE  DispatchMoves
  BY <1>2, <1>7 DEF StartReturns, InitTimeout, ownership
<1>8. ASSUME NEW t \in Turns, HookThrows(t)
      PROVE  DispatchMoves
  BY <1>2, <1>8 DEF HookThrows, ownership
<1>9. CASE TimerFires
  BY <1>2, <1>9 DEF TimerFires
<1>10. ASSUME NEW t \in Turns, SendAdmits(t)
       PROVE  DispatchMoves
  <2>1. local[t] = "none"
    BY <1>10 DEF SendAdmits, Told, UnsentUntold
  <2>. QED
    BY <1>2, <1>4, <1>10, <2>1, DispatchTurnTakes DEF SendAdmits
<1>11. ASSUME NEW t \in Turns, RegistrationDone(t) \/ RegistrationFails(t)
       PROVE  DispatchMoves
  BY <1>2, <1>4, <1>5, <1>11, WriteTurnTakes DEF RegistrationDone, RegistrationFails
<1>12. ASSUME NEW p \in Procs,
              \/ ReadDropped(p) \/ ReadControl(p) \/ ReadInit(p) \/ ReadUnowned(p)
              \/ ReadEof(p) \/ ReadError(p) \/ ReadStderr(p) \/ ExitNoticed(p) \/ ExitDrained(p)
       PROVE  DispatchMoves
  BY <1>2, <1>12
  DEF ReadDropped, ReadControl, ReadInit, ReadUnowned, ReadEof, ReadError, ReadStderr,
      ExitNoticed, ExitDrained, ownership
<1>13. ASSUME NEW p \in Procs, ReadResult(p)
       PROVE  DispatchMoves
  BY <1>2, <1>5, <1>13 DEF ReadResult
<1>14. ASSUME NEW p \in Procs, ReadSettles(p) \/ ExitSettles(p)
       PROVE  DispatchMoves
  BY <1>3, <1>14 DEF ReadSettles, ExitSettles
<1>15. CASE Cli \/ UNCHANGED vars
  BY <1>2, <1>15
  DEF Cli, CliAnswersInit, CliTakesTurn, CliAnswers, CliRepeats, CliClosesOutput, CliExits,
      vars, ownership
<1>. QED
  BY <1>6, <1>7, <1>8, <1>9, <1>10, <1>11, <1>12, <1>13, <1>14, <1>15
  DEF Next, Continuations, Streams

LEMMA NativeMovesStep ==
    ASSUME TypeOK, Owned, LinesAnswered, Ledger, LinesOwed, [Next]_vars
    PROVE  NativeMoves
<1>1. ASSUME NEW p \in Procs, ReadResult(p)
      PROVE  NativeMoves
  <2>1. /\ Head(pipe[p]).turn = inflight /\ inflight \in Answered /\ Unresolved(inflight)
        /\ native \in [Turns -> {"unknown", "completed", "failed"}]
    BY <1>1, ResultIsInflights DEF Owned, TypeOK, OwnershipTyped
  <2>. QED
    BY <1>1, <2>1 DEF ReadResult, Recognized, Answered, Unresolved, NativeMoves
<1>2. CASE UNCHANGED native
  BY <1>2 DEF NativeMoves
<1>3. CASE Caller \/ Continuations
  BY <1>2, <1>3
  DEF Caller, Start, Kill, Interrupt, SendBlocked, SendRestarts, SendEnters, Continuations,
      StartReturns, InitTimeout, HookThrows, SendAdmits, RegistrationDone, RegistrationFails,
      TimerFires, ownership
<1>4. ASSUME NEW p \in Procs,
             \/ ReadDropped(p) \/ ReadControl(p) \/ ReadInit(p) \/ ReadUnowned(p)
             \/ ReadEof(p) \/ ReadSettles(p) \/ ReadError(p) \/ ReadStderr(p)
             \/ ExitNoticed(p) \/ ExitDrained(p) \/ ExitSettles(p)
      PROVE  NativeMoves
  BY <1>2, <1>4
  DEF ReadDropped, ReadControl, ReadInit, ReadUnowned, ReadEof, ReadSettles, ReadError,
      ReadStderr, ExitNoticed, ExitDrained, ExitSettles, ownership
<1>5. CASE Cli \/ UNCHANGED vars
  BY <1>2, <1>5
  DEF Cli, CliAnswersInit, CliTakesTurn, CliAnswers, CliRepeats, CliClosesOutput, CliExits,
      vars, ownership
<1>. QED
  BY <1>1, <1>3, <1>4, <1>5 DEF Next, Streams

\* A step that moves every turn so is a step of TurnOwnership.
LEMMA MovesMap ==
    ASSUME TypeOK, TypeOK', OwnerHolds', LocalMoves, DispatchMoves, NativeMoves
    PROVE  Ownership!Step
<1>. DEFINE mapped == [t \in Turns |-> TurnOutcome(local[t])]
<1>1. /\ local \in [Turns -> LocalOutcomes] /\ local' \in [Turns -> LocalOutcomes]
      /\ disp' \in [Turns -> {"not-dispatched", "attempted"}]
      /\ native' \in [Turns -> {"unknown", "completed", "failed"}]
  BY DEF TypeOK, OwnershipTyped, LocalOutcomes
<1>2. ASSUME NEW t \in Turns PROVE Ownership!LocalStep(t)
  BY <1>1, <1>2 DEF LocalMoves, Ownership!LocalStep, TurnOutcome, Failures, LocalOutcomes
<1>3. ASSUME NEW t \in Turns PROVE Ownership!DispatchStep(t)
  BY <1>1, <1>3 DEF DispatchMoves, Ownership!DispatchStep, TurnOutcome, Failures
<1>4. ASSUME NEW t \in Turns PROVE Ownership!NativeStep(t)
  BY <1>1, <1>4 DEF NativeMoves, Ownership!NativeStep, Ownership!Unresolved, Unresolved
<1>5. mapped' \in [Turns -> Ownership!LocalOutcome]
  BY <1>1 DEF Ownership!LocalOutcome, TurnOutcome, Failures, LocalOutcomes
<1>6. Ownership!AtMostOneUnresolved'
  BY DEF OwnerHolds, Ownership!AtMostOneUnresolved, Ownership!Unresolved, Unresolved
<1>. QED
  BY <1>1, <1>2, <1>3, <1>4, <1>5, <1>6
  DEF Ownership!Step, Ownership!Dispatch, Ownership!NativeOutcome

----------------------------------------------------------------------------
(* The theorems                                                             *)

LEMMA HonestInit == Init => Inductive
<1>. SUFFICES ASSUME Init PROVE Inductive
  OBVIOUS
<1>1. OwnershipInductive
  BY InitInductive
<1>2. Ledger
  BY SessionAssumption
  DEF Init, Ledger, HonestOutcome, HonestNoSend, AnsweredWasWritten, TodoOwned, GoneForGood
<1>3. LinesOwed /\ QueuePending /\ UnsentUntold
  BY DEF Init, LinesOwed, QueuePending, UnsentUntold
<1>. QED
  BY <1>1, <1>2, <1>3 DEF Inductive

LEMMA HonestStep ==
    ASSUME Inductive, [Next]_vars
    PROVE  Inductive' /\ [Ownership!Step]_(Ownership!vars)
<1>1. /\ TypeOK /\ Owned /\ StartersWait /\ LinesAnswered /\ Ledger /\ LinesOwed /\ Told
  BY DEF Inductive, OwnershipInductive, Owned, Told
<1>2. OwnershipInductive' /\ TypeOK' /\ OwnerHolds'
  BY StepInductive DEF Inductive, OwnershipInductive
<1>3. Inductive'
  BY <1>1, <1>2, LedgerStep, LinesOwedStep, ToldStep DEF Inductive, Told
<1>4. Ownership!Step
  BY <1>1, <1>2, ToldStep, DispatchMovesStep, NativeMovesStep, MovesMap
<1>. QED
  BY <1>3, <1>4

\* The inductive invariant, with all it says of CLIs and callers, holds in every
\* state (claude-code-session.ts: _processLine, _settleMissing, _writeTurn).
THEOREM HonestInvariance == Spec => []Inductive
BY HonestInit, HonestStep, PTL DEF Spec

\* The outcome recorded for a turn is the one the CLI reached for that turn: no
\* late, repeated or foreign result settles another (_processLine).
THEOREM OutcomesHonest == Spec => []HonestOutcome
<1>1. Inductive => HonestOutcome
  BY DEF Inductive, Ledger
<1>. QED
  BY <1>1, HonestInvariance, PTL

\* A turn reported as never dispatched was never read by a CLI that could run
\* it, so sending it again cannot repeat it (_settleMissing).
THEOREM NoSendHonest == Spec => []HonestNoSend
<1>1. Inductive => HonestNoSend
  BY DEF Inductive, Ledger
<1>. QED
  BY <1>1, HonestInvariance, PTL

LEMMA OwnershipInit == Init => Ownership!Init
BY DEF Init, Ownership!Init, TurnOutcome, Failures

\* The session keeps the promises of a HarnessSession (harness-session.ts): every
\* step of claude-code-session.ts is a step of TurnOwnership or a stutter.
THEOREM KeepsOwnership == Spec => ImplementsOwnership
<1>1. Inductive /\ [Next]_vars => [Ownership!Step]_(Ownership!vars)
  BY HonestStep
<1>. QED
  BY <1>1, HonestInvariance, OwnershipInit, PTL DEF Spec, ImplementsOwnership, Ownership!Spec


----------------------------------------------------------------------------
(* Who waits is somewhere: in flight, or queued behind what is              *)

Placed(told, t, rest) == \A u \in Turns : told[u] = "pending" => u = t \/ u \in Elems(rest)

LEMMA WriteTurnPlaces ==
    ASSUME NEW t \in Turns, NEW rest \in Seq(Turns), NEW told \in [Turns -> LocalOutcomes],
           Placed(told, t, rest), WriteTurn(t, rest, told)
    PROVE  NobodyForgotten'
<1>1. CASE queue' = rest /\ local' = told
  BY <1>1 DEF WriteTurn, NobodyForgotten, Placed, Elems
<1>2. CASE local' = [u \in Turns |-> IF u = t THEN "transport"
                                     ELSE IF u \in Elems(rest) THEN "blocked" ELSE told[u]]
  BY <1>2 DEF NobodyForgotten, Placed
<1>. QED
  BY <1>1, <1>2 DEF WriteTurn

LEMMA DispatchTurnPlaces ==
    ASSUME NEW t \in Turns, NEW rest \in Seq(Turns), NEW told \in [Turns -> LocalOutcomes],
           NEW regs, Placed(told, t, rest), DispatchTurn(t, rest, told, regs)
    PROVE  NobodyForgotten'
<1>1. CASE WriteTurn(t, rest, told)
  BY <1>1, WriteTurnPlaces
<1>2. CASE inflight' = t /\ queue' = rest /\ local' = told
  BY <1>2 DEF NobodyForgotten, Placed, Elems
<1>. QED
  BY <1>1, <1>2 DEF DispatchTurn

\* Once the turn in flight was told, who still waits is queued.
LEMMA ProcessNextTurnPlaces ==
    ASSUME TypeOK, NEW told \in [Turns -> LocalOutcomes], NEW regs,
           \A u \in Turns : told[u] = "pending" => u \in Elems(queue),
           ProcessNextTurn(told, regs)
    PROVE  NobodyForgotten'
<1>1. CASE queue # <<>> /\ alive
  <2>1. queue \in Seq(Turns) /\ Head(queue) \in Turns /\ Tail(queue) \in Seq(Turns)
    BY <1>1 DEF TypeOK, OwnershipTyped
  <2>2. \A u \in Elems(queue) : u = Head(queue) \/ u \in Elems(Tail(queue))
    <3>1. \A i \in 1..Len(queue) : i = 1 \/ (i - 1 \in 1..Len(Tail(queue)) /\ Tail(queue)[i - 1] = queue[i])
      BY <1>1, <2>1
    <3>2. Head(queue) = queue[1] /\ DOMAIN queue = 1..Len(queue) /\ DOMAIN Tail(queue) = 1..Len(Tail(queue))
      BY <1>1, <2>1
    <3>. DEFINE rest == Tail(queue)
    <3>3. \A i \in DOMAIN rest : rest[i] \in Elems(rest)
      BY DEF Elems
    <3>. SUFFICES ASSUME NEW u \in Elems(queue) PROVE u = Head(queue) \/ u \in Elems(rest)
      OBVIOUS
    <3>4. PICK i \in DOMAIN queue : u = queue[i]
      BY DEF Elems
    <3>. QED
      BY <3>1, <3>2, <3>3, <3>4
  <2>3. Placed(told, Head(queue), Tail(queue))
    BY <2>2 DEF Placed
  <2>4. DispatchTurn(Head(queue), Tail(queue), told, regs)
    BY <1>1 DEF ProcessNextTurn
  <2>. QED
    BY <2>1, <2>3, <2>4, DispatchTurnPlaces
<1>2. CASE ~(queue # <<>> /\ alive)
  BY <1>2 DEF ProcessNextTurn, NobodyForgotten, Elems
<1>. QED
  BY <1>1, <1>2

\* A rejection finds everyone who waits, and so does one that finds nothing to reject.
LEMMA RejectionForgetsNobody ==
    ASSUME TypeOK, NobodyForgotten, NEW why \in Failures, UNCHANGED inflight,
           \/ RejectInflight(why) \/ RejectInflightAndQueue(why)
           \/ local' = RejectedFor(why) \/ UNCHANGED <<local, queue>>
    PROVE  NobodyForgotten'
<1>1. CASE local' = RejectedFor(why)
  <2>1. \A t \in Turns : RejectedFor(why)[t] # "pending"
    BY DEF NobodyForgotten, RejectedFor, Failures
  <2>. QED
    BY <1>1, <2>1 DEF NobodyForgotten
<1>2. CASE UNCHANGED <<local, queue>>
  BY <1>2 DEF NobodyForgotten, Elems
<1>. QED
  BY <1>1, <1>2 DEF RejectInflight, RejectInflightAndQueue

LEMMA CallersKeepPlace ==
    ASSUME TypeOK, NobodyForgotten, Caller PROVE NobodyForgotten'
<1>1. CASE Kill \/ Interrupt
  BY <1>1, RejectionForgetsNobody DEF Kill, Interrupt, Failures
<1>2. CASE Start \/ \E t \in Turns : SendRestarts(t) \/ SendEnters(t)
  BY <1>2 DEF Start, SendRestarts, SendEnters, ownership, NobodyForgotten, Elems
<1>3. ASSUME NEW t \in Turns, SendBlocked(t) PROVE NobodyForgotten'
  BY <1>3 DEF SendBlocked, NobodyForgotten, Elems, TypeOK, OwnershipTyped
<1>. QED
  BY <1>1, <1>2, <1>3 DEF Caller

LEMMA SendAdmitsPlaces ==
    ASSUME TypeOK, NobodyForgotten, NEW t \in Turns, SendAdmits(t) PROVE NobodyForgotten'
<1>. DEFINE told == [local EXCEPT ![t] = "pending"]
<1>1. /\ NoTurn \notin Turns /\ queue \in Seq(Turns)
      /\ local \in [Turns -> LocalOutcomes] /\ told \in [Turns -> LocalOutcomes]
  BY SessionAssumption DEF TypeOK, OwnershipTyped, LocalOutcomes
<1>2. CASE local' = [local EXCEPT ![t] = "blocked"] /\ UNCHANGED <<inflight, queue>>
  BY <1>1, <1>2 DEF NobodyForgotten, Elems
<1>3. CASE inflight = NoTurn /\ DispatchTurn(t, queue, told, registering)
  <2>1. Placed(told, t, queue)
    BY <1>1, <1>3 DEF Placed, NobodyForgotten
  <2>. QED
    BY <1>1, <1>3, <2>1, DispatchTurnPlaces
<1>4. CASE queue' = Append(queue, t) /\ local' = told /\ UNCHANGED inflight
  <2>1. \A u \in Elems(queue) \cup {t} : u \in Elems(queue')
    <3>1. queue' \in Seq(Turns) /\ Len(queue') = Len(queue) + 1 /\ queue'[Len(queue) + 1] = t
          /\ \A i \in 1..Len(queue) : queue'[i] = queue[i]
      BY <1>1, <1>4
    <3>. QED
      BY <1>1, <3>1 DEF Elems
  <2>. QED
    BY <1>1, <1>4, <2>1 DEF NobodyForgotten
<1>. QED
  BY <1>2, <1>3, <1>4 DEF SendAdmits

\* onAdmission resolved on a session that died while it was outstanding, for a caller who
\* still waits.
AnswersTooLate(t) ==
    RegistrationDone(t) /\ t \in registering /\ t = inflight /\ ~alive /\ local[t] = "pending"

LEMMA RegistrationPlaces ==
    ASSUME TypeOK, NobodyForgotten, NEW t \in Turns, RegistrationDone(t) \/ RegistrationFails(t)
    PROVE  NobodyForgotten' \/ AnswersTooLate(t)
<1>. SUFFICES ASSUME ~AnswersTooLate(t) PROVE NobodyForgotten'
  OBVIOUS
<1>. DEFINE told == [local EXCEPT ![t] = IF @ = "pending" THEN "registration" ELSE @]
<1>1. /\ queue \in Seq(Turns)
      /\ local \in [Turns -> LocalOutcomes] /\ told \in [Turns -> LocalOutcomes]
  BY DEF TypeOK, OwnershipTyped, LocalOutcomes, Failures
<1>2. CASE WriteTurn(t, queue, local) /\ inflight = t
  <2>1. Placed(local, t, queue)
    BY <1>2 DEF Placed, NobodyForgotten
  <2>. QED
    BY <1>1, <1>2, <2>1, WriteTurnPlaces
<1>3. CASE ProcessNextTurn(local, registering \ {t}) /\ inflight = t /\ local[t] # "pending"
  <2>1. \A u \in Turns : local[u] = "pending" => u \in Elems(queue)
    BY <1>3 DEF NobodyForgotten
  <2>. QED
    BY <1>1, <1>3, <2>1, ProcessNextTurnPlaces
<1>4. CASE ProcessNextTurn(told, registering \ {t}) /\ inflight = t
  <2>1. \A u \in Turns : told[u] = "pending" => u \in Elems(queue)
    BY <1>1, <1>4 DEF NobodyForgotten
  <2>. QED
    BY <1>1, <1>4, <2>1, ProcessNextTurnPlaces
<1>5. CASE local' \in {local, told} /\ UNCHANGED <<inflight, queue>>
  <2>1. \A u \in Turns : local'[u] = "pending" => local[u] = "pending"
    BY <1>1, <1>5
  <2>. QED
    BY <1>5, <2>1 DEF NobodyForgotten, Elems
<1>6. CASE RegistrationDone(t)
  BY <1>2, <1>3, <1>5, <1>6 DEF RegistrationDone, AnswersTooLate
<1>7. CASE RegistrationFails(t)
  BY <1>4, <1>5, <1>7 DEF RegistrationFails
<1>. QED
  BY <1>6, <1>7

LEMMA ContinuationsKeepPlace ==
    ASSUME TypeOK, NobodyForgotten, Continuations
    PROVE  NobodyForgotten' \/ \E t \in Turns : AnswersTooLate(t)
<1>1. ASSUME NEW p \in Procs, StartReturns(p) \/ InitTimeout(p) PROVE NobodyForgotten'
  BY <1>1, RejectionForgetsNobody DEF StartReturns, InitTimeout, ownership, Failures
<1>2. ASSUME NEW t \in Turns, HookThrows(t) PROVE NobodyForgotten'
  BY <1>2 DEF HookThrows, ownership, NobodyForgotten, Elems
<1>3. CASE TimerFires
  BY <1>3, RejectionForgetsNobody DEF TimerFires, Failures
<1>. QED
  BY <1>1, <1>2, <1>3, SendAdmitsPlaces, RegistrationPlaces DEF Continuations

LEMMA ReadResultPlaces ==
    ASSUME TypeOK, NobodyForgotten, NEW p \in Procs, ReadResult(p) PROVE NobodyForgotten'
<1>. DEFINE told == [local EXCEPT ![inflight] = IF @ = "pending" THEN "resolved" ELSE @]
<1>1. local \in [Turns -> LocalOutcomes] /\ told \in [Turns -> LocalOutcomes] /\ inflight \in Turns
  BY DEF ReadResult, TypeOK, OwnershipTyped, LocalOutcomes
<1>2. CASE ProcessNextTurn(told, registering)
  <2>1. \A u \in Turns : told[u] = "pending" => u \in Elems(queue)
    BY <1>1 DEF NobodyForgotten
  <2>. QED
    BY <1>1, <1>2, <2>1, ProcessNextTurnPlaces
<1>3. CASE RejectInflight("unrecognized-terminal") /\ UNCHANGED inflight
  BY <1>3, RejectionForgetsNobody DEF Failures
<1>. QED
  BY <1>2, <1>3 DEF ReadResult

LEMMA StreamsKeepPlace ==
    ASSUME TypeOK, NobodyForgotten, Streams \/ Cli PROVE NobodyForgotten'
<1>1. ASSUME UNCHANGED ownership PROVE NobodyForgotten'
  BY <1>1 DEF ownership, NobodyForgotten, Elems
<1>2. ASSUME NEW p \in Procs, ReadSettles(p) \/ ReadError(p) \/ ExitSettles(p) PROVE NobodyForgotten'
  BY <1>2, RejectionForgetsNobody DEF ReadSettles, ReadError, ExitSettles, TransportFailure, Failures
<1>3. ASSUME NEW p \in Procs,
             ReadDropped(p) \/ ReadControl(p) \/ ReadInit(p) \/ ReadUnowned(p) \/ ReadEof(p)
             \/ ReadStderr(p) \/ ExitNoticed(p) \/ ExitDrained(p)
      PROVE  UNCHANGED ownership
  BY <1>3 DEF ReadDropped, ReadControl, ReadInit, ReadUnowned, ReadEof, ReadStderr, ExitNoticed, ExitDrained
<1>4. CASE Cli
  BY <1>1, <1>4 DEF Cli, CliAnswersInit, CliTakesTurn, CliAnswers, CliRepeats, CliClosesOutput, CliExits
<1>. QED
  BY <1>1, <1>2, <1>3, <1>4, ReadResultPlaces DEF Streams

\* Whatever rejects, dies, times out or answers late, one step alone forgets a caller: its
\* onAdmission resolves on a session that died in the meantime (_dispatchTurn,
\* claude-code-session.ts:1110).
THEOREM OnlyLateAdmissionForgets ==
    Spec => [][NobodyForgotten => NobodyForgotten' \/ \E t \in Turns : AnswersTooLate(t)]_vars
<1>1. ASSUME TypeOK, [Next]_vars
      PROVE  [NobodyForgotten => NobodyForgotten' \/ \E t \in Turns : AnswersTooLate(t)]_vars
  BY <1>1, CallersKeepPlace, ContinuationsKeepPlace, StreamsKeepPlace DEF Next
<1>. QED
  BY <1>1, TypeCorrect, PTL DEF Spec

\* So no caller of a session without onAdmission callbacks is ever forgotten: every one
\* who waits is where rejections look (_rejectInflight, _rejectInflightAndQueue).
THEOREM NobodyIsForgotten == Registered = {} => (Spec => []NobodyForgotten)
<1>. SUFFICES ASSUME Registered = {} PROVE Spec => []NobodyForgotten
  OBVIOUS
<1>1. Init => NobodyForgotten
  BY DEF Init, NobodyForgotten
<1>2. OwnershipInductive /\ NobodyForgotten /\ [Next]_vars => NobodyForgotten'
  <2>. SUFFICES ASSUME OwnershipInductive, NobodyForgotten, [Next]_vars PROVE NobodyForgotten'
    OBVIOUS
  <2>1. TypeOK /\ registering = {}
    BY DEF OwnershipInductive, RegistrationWaits
  <2>2. CASE UNCHANGED vars
    BY <2>2 DEF vars, ownership, NobodyForgotten, Elems
  <2>. QED
    BY <2>1, <2>2, CallersKeepPlace, ContinuationsKeepPlace, StreamsKeepPlace DEF Next, AnswersTooLate
<1>. QED
  BY <1>1, <1>2, Invariance, PTL DEF Spec
=============================================================================
