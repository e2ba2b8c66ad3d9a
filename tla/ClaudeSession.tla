---------------------------- MODULE ClaudeSession ----------------------------
(***************************************************************************)
(* One ClaudeCodeSession (src/src/claude-code-session.ts): the ownership   *)
(* of turns across the processes it spawns.  Every `await` of the code is  *)
(* a point where other handlers run, so a handler that awaits is split     *)
(* there and nowhere else; what runs between two awaits is one action.     *)
(*                                                                         *)
(* The CLI process is external: it reads turns in order, may emit late or  *)
(* repeated results, close its output, crash, or refuse to resume.         *)
(***************************************************************************)
EXTENDS Naturals, Sequences

CONSTANTS
    Turns,          \* the sends made on this session
    NoTurn,         \* no turn
    MaxProcs,       \* bound: processes spawned over the session's life
    Registered,     \* the sends with an onAdmission callback
    Timed,          \* the sends with a timeout > 0
    Gated,          \* the session registers a tool gate at start()
    Faults          \* bound: what else may go wrong besides a crash

ASSUME SessionAssumption ==
    /\ NoTurn \notin Turns
    /\ MaxProcs \in Nat \ {0}
    /\ Registered \subseteq Turns
    /\ Timed \subseteq Turns
    /\ Gated \in BOOLEAN
    /\ Faults \subseteq {"refuses", "closes", "read-error", "write-error", "repeats", "hook"}

Procs   == 1..MaxProcs
Resumed == MaxProcs + 1     \* the id of a conversation the config resumes

VARIABLES
    \* session fields
    proc,           \* _proc: the current process, 0 for null
    spawned,        \* how many processes were spawned
    alive,          \* _alive
    ended,          \* _endEmitted
    ext,            \* _externalSessionId, 0 for undefined
    stderr,         \* the ids the "No conversation found" marker named so far
    seen,           \* _seenTerminals
    inflight,       \* _inflight
    queue,          \* _queue
    timer,          \* the turn _turnTimer was set for
    \* the attempts (TurnState)
    local, disp, native,
    \* the suspended continuations of the session's async functions
    send,           \* each send() call
    registering,    \* turns whose onAdmission is outstanding
    init,           \* start() of each process: its initialize request
    starter,        \* the send() that called start(), NoTurn for the caller
    reader,         \* _readStdout of each process
    exitw,          \* the exited.then() handler of each process
    \* the CLI
    os, sid, refuses, todo, pipe, fate, repeated

ownership == <<inflight, queue, timer, local, disp, native>>
session   == <<proc, spawned, alive, ended, ext, stderr, seen>>
pending   == <<send, registering, init, starter, reader, exitw>>
cli       == <<os, sid, refuses, todo, pipe, fate, repeated>>
vars      == <<session, ownership, pending, cli>>

Failures == {"transport", "timeout", "interrupt-request", "blocked", "killed",
             "unrecognized-terminal", "registration"}
Elems(s) == {s[i] : i \in DOMAIN s}

SessionTyped ==
    /\ proc \in 0..MaxProcs /\ spawned \in 0..MaxProcs
    /\ alive \in BOOLEAN /\ ended \in BOOLEAN
    /\ ext \in 0..(MaxProcs + 1) /\ stderr \subseteq 0..(MaxProcs + 1)
    /\ seen \subseteq Turns

OwnershipTyped ==
    /\ inflight \in Turns \cup {NoTurn}
    /\ queue \in Seq(Turns)
    /\ timer \in Turns \cup {NoTurn}
    /\ local \in [Turns -> {"none", "pending", "resolved"} \cup Failures]
    /\ disp \in [Turns -> {"not-dispatched", "attempted"}]
    /\ native \in [Turns -> {"unknown", "completed", "failed"}]

PendingTyped ==
    /\ send \in [Turns -> {"idle", "starting", "hooks", "sent", "refused"}]
    /\ registering \subseteq Turns
    /\ init \in [Procs -> {"off", "pending", "ok", "failed", "done"}]
    /\ starter \in [Procs -> Turns \cup {NoTurn}]
    /\ reader \in [Procs -> {"off", "reading", "settling", "done"}]
    /\ exitw \in [Procs -> {"off", "armed", "draining", "settling", "done"}]

Lines == [kind : {"control", "init", "result"}, turn : Turns \cup {NoTurn}]
CliTyped ==
    /\ os \in [Procs -> {"off", "running", "closed", "exited"}]
    /\ sid \in [Procs -> 0..(MaxProcs + 1)]
    /\ refuses \in [Procs -> BOOLEAN]
    /\ todo \in [Procs -> Seq(Turns)]
    /\ pipe \in [Procs -> Seq(Lines)]
    /\ fate \in [Turns -> {"unread", "running", "completed", "failed", "unrecognized"}]
    /\ repeated \subseteq Turns

TypeOK == SessionTyped /\ OwnershipTyped /\ PendingTyped /\ CliTyped

Init ==
    /\ proc = 0 /\ spawned = 0 /\ alive = FALSE /\ ended = FALSE
    /\ ext \in {0, Resumed} /\ stderr = {} /\ seen = {}
    /\ inflight = NoTurn /\ queue = <<>> /\ timer = NoTurn
    /\ local = [t \in Turns |-> "none"]
    /\ disp = [t \in Turns |-> "not-dispatched"]
    /\ native = [t \in Turns |-> "unknown"]
    /\ send = [t \in Turns |-> "idle"]
    /\ registering = {}
    /\ init = [p \in Procs |-> "off"]
    /\ starter = [p \in Procs |-> NoTurn]
    /\ reader = [p \in Procs |-> "off"]
    /\ exitw = [p \in Procs |-> "off"]
    /\ os = [p \in Procs |-> "off"]
    /\ sid = [p \in Procs |-> 0]
    /\ refuses = [p \in Procs |-> FALSE]
    /\ todo = [p \in Procs |-> <<>>]
    /\ pipe = [p \in Procs |-> <<>>]
    /\ fate = [t \in Turns |-> "unread"]
    /\ repeated = {}

Unresolved(t) == disp[t] = "attempted" /\ native[t] = "unknown"

----------------------------------------------------------------------------
(* Rejections.  TurnState.fail tells the caller once, so a turn already     *)
(* settled keeps its outcome; the queue never outlives the owner it waits   *)
(* for.                                                                     *)

RejectedForForgettingQueue(why) ==
    [t \in Turns |-> IF local[t] = "pending" /\ t = inflight THEN why ELSE local[t]]
RejectedFor(why) ==
    [t \in Turns |-> IF local[t] # "pending" THEN local[t]
                     ELSE IF t = inflight THEN why
                     ELSE IF t \in Elems(queue) THEN "blocked"
                     ELSE local[t]]

\* Ownership of the native work stays with the turn: inflight is kept.
RejectInflight(why) ==
    IF inflight = NoTurn
    THEN UNCHANGED <<local, queue, timer>>
    ELSE local' = RejectedFor(why) /\ queue' = <<>> /\ timer' = NoTurn

RejectInflightAndQueue(why) ==
    /\ local' = RejectedFor(why)
    /\ queue' = <<>>
    /\ timer' = IF inflight = NoTurn THEN timer ELSE NoTurn

\* Every control request outstanding is rejected.
RejectControlDropping == [p \in Procs |-> IF init[p] = "pending" THEN "off" ELSE init[p]]
RejectControl == [p \in Procs |-> IF init[p] = "pending" THEN "failed" ELSE init[p]]

\* The turn written to a CLI that refused the resume settles as a no-send.  The
\* code also looks for a system/init among the turn's events, but an init is
\* never recorded with a turn, so that test never stops it.
NoSend(gone) ==
    disp' = [t \in Turns |-> IF gone /\ t = inflight /\ native[t] = "unknown"
                            THEN "not-dispatched" ELSE disp[t]]
SettleMissingWhateverDied == NoSend(ext # 0)
SettleMissing == NoSend(ext # 0 /\ ext \in stderr)

TransportFailure ==
    /\ alive' = FALSE /\ ended' = TRUE
    /\ RejectInflightAndQueue("transport")
    /\ init' = RejectControl

----------------------------------------------------------------------------
(* Dispatch.  `told` and `regs` are what callers have been told, and the    *)
(* registrations outstanding, when the step gets this far.                  *)

\* A timer of 0 is never set.
ArmedNever(t) == IF t \in Timed THEN NoTurn ELSE NoTurn
Armed(t) == IF t \in Timed THEN t ELSE NoTurn

\* Marked attempted before the write: a write that throws may have been read.
WriteTurn(t, rest, told) ==
    /\ inflight' = t
    /\ disp' = [disp EXCEPT ![t] = "attempted"]
    /\ \/ /\ queue' = rest /\ local' = told
          /\ todo' = [todo EXCEPT ![proc] = Append(@, t)]
          /\ timer' = Armed(t)
       \/ /\ "write-error" \in Faults /\ os[proc] # "running"
          /\ queue' = <<>> /\ timer' = NoTurn
          /\ local' = [u \in Turns |-> IF u = t THEN "transport"
                                       ELSE IF u \in Elems(rest) THEN "blocked"
                                       ELSE told[u]]
          /\ UNCHANGED todo

DispatchTurn(t, rest, told, regs) ==
    \/ /\ t \in Registered
       /\ inflight' = t /\ queue' = rest /\ local' = told /\ timer' = NoTurn
       /\ registering' = regs \cup {t}
       /\ UNCHANGED <<disp, todo>>
    \/ /\ t \notin Registered
       /\ WriteTurn(t, rest, told)
       /\ registering' = regs

\* The slot is free: the next queued turn takes it, unless the session ended.
ProcessNextTurnStillQueued(told, regs) ==
    IF queue # <<>> /\ alive
    THEN DispatchTurn(Head(queue), queue, told, regs)
    ELSE /\ inflight' = NoTurn /\ local' = told /\ timer' = NoTurn
         /\ registering' = regs
         /\ UNCHANGED <<queue, disp, todo>>
ProcessNextTurn(told, regs) ==
    IF queue # <<>> /\ alive
    THEN DispatchTurn(Head(queue), Tail(queue), told, regs)
    ELSE /\ inflight' = NoTurn /\ local' = told /\ timer' = NoTurn
         /\ registering' = regs
         /\ UNCHANGED <<queue, disp, todo>>

----------------------------------------------------------------------------
(* start() and kill()                                                       *)

\* The process either loads the conversation it resumes or finds it gone, and
\* one that is gone stays gone.
Spawn(t) ==
    LET p == spawned + 1 IN
    /\ proc = 0 /\ spawned < MaxProcs
    /\ ~ \E u \in Turns : Unresolved(u)
    /\ proc' = p /\ spawned' = p
    /\ alive' = TRUE /\ ended' = FALSE
    /\ init' = [init EXCEPT ![p] = IF Gated THEN "pending" ELSE "ok"]
    /\ starter' = [starter EXCEPT ![p] = t]
    /\ reader' = [reader EXCEPT ![p] = "reading"]
    /\ exitw' = [exitw EXCEPT ![p] = "armed"]
    /\ os' = [os EXCEPT ![p] = "running"]
    /\ sid' = [sid EXCEPT ![p] = IF ext = 0 THEN p ELSE ext]
    /\ \E gone \in BOOLEAN :
         /\ gone => ext # 0 /\ "refuses" \in Faults
         /\ ext \in {sid[q] : q \in {r \in Procs : refuses[r]}} => gone
         /\ refuses' = [refuses EXCEPT ![p] = gone]

Start ==
    /\ Spawn(NoTurn)
    /\ UNCHANGED <<ext, stderr, seen, ownership, send, registering,
                   todo, pipe, fate, repeated>>

\* The process is signalled; it may still write before it exits.
Kill ==
    /\ proc # 0
    /\ alive' = FALSE /\ proc' = 0 /\ ended' = TRUE
    /\ local' = RejectedFor("killed")
    /\ queue' = <<>> /\ timer' = NoTurn
    /\ init' = RejectControl
    /\ UNCHANGED <<spawned, ext, stderr, seen, inflight, disp, native, send,
                   registering, starter, reader, exitw, cli>>

InterruptReleasing ==
    /\ inflight # NoTurn
    /\ RejectInflight("interrupt-request")
    /\ inflight' = NoTurn
    /\ UNCHANGED <<session, disp, native, pending, cli>>
Interrupt ==
    /\ inflight # NoTurn
    /\ RejectInflight("interrupt-request")
    /\ UNCHANGED <<session, inflight, disp, native, pending, cli>>

\* send() goes on after the start() it awaited.
Proceed(t) == send' = [send EXCEPT ![t] = IF alive THEN "hooks" ELSE "refused"]

\* start() resumes once its initialize request was answered (or at once, with
\* no gate).  A failed one kills whatever process is current by then.
StartReturns(p) ==
    /\ \/ /\ init[p] = "ok"
          /\ init' = [init EXCEPT ![p] = "done"]
          /\ IF starter[p] = NoTurn THEN UNCHANGED send ELSE Proceed(starter[p])
          /\ UNCHANGED <<proc, alive, ended, local, queue, timer>>
       \/ /\ init[p] = "failed"
          /\ IF starter[p] = NoTurn THEN UNCHANGED send
             ELSE send' = [send EXCEPT ![starter[p]] = "refused"]
          /\ IF proc = 0
             THEN /\ init' = [init EXCEPT ![p] = "done"]
                  /\ UNCHANGED <<proc, alive, ended, local, queue, timer>>
             ELSE /\ init' = [RejectControl EXCEPT ![p] = "done"]
                  /\ alive' = FALSE /\ proc' = 0 /\ ended' = TRUE
                  /\ local' = RejectedFor("killed")
                  /\ queue' = <<>> /\ timer' = NoTurn
    /\ starter' = [starter EXCEPT ![p] = NoTurn]
    /\ UNCHANGED <<spawned, ext, stderr, seen, inflight, disp, native,
                   registering, reader, exitw, cli>>

\* No answer within 30 s, or the request could not be written.
InitTimeout(p) ==
    /\ init[p] = "pending"
    /\ init' = [init EXCEPT ![p] = "failed"]
    /\ UNCHANGED <<session, ownership, send, registering, starter, reader, exitw, cli>>

----------------------------------------------------------------------------
(* send()                                                                   *)

\* Before anything else: an attempt is refused while native work is unresolved
\* and nobody waits for it.
Blocked == \E u \in Turns : Unresolved(u) /\ (~alive \/ local[u] # "pending")

SendBlocked(t) ==
    /\ send[t] = "idle" /\ Blocked
    /\ send' = [send EXCEPT ![t] = "sent"]
    /\ local' = [local EXCEPT ![t] = "blocked"]
    /\ UNCHANGED <<session, inflight, queue, timer, disp, native, registering,
                   init, starter, reader, exitw, cli>>

\* With no process and a known conversation, send() starts one first.
SendRestarts(t) ==
    /\ send[t] = "idle" /\ ~Blocked
    /\ ext # 0
    /\ Spawn(t)
    /\ send' = [send EXCEPT ![t] = "starting"]
    /\ UNCHANGED <<ext, stderr, seen, ownership, registering, todo, pipe, fate, repeated>>

SendEnters(t) ==
    /\ send[t] = "idle" /\ ~Blocked
    /\ proc # 0 \/ ext = 0
    /\ Proceed(t)
    /\ UNCHANGED <<session, ownership, registering, init, starter, reader, exitw, cli>>

\* A pre-send hook throws.
HookThrows(t) ==
    /\ "hook" \in Faults
    /\ send[t] = "hooks"
    /\ send' = [send EXCEPT ![t] = "refused"]
    /\ UNCHANGED <<session, ownership, registering, init, starter, reader, exitw, cli>>

\* The hooks are done: the attempt exists, and its fate is decided at once.
SendAdmits(t) ==
    /\ send[t] = "hooks"
    /\ send' = [send EXCEPT ![t] = "sent"]
    /\ IF ~alive \/ (inflight # NoTurn /\ local[inflight] # "pending")
       THEN /\ local' = [local EXCEPT ![t] = "blocked"]
            /\ UNCHANGED <<inflight, queue, timer, disp, registering, todo>>
       ELSE IF inflight = NoTurn
       THEN DispatchTurn(t, queue, [local EXCEPT ![t] = "pending"], registering)
       ELSE /\ queue' = Append(queue, t)
            /\ local' = [local EXCEPT ![t] = "pending"]
            /\ UNCHANGED <<inflight, timer, disp, registering, todo>>
    /\ UNCHANGED <<session, native, init, starter, reader, exitw,
                   os, sid, refuses, pipe, fate, repeated>>

\* onAdmission resolved: written if its caller still waits on a live session.
RegistrationDoneUnasked(t) ==
    /\ t \in registering
    /\ registering' = registering \ {t}
    /\ IF inflight = t /\ alive
       THEN WriteTurn(t, queue, local)
       ELSE UNCHANGED <<inflight, queue, timer, local, disp, todo>>
    /\ UNCHANGED <<session, native, send, init, starter, reader, exitw,
                   os, sid, refuses, pipe, fate, repeated>>
RegistrationDone(t) ==
    /\ t \in registering
    /\ IF inflight = t /\ alive /\ local[t] = "pending"
       THEN WriteTurn(t, queue, local) /\ registering' = registering \ {t}
       ELSE IF inflight = t /\ disp[t] = "not-dispatched"
       THEN ProcessNextTurn(local, registering \ {t})
       ELSE /\ registering' = registering \ {t}
            /\ UNCHANGED <<inflight, queue, timer, local, disp, todo>>
    /\ UNCHANGED <<session, native, send, init, starter, reader, exitw,
                   os, sid, refuses, pipe, fate, repeated>>

\* onAdmission rejected.
RegistrationFails(t) ==
    /\ t \in registering
    /\ LET told == [local EXCEPT ![t] = IF @ = "pending" THEN "registration" ELSE @] IN
       IF inflight = t
       THEN ProcessNextTurn(told, registering \ {t})
       ELSE /\ local' = told
            /\ registering' = registering \ {t}
            /\ UNCHANGED <<inflight, queue, timer, disp, todo>>
    /\ UNCHANGED <<session, native, send, init, starter, reader, exitw,
                   os, sid, refuses, pipe, fate, repeated>>

\* The timer rejects whatever turn is in flight; the work stays owned.
TimerFires ==
    /\ timer # NoTurn
    /\ IF inflight = NoTurn
       THEN timer' = NoTurn /\ UNCHANGED <<local, queue>>
       ELSE RejectInflight("timeout")
    /\ UNCHANGED <<session, inflight, disp, native, pending, cli>>
----------------------------------------------------------------------------
(* The reader of each process's output                                      *)

ReadsFrom(p) == reader[p] = "reading" /\ pipe[p] # <<>>
Pop(p) == pipe' = [pipe EXCEPT ![p] = Tail(@)]

\* Lines of a process that was replaced are dropped; the lines of a killed one
\* still count until another process takes its place.
Listens(p) == proc \in {0, p}
Foreign(p) == ext # 0 /\ sid[p] # ext

\* A result whose id was already taken.
DuplicateNever(t) == t \notin Turns
Duplicate(t) == t \in seen

\* A result is a success or a failure by its subtype, or neither.
Recognized(outcome) == outcome # "unrecognized"

ReadDropped(p) ==
    /\ ReadsFrom(p) /\ Pop(p)
    /\ ~Listens(p) \/ (Head(pipe[p]).kind # "control" /\ Foreign(p))
    /\ UNCHANGED <<session, ownership, pending, os, sid, refuses, todo, fate, repeated>>

\* The answer to initialize: start() resumes from it.
ReadControl(p) ==
    /\ ReadsFrom(p) /\ Pop(p) /\ Listens(p)
    /\ Head(pipe[p]).kind = "control"
    /\ init' = [init EXCEPT ![p] = IF @ = "pending" THEN "ok" ELSE @]
    /\ UNCHANGED <<session, ownership, send, registering, starter, reader, exitw,
                   os, sid, refuses, todo, fate, repeated>>

\* The session takes the first id a line carries.
ReadInit(p) ==
    /\ ReadsFrom(p) /\ Pop(p) /\ Listens(p) /\ ~Foreign(p)
    /\ Head(pipe[p]).kind = "init"
    /\ ext' = sid[p]
    /\ UNCHANGED <<proc, spawned, alive, ended, stderr, seen, ownership, pending,
                   os, sid, refuses, todo, fate, repeated>>

\* A result nobody waits for, or one already seen.
ReadUnowned(p) ==
    LET t == Head(pipe[p]).turn IN
    /\ ReadsFrom(p) /\ Pop(p) /\ Listens(p) /\ ~Foreign(p)
    /\ Head(pipe[p]).kind = "result"
    /\ Duplicate(t) \/ inflight = NoTurn
    /\ ext' = IF Duplicate(t) THEN ext ELSE sid[p]
    /\ seen' = seen \cup {t}
    /\ UNCHANGED <<proc, spawned, alive, ended, stderr, ownership, pending,
                   os, sid, refuses, todo, fate, repeated>>

\* A result is the in-flight turn's: the stream is ordered.  It settles the
\* turn and frees the slot, unless its status is not one the session knows.
ReadResult(p) ==
    LET t == Head(pipe[p]).turn
        outcome == fate[t] IN
    /\ ReadsFrom(p) /\ Pop(p) /\ Listens(p) /\ ~Foreign(p)
    /\ Head(pipe[p]).kind = "result"
    /\ ~Duplicate(t) /\ inflight # NoTurn
    /\ ext' = sid[p]
    /\ seen' = seen \cup {t}
    /\ IF Recognized(outcome)
       THEN /\ native' = [native EXCEPT ![inflight] = outcome]
            /\ ProcessNextTurn([local EXCEPT ![inflight] =
                                  IF @ = "pending" THEN "resolved" ELSE @],
                               registering)
       ELSE /\ native' = [native EXCEPT ![inflight] = "unknown"]
            /\ RejectInflight("unrecognized-terminal")
            /\ UNCHANGED <<inflight, disp, registering, todo>>
    /\ UNCHANGED <<proc, spawned, alive, ended, stderr, send, init, starter,
                   reader, exitw, os, sid, refuses, fate, repeated>>

\* End of output: the turn is lost, once stderr was given time to say why.
ReadEof(p) ==
    /\ reader[p] = "reading" /\ pipe[p] = <<>>
    /\ os[p] \in {"closed", "exited"}
    /\ reader' = [reader EXCEPT ![p] = IF proc = p /\ alive THEN "settling" ELSE "done"]
    /\ UNCHANGED <<session, ownership, send, registering, init, starter, exitw, cli>>

ReadSettles(p) ==
    /\ reader[p] = "settling"
    /\ reader' = [reader EXCEPT ![p] = "done"]
    /\ SettleMissing
    /\ TransportFailure
    /\ UNCHANGED <<proc, spawned, ext, stderr, seen, inflight, native, send,
                   registering, starter, exitw, cli>>

\* Reading fails.
ReadError(p) ==
    /\ "read-error" \in Faults
    /\ reader[p] = "reading"
    /\ reader' = [reader EXCEPT ![p] = "done"]
    /\ IF proc = p THEN TransportFailure
       ELSE UNCHANGED <<alive, ended, local, queue, timer, init>>
    /\ UNCHANGED <<proc, spawned, ext, stderr, seen, inflight, disp, native, send,
                   registering, starter, exitw, cli>>

\* The stderr reader: only what names a missing conversation matters.
ReadStderr(p) ==
    /\ refuses[p] /\ sid[p] \notin stderr
    /\ stderr' = stderr \cup {sid[p]}
    /\ UNCHANGED <<proc, spawned, alive, ended, ext, seen, ownership, pending, cli>>

----------------------------------------------------------------------------
(* The exit handler of each process: it looks at the current process once,  *)
(* then waits for the reader and for stderr.                                *)

ExitNoticed(p) ==
    /\ exitw[p] = "armed" /\ os[p] = "exited"
    /\ IF proc = p /\ alive
       THEN alive' = FALSE /\ exitw' = [exitw EXCEPT ![p] = "draining"]
       ELSE UNCHANGED alive /\ exitw' = [exitw EXCEPT ![p] = "done"]
    /\ UNCHANGED <<proc, spawned, ended, ext, stderr, seen, ownership, send,
                   registering, init, starter, reader, cli>>

ExitDrained(p) ==
    /\ exitw[p] = "draining" /\ reader[p] = "done"
    /\ exitw' = [exitw EXCEPT ![p] = "settling"]
    /\ UNCHANGED <<session, ownership, send, registering, init, starter, reader, cli>>

ExitSettles(p) ==
    /\ exitw[p] = "settling"
    /\ exitw' = [exitw EXCEPT ![p] = "done"]
    /\ SettleMissing
    /\ RejectInflightAndQueue("transport")
    /\ init' = RejectControl
    /\ ended' = TRUE
    /\ UNCHANGED <<proc, spawned, alive, ext, stderr, seen, inflight, native,
                   send, registering, starter, reader, cli>>

----------------------------------------------------------------------------
(* The CLI process (external)                                               *)

Emit(p, kind, t) == pipe' = [pipe EXCEPT ![p] = Append(@, [kind |-> kind, turn |-> t])]
Serves(p) == os[p] = "running" /\ ~refuses[p]

CliAnswersInit(p) ==
    /\ Serves(p) /\ init[p] = "pending"
    /\ \A i \in DOMAIN pipe[p] : pipe[p][i].kind # "control"
    /\ Emit(p, "control", NoTurn)
    /\ UNCHANGED <<session, ownership, pending, os, sid, refuses, todo, fate, repeated>>

CliTakesTurn(p) ==
    /\ Serves(p) /\ todo[p] # <<>>
    /\ fate[Head(todo[p])] = "unread"
    /\ fate' = [fate EXCEPT ![Head(todo[p])] = "running"]
    /\ Emit(p, "init", NoTurn)
    /\ UNCHANGED <<session, ownership, pending, os, sid, refuses, todo, repeated>>

CliAnswers(p) ==
    /\ os[p] = "running" /\ todo[p] # <<>>
    /\ fate[Head(todo[p])] = "running"
    /\ \E o \in {"completed", "failed", "unrecognized"} :
         fate' = [fate EXCEPT ![Head(todo[p])] = o]
    /\ Emit(p, "result", Head(todo[p]))
    /\ todo' = [todo EXCEPT ![p] = Tail(@)]
    /\ UNCHANGED <<session, ownership, pending, os, sid, refuses, repeated>>

\* A result the session has already been sent comes again (same uuid), from
\* the process that resumed the conversation it belongs to.
CliRepeats(p, t) ==
    /\ "repeats" \in Faults
    /\ os[p] = "running"
    /\ t \in seen /\ repeated = {}        \* bound: once
    /\ repeated' = repeated \cup {t}
    /\ Emit(p, "result", t)
    /\ UNCHANGED <<session, ownership, pending, os, sid, refuses, todo, fate>>

CliClosesOutput(p) ==
    /\ "closes" \in Faults
    /\ os[p] = "running"
    /\ os' = [os EXCEPT ![p] = "closed"]
    /\ UNCHANGED <<session, ownership, pending, sid, refuses, todo, pipe, fate, repeated>>

CliExits(p) ==
    /\ os[p] \in {"running", "closed"}
    /\ os' = [os EXCEPT ![p] = "exited"]
    /\ UNCHANGED <<session, ownership, pending, sid, refuses, todo, pipe, fate, repeated>>

----------------------------------------------------------------------------

Caller ==
    \/ Start \/ Kill \/ Interrupt
    \/ \E t \in Turns : SendBlocked(t) \/ SendRestarts(t) \/ SendEnters(t)

Continuations ==
    \/ \E p \in Procs : StartReturns(p) \/ InitTimeout(p)
    \/ \E t \in Turns : HookThrows(t) \/ SendAdmits(t)
                        \/ RegistrationDone(t) \/ RegistrationFails(t)
    \/ TimerFires

Streams ==
    \E p \in Procs :
        \/ ReadDropped(p) \/ ReadControl(p) \/ ReadInit(p) \/ ReadUnowned(p)
        \/ ReadResult(p) \/ ReadEof(p) \/ ReadSettles(p) \/ ReadError(p)
        \/ ReadStderr(p)
        \/ ExitNoticed(p) \/ ExitDrained(p) \/ ExitSettles(p)

Cli ==
    \E p \in Procs :
        \/ CliAnswersInit(p) \/ CliTakesTurn(p) \/ CliAnswers(p)
        \/ \E t \in Turns : CliRepeats(p, t)
        \/ CliClosesOutput(p) \/ CliExits(p)

Next == Caller \/ Continuations \/ Streams \/ Cli

Spec == Init /\ [][Next]_vars

\* The event loop runs every continuation that is ready, timers fire, output
\* that arrived is read, and a caller's onAdmission and hooks return.  Nothing
\* is assumed of the CLI: it may stay silent for ever.
Fairness ==
    /\ \A p \in Procs :
         /\ WF_vars(StartReturns(p)) /\ WF_vars(InitTimeout(p))
         /\ WF_vars(ReadDropped(p) \/ ReadControl(p) \/ ReadInit(p)
                    \/ ReadUnowned(p) \/ ReadResult(p) \/ ReadEof(p))
         /\ WF_vars(ReadSettles(p))
         /\ WF_vars(ExitNoticed(p)) /\ WF_vars(ExitDrained(p)) /\ WF_vars(ExitSettles(p))
    /\ \A t \in Turns :
         /\ WF_vars(SendAdmits(t) \/ HookThrows(t))
         /\ WF_vars(RegistrationDone(t) \/ RegistrationFails(t))
    /\ WF_vars(TimerFires)

FairSpec == Spec /\ Fairness
----------------------------------------------------------------------------
(* What the session must get right                                          *)

\* Native work nobody has answered belongs to the turn in flight, whatever its
\* caller was told and whichever process it was written to (interrupt(),
\* _writeTurn's timer, kill(): "Native ownership is retained").
OwnerHolds == \A t \in Turns : Unresolved(t) => inflight = t

\* What makes OwnerHolds inductive: a queued turn was never written and waits
\* once, a turn being registered was never written, a send that is not yet an
\* attempt was never written, a start() continues the one send() that waits for
\* it, and a result line has an outcome to record.
QueueWaits ==
    \A i \in 1..Len(queue) :
        /\ disp[queue[i]] = "not-dispatched"
        /\ send[queue[i]] = "sent"
        /\ queue[i] \notin registering
        /\ \A j \in 1..Len(queue) : queue[i] = queue[j] => i = j

RegistrationWaits ==
    \A t \in registering :
        t \in Registered /\ disp[t] = "not-dispatched" /\ send[t] = "sent"

UnsentUntouched == \A t \in Turns : send[t] # "sent" => disp[t] = "not-dispatched"

StartersWait ==
    \A p \in Procs : starter[p] # NoTurn =>
        /\ send[starter[p]] = "starting"
        /\ \A q \in Procs : starter[q] = starter[p] => q = p

Answered == {t \in Turns : fate[t] \in {"completed", "failed", "unrecognized"}}
LinesAnswered ==
    /\ seen \subseteq Answered
    /\ \A p \in Procs : \A i \in 1..Len(pipe[p]) :
         pipe[p][i].kind = "result" => pipe[p][i].turn \in Answered

OwnershipInductive ==
    /\ TypeOK
    /\ OwnerHolds
    /\ QueueWaits
    /\ RegistrationWaits
    /\ UnsentUntouched
    /\ StartersWait
    /\ LinesAnswered

\* The outcome recorded for a turn is the one the CLI reached for that turn:
\* no late, repeated or foreign result settles another turn (_processLine).
HonestOutcome == \A t \in Turns : native[t] # "unknown" => native[t] = fate[t]

\* A turn reported as never dispatched was never read by a CLI that could run
\* it, so sending it again cannot repeat it (_settleMissing).
HonestNoSend == \A t \in Turns : disp[t] = "not-dispatched" => fate[t] = "unread"

\* What makes those two inductive: an answered turn was written and is no longer
\* in flight; a CLI that serves holds the turn in flight at most, unanswered; a
\* result not seen yet is of a turn still owed one; once a CLI found the
\* conversation gone, so does every later one, and no other holds a turn.
AnsweredWasWritten ==
    \A t \in Turns : native[t] # "unknown" => t # inflight /\ disp[t] = "attempted"

TodoOwned ==
    \A p \in Procs : ~refuses[p] /\ todo[p] # <<>> =>
        /\ inflight \in Turns /\ todo[p] = <<inflight>>
        /\ Unresolved(inflight) /\ inflight \notin Answered
        /\ \A q \in Procs : ~refuses[q] /\ q # p => todo[q] = <<>>

LinesOwed ==
    \A p \in Procs : \A i \in 1..Len(pipe[p]) :
        pipe[p][i].kind = "result" /\ pipe[p][i].turn \notin seen
            => Unresolved(pipe[p][i].turn)

GoneForGood ==
    /\ \A q \in Procs : refuses[q] =>
         /\ ext # 0 /\ sid[q] = ext
         /\ proc # 0 => refuses[proc]
         /\ \A p \in Procs : ~refuses[p] => todo[p] = <<>>
         /\ \A i \in 1..Len(todo[q]) : fate[todo[q][i]] = "unread"
         /\ \A t \in Turns : Unresolved(t) => fate[t] = "unread"
    /\ stderr # {} => \E q \in Procs : refuses[q]

\* What the refinement below needs besides: a queued send still waits, and a
\* send that is not yet an attempt was told nothing.
QueuePending == \A i \in 1..Len(queue) : local[queue[i]] = "pending"
UnsentUntold == \A t \in Turns : send[t] # "sent" => local[t] = "none"

Ledger == HonestOutcome /\ HonestNoSend /\ AnsweredWasWritten /\ TodoOwned /\ GoneForGood
Inductive == OwnershipInductive /\ Ledger /\ LinesOwed /\ QueuePending /\ UnsentUntold

\* A caller still waiting is the in-flight turn's or a queued one's, which is
\* where every rejection looks for it.
NobodyForgotten ==
    \A t \in Turns : local[t] = "pending" => t = inflight \/ t \in Elems(queue)

\* The session implements what every HarnessSession promises.
TurnOutcome(o) == IF o \in Failures THEN "rejected" ELSE o
Ownership == INSTANCE TurnOwnership WITH local <- [t \in Turns |-> TurnOutcome(local[t])]
ImplementsOwnership == Ownership!Spec

\* A send the session admits is never refused for unresolved native work when
\* there is none (tests/claude-code-session.test.ts: a no-send "doesn't wedge
\* the session behind an unknown outcome").  It does not
\* hold: README, "Where code and comments disagree".
RefusedOnlyForWork ==
    [][\A t \in Turns :
         alive /\ local[t] = "none" /\ local'[t] = "blocked"
            => registering # {} \/ \E u \in Turns : Unresolved(u)]_vars

\* After its process died a session that knows its conversation restarts it on
\* the next send ("Auto-restart after interrupt / process death").  It does not
\* hold: README, "Where code and comments disagree".
RestartsAfterDeath ==
    [][\A t \in Turns : send[t] = "idle" /\ send'[t] = "refused"
                          => ext = 0 \/ spawned = MaxProcs]_vars

\* A send with a timeout settles, whatever the CLI does and whatever it waits
\* behind, when every send has one.
SendsSettle ==
    \A t \in Turns : local[t] = "pending" ~> local[t] # "pending"

\* A send that restarted the process is not kept waiting by an initialize that
\* is never answered, is lost to a crash or is overtaken by kill().
RestartAnswered ==
    \A t \in Turns : send[t] = "starting" ~> send[t] # "starting"

=============================================================================
