---------------------------- MODULE CodexSession ----------------------------
(***************************************************************************)
(* One CodexAppServerSession (src/src/codex-session.ts): turns driven over *)
(* JSON-RPC to an app-server process that is never restarted.              *)
(*                                                                         *)
(* _sendTurn is one suspended function per turn; phase[t] is the await it  *)
(* stands at.  Its answers race the turn's own notifications, the caller's *)
(* timeout, kill(), the reader's end and the exit handler, and it goes on  *)
(* after any of them.  A turn leaves the session only when its native      *)
(* terminal and its turn/start answer are both known.                      *)
(*                                                                         *)
(* The app-server is external: runs[i] is what it really did.  A line may  *)
(* be read at any time after the server could write it, a turn's started   *)
(* line before its completed one.                                          *)
(***************************************************************************)
EXTENDS Naturals, Sequences, SequencesExt

CONSTANTS
    Turns,          \* the sends of one session
    NoTurn, Other,  \* no turn; a turn of the same thread that no send asked for
    Registered,     \* the sends that carry onAdmission
    Timed,          \* the sends with a timeout
    Asks,           \* bound: approval requests
    MaxCalls,       \* bound: how many of those happen in one behaviour, and asks
    Gates,          \* bound: gates registered through onToolRequest()
    Calls,          \* bound: which of "push", "stop" (interruptNative) and "tool" a run explores
    Inventory,      \* requiredMcpServer is configured
    Persisted,      \* onThreadReady is configured
    Faults          \* what may go wrong: "write", "bad", "exit", "closes", "again", "other"

ASSUME CodexAssumption ==
    /\ NoTurn \notin Turns /\ Other \notin Turns /\ NoTurn # Other
    /\ Registered \subseteq Turns /\ Timed \subseteq Turns
    /\ Gates \in Nat /\ MaxCalls \in Nat
    /\ Calls \subseteq {"push", "stop", "tool"}
    /\ Inventory \in BOOLEAN /\ Persisted \in BOOLEAN
    /\ Faults \subseteq {"write", "bad", "exit", "closes", "again", "other"}

Ids   == Turns \cup {Other}
Maybe == Ids \cup {NoTurn}

VARIABLES
    local, disp, native,    \* TurnState: localOutcome, dispatch, nativeOutcome
    rpc, settled,           \* TurnState: rpcOutcome, rpcSettled
    turnId,                 \* TurnState: identity.turnId
    phase,                  \* where send() and _sendTurn are suspended
    inflight, queue, timer, \* _inflight, _queue, the turn _turnTimer is for
    admitted, seen,         \* _appAdmission, _seenTerminals
    open,                   \* _proc, _alive, _startedOnce, _threadReady and a known binding
    hello,                  \* the initialize request of start()
    exitw,                  \* the exit handler
    ask,                    \* _approvals, by request
    steer, stop,            \* one push() call (and if its write threw), one interruptNative() call
    tool,                   \* _items: one tool item of the turn
    \* the app-server
    server, stdout, runs, told, taken,
    \* history
    tools, said             \* [uses, results] per turn; the gates' verdicts per request

attempt == <<local, disp, native, rpc, settled, turnId, phase>>
session == <<inflight, queue, timer, admitted, seen, open, hello, exitw>>
calls   == <<ask, steer, stop, said>>
items   == <<tool, tools>>
runtime == <<server, stdout, runs, told, taken>>
vars    == <<attempt, session, calls, items, runtime>>

Phases == {"idle", "starting", "hooks", "queued", "registering", "thread", "bound", "gone",
           "unsent", "binding", "mcp", "ready", "started", "awaiting", "failed", "end"}
\* _sendTurn stands at one of its own requests.
Requesting == {"thread", "mcp", "started"}

AttemptTyped ==
    /\ local \in [Turns -> {"none", "pending", "resolved", "rejected"}]
    /\ disp \in [Turns -> {"not-dispatched", "attempted"}]
    /\ native \in [Turns -> {"unknown", "completed", "failed"}]
    /\ rpc \in [Turns -> {"none", "pending", "resolved", "failed", "unknown"}]
    /\ settled \in [Turns -> BOOLEAN]
    /\ turnId \in [Turns -> Maybe] /\ phase \in [Turns -> Phases]
SessionTyped ==
    /\ inflight \in Turns \cup {NoTurn} /\ queue \in Seq(Turns)
    /\ timer \in Turns \cup {NoTurn} /\ admitted \in Turns \cup {NoTurn} /\ seen \subseteq Ids
    /\ open \in [proc : BOOLEAN, alive : BOOLEAN, once : BOOLEAN, ready : BOOLEAN, binding : BOOLEAN]
    /\ hello \in {"none", "sent", "answered", "failed", "over"}
    /\ exitw \in {"none", "draining", "done"}
CallsTyped ==
    /\ ask \in [Asks -> {"none", "deciding", "accepted", "declined", "refused", "withdrawn", "dropped"}]
    /\ said \in [Asks -> Seq({"allow", "deny"})]
    /\ steer \in [st : {"none", "asked", "steered", "ignored", "unknown"}, of : Maybe,
                 threw : BOOLEAN]
    /\ stop \in [st : {"none", "asked", "polling", "acknowledged", "unacknowledged"}, of : Maybe]
ServerTyped ==
    /\ tool \in {"none", "open", "completed"} /\ tools \in [Turns -> [uses : Nat, results : Nat]]
    /\ server \in {"none", "up", "gone"} /\ stdout \in {"open", "closed"}
    /\ runs \in [Ids -> {"none", "asked", "running", "completed", "failed"}]
    /\ told \in [Ids -> 0..2] /\ taken \in BOOLEAN

TypeOK == AttemptTyped /\ SessionTyped /\ CallsTyped /\ ServerTyped

Init ==
    /\ local = [t \in Turns |-> "none"]
    /\ disp = [t \in Turns |-> "not-dispatched"]
    /\ native = [t \in Turns |-> "unknown"]
    /\ rpc = [t \in Turns |-> "none"] /\ settled = [t \in Turns |-> FALSE]
    /\ turnId = [t \in Turns |-> NoTurn] /\ phase = [t \in Turns |-> "idle"]
    /\ inflight = NoTurn /\ queue = <<>> /\ timer = NoTurn /\ admitted = NoTurn /\ seen = {}
    /\ \E b \in BOOLEAN : open = [proc |-> FALSE, alive |-> FALSE, once |-> FALSE,
                                  ready |-> FALSE, binding |-> b]
    /\ hello = "none" /\ exitw = "none"
    /\ ask = [r \in Asks |-> "none"] /\ said = [r \in Asks |-> <<>>]
    /\ steer = [st |-> "none", of |-> NoTurn, threw |-> FALSE] /\ stop = [st |-> "none", of |-> NoTurn]
    /\ tool = "none" /\ tools = [t \in Turns |-> [uses |-> 0, results |-> 0]]
    /\ server = "none" /\ stdout = "open" /\ taken = FALSE
    /\ runs = [i \in Ids |-> "none"] /\ told = [i \in Ids |-> 0]

----------------------------------------------------------------------------
(* Helpers that bear the methods' names.  They give new values; the actions *)
(* assign them.                                                             *)

Unresolved(t) == disp[t] = "attempted" /\ native[t] = "unknown"

\* The caller of each turn in `ts` who still waits is told of a failure.
Told(ts) == [t \in Turns |-> IF t \in ts /\ local[t] = "pending" THEN "rejected" ELSE local[t]]

\* _rejectInflight: its timer is cleared, its caller and the queue's are told.
RejectInflight ==
    IF inflight = NoTurn
    THEN UNCHANGED <<local, queue, timer>>
    ELSE local' = Told({inflight} \cup ToSet(queue)) /\ queue' = <<>> /\ timer' = NoTurn

\* ... followed by _rejectQueue.
RejectAll ==
    /\ local' = Told({inflight} \cup ToSet(queue)) /\ queue' = <<>>
    /\ timer' = IF inflight = NoTurn THEN timer ELSE NoTurn

\* Every pending request is rejected: each call that stands at one goes on.
RejectPending ==
    /\ phase' = [t \in Turns |-> IF phase[t] \in Requesting THEN "failed" ELSE phase[t]]
    /\ hello' = IF hello = "sent" THEN "failed" ELSE hello
    /\ steer' = IF steer.st = "asked" THEN [steer EXCEPT !.st = "unknown"] ELSE steer
    /\ stop' = IF stop.st = "asked" THEN [stop EXCEPT !.st = "unacknowledged"] ELSE stop

\* _withdrawRequests: the gates' decisions to come are discarded.
WithdrawRequests ==
    ask' = [r \in Asks |-> IF ask[r] = "deciding" THEN "withdrawn" ELSE ask[r]]

\* The step of _sendTurn that follows a ready thread.
AfterThread == IF Inventory THEN "mcp" ELSE "ready"

\* _dispatchTurn (and _writeTurn when there is no onAdmission): the new values,
\* `tm` being the timer so far.
DispatchPhase(t) ==
    IF t \in Registered THEN "registering" ELSE IF open.ready THEN AfterThread ELSE "thread"
WriteTurnKept(t, tm) ==
    disp' = [disp EXCEPT ![t] = "attempted"] /\ timer' = tm
WriteTurn(t, tm) ==
    disp' = [disp EXCEPT ![t] = "attempted"] /\ timer' = IF t \in Timed THEN t ELSE tm
DispatchTurn(t, tm) ==
    /\ inflight' = t
    /\ IF t \in Registered THEN timer' = tm /\ UNCHANGED disp ELSE WriteTurn(t, tm)

\* _processNextTurn, after the turn `done` left.
ProcessNextTurn(done, tm) ==
    IF queue # <<>> /\ open.alive
    THEN /\ DispatchTurn(Head(queue), tm) /\ queue' = Tail(queue)
         /\ phase' = [phase EXCEPT ![done] = "end", ![Head(queue)] = DispatchPhase(Head(queue))]
    ELSE /\ inflight' = NoTurn /\ phase' = [phase EXCEPT ![done] = "end"]
         /\ timer' = tm /\ UNCHANGED <<queue, disp>>

\* _canReleaseAttempt: a terminal alone does not settle an unanswered turn/start.
CanReleaseAnswered(s, r, n) == s /\ r \in {"resolved", "failed"}
CanRelease(s, r, n) == s /\ r \in {"resolved", "failed"} /\ n # "unknown"

\* _releaseKnownTurn after a line of the server: a send whose caller was told and that was
\* never written leaves, even if its onAdmission is still awaited.  The queue is
\* empty then, as _rejectInflight left it.
NoSend == inflight # NoTurn /\ disp[inflight] = "not-dispatched" /\ local[inflight] = "rejected"
ReleaseNoSendKept == inflight' = inflight
ReleaseNoSend == inflight' = IF NoSend THEN NoTurn ELSE inflight

\* kill()
KillEffects ==
    /\ open' = [open EXCEPT !.proc = FALSE, !.alive = FALSE]
    /\ RejectAll /\ RejectPending /\ WithdrawRequests

----------------------------------------------------------------------------
(* The caller                                                               *)

\* _launch up to the await of initialize.
Launch ==
    /\ open' = [open EXCEPT !.proc = TRUE, !.alive = TRUE, !.once = TRUE, !.ready = FALSE]
    /\ hello' = "sent" /\ server' = "up"

\* start() by the caller, before any send.
Start ==
    /\ ~open.once /\ inflight = NoTurn
    /\ Launch
    /\ UNCHANGED <<attempt, inflight, queue, timer, admitted, seen, exitw, calls, items,
                   stdout, runs, told, taken>>

\* start() on a running session throws, and start()'s own handler kills it.
StartAgain ==
    /\ "again" \in Faults /\ open.alive /\ open.proc /\ inflight = NoTurn
    /\ KillEffects
    /\ UNCHANGED <<disp, native, rpc, settled, turnId, inflight, admitted, seen, exitw, said, items, runtime>>

\* initialize is answered, or refused: then start() kills what it launched.
HelloAnswered ==
    /\ hello = "sent" /\ server = "up" /\ stdout = "open" /\ hello' = "answered"
    /\ UNCHANGED <<attempt, inflight, queue, timer, admitted, seen, open, exitw, calls, items, runtime>>

\* The caller's start(), or the send()s that launched, kill the process.
HelloFails ==
    /\ \/ hello = "failed"
       \/ "bad" \in Faults /\ hello = "sent" /\ server = "up" /\ stdout = "open"
    /\ IF open.proc
       THEN /\ open' = [open EXCEPT !.proc = FALSE, !.alive = FALSE]
            /\ local' = [t \in Turns |-> IF phase[t] = "starting" THEN "rejected"
                                         ELSE Told({inflight} \cup ToSet(queue))[t]]
            /\ queue' = <<>> /\ timer' = IF inflight = NoTurn THEN timer ELSE NoTurn
            /\ WithdrawRequests
            /\ steer' = IF steer.st = "asked" THEN [steer EXCEPT !.st = "unknown"] ELSE steer
            /\ stop' = IF stop.st = "asked" THEN [stop EXCEPT !.st = "unacknowledged"] ELSE stop
       ELSE /\ local' = [t \in Turns |-> IF phase[t] = "starting" THEN "rejected" ELSE local[t]]
            /\ UNCHANGED <<open, queue, timer, ask, steer, stop>>
    /\ phase' = [t \in Turns |-> IF phase[t] = "starting" THEN "end"
                                 ELSE IF phase[t] \in Requesting /\ open.proc THEN "failed"
                                 ELSE phase[t]]
    /\ hello' = "over"
    /\ UNCHANGED <<disp, native, rpc, settled, turnId, inflight, admitted, seen, exitw, said, items, runtime>>

\* send(): refused while native work is unresolved and nobody waits for it, or
\* the session is over.
Blocked == \E t \in Turns : Unresolved(t) /\ (~open.alive \/ local[t] # "pending")

SendRefused(t) ==
    /\ phase[t] = "idle"
    /\ \/ Blocked
       \/ ~open.proc /\ (~open.binding \/ open.once \/ inflight # NoTurn)
       \/ open.proc /\ ~open.alive
    /\ local' = [local EXCEPT ![t] = "rejected"] /\ phase' = [phase EXCEPT ![t] = "end"]
    /\ UNCHANGED <<disp, native, rpc, settled, turnId, session, calls, items, runtime>>

\* A send with a known thread launches the process; only the first one awaits it.
SendStarts(t) ==
    /\ phase[t] = "idle" /\ ~Blocked
    /\ ~open.proc /\ open.binding /\ ~open.once /\ inflight = NoTurn
    /\ Launch /\ phase' = [phase EXCEPT ![t] = "starting"]
    /\ UNCHANGED <<local, disp, native, rpc, settled, turnId, inflight, queue, timer, admitted, seen,
                   exitw, calls, items, stdout, runs, told, taken>>

SendEnters(t) ==
    /\ phase[t] = "idle" /\ ~Blocked /\ open.proc /\ open.alive
    /\ phase' = [phase EXCEPT ![t] = "hooks"]
    /\ UNCHANGED <<local, disp, native, rpc, settled, turnId, session, calls, items, runtime>>

\* start() returned to the send that awaited it.
SendStarted(t) ==
    /\ phase[t] = "starting" /\ hello = "answered"
    /\ IF open.proc /\ open.alive
       THEN phase' = [phase EXCEPT ![t] = "hooks"] /\ UNCHANGED local
       ELSE phase' = [phase EXCEPT ![t] = "end"] /\ local' = [local EXCEPT ![t] = "rejected"]
    /\ UNCHANGED <<disp, native, rpc, settled, turnId, session, calls, items, runtime>>

\* The rest of send(), in one step after the hooks.
SendAdmits(t) ==
    /\ phase[t] = "hooks"
    /\ IF ~open.alive \/ (inflight # NoTurn /\ local[inflight] # "pending")
       THEN /\ local' = [local EXCEPT ![t] = "rejected"] /\ phase' = [phase EXCEPT ![t] = "end"]
            /\ UNCHANGED <<inflight, queue, timer, disp>>
       ELSE /\ local' = [local EXCEPT ![t] = "pending"]
            /\ IF inflight = NoTurn
               THEN /\ DispatchTurn(t, timer) /\ phase' = [phase EXCEPT ![t] = DispatchPhase(t)]
                    /\ UNCHANGED queue
               ELSE /\ queue' = Append(queue, t) /\ phase' = [phase EXCEPT ![t] = "queued"]
                    /\ UNCHANGED <<inflight, timer, disp>>
    /\ UNCHANGED <<native, rpc, settled, turnId, admitted, seen, open, hello, exitw, calls, items, runtime>>

\* onAdmission returned, or threw.  The session may have gone on to another turn meanwhile.
RegistrationDone(t) ==
    /\ phase[t] = "registering"
    /\ IF inflight # t
       THEN phase' = [phase EXCEPT ![t] = "end"] /\ UNCHANGED <<disp, inflight, queue, timer>>
       ELSE IF open.alive /\ local[t] = "pending"
       THEN /\ WriteTurn(t, timer)
            /\ phase' = [phase EXCEPT ![t] = IF open.ready THEN AfterThread ELSE "thread"]
            /\ UNCHANGED <<inflight, queue>>
       ELSE ProcessNextTurn(t, timer)
    /\ UNCHANGED <<local, native, rpc, settled, turnId, admitted, seen, open, hello, exitw,
                   calls, items, runtime>>

RegistrationFails(t) ==
    /\ phase[t] = "registering"
    /\ local' = Told({t})
    /\ IF inflight # t
       THEN phase' = [phase EXCEPT ![t] = "end"] /\ UNCHANGED <<disp, inflight, queue, timer>>
       ELSE ProcessNextTurn(t, timer)
    /\ UNCHANGED <<native, rpc, settled, turnId, admitted, seen, open, hello, exitw,
                   calls, items, runtime>>

Interrupt ==
    /\ inflight # NoTurn /\ local[inflight] = "pending"
    /\ RejectInflight
    /\ UNCHANGED <<disp, native, rpc, settled, turnId, phase, inflight, admitted, seen, open, hello,
                   exitw, calls, items, runtime>>

TimerFires ==
    /\ timer # NoTurn
    /\ RejectInflight
    /\ UNCHANGED <<disp, native, rpc, settled, turnId, phase, inflight, admitted, seen, open, hello,
                   exitw, calls, items, runtime>>

Kill ==
    /\ open.proc
    /\ KillEffects
    /\ UNCHANGED <<disp, native, rpc, settled, turnId, inflight, admitted, seen, exitw, said,
                   items, runtime>>

----------------------------------------------------------------------------
(* _sendTurn, from one await to the next                                    *)

\* What the server wrote can be read until its output closes.
ServerAnswers == server # "none" /\ stdout = "open"

\* thread/start or thread/resume is answered; "gone": no rollout found.
ThreadAnswered(t, a) ==
    /\ phase[t] = "thread" /\ ServerAnswers
    /\ a \in {"bound", "gone"} \/ (a = "failed" /\ "bad" \in Faults)
    /\ a = "gone" => open.binding
    /\ phase' = [phase EXCEPT ![t] = a]
    /\ UNCHANGED <<local, disp, native, rpc, settled, turnId, session, calls, items, runtime>>

\* Nothing was there to resume: turn/start is not written.
ThreadGone(t) ==
    /\ phase[t] = "gone"
    /\ phase' = [phase EXCEPT ![t] = "unsent"] /\ disp' = [disp EXCEPT ![t] = "not-dispatched"]
    /\ UNCHANGED <<local, native, rpc, settled, turnId, session, calls, items, runtime>>

ThreadConfigured(t) ==
    /\ phase[t] = "bound"
    /\ open' = [open EXCEPT !.binding = TRUE, !.ready = ~Persisted]
    /\ phase' = [phase EXCEPT ![t] = IF Persisted THEN "binding" ELSE AfterThread]
    /\ UNCHANGED <<local, disp, native, rpc, settled, turnId, inflight, queue, timer, admitted, seen,
                   hello, exitw, calls, items, runtime>>

\* onThreadReady returned.
BindingPersisted(t) ==
    /\ phase[t] = "binding"
    /\ open' = [open EXCEPT !.ready = TRUE]
    /\ phase' = [phase EXCEPT ![t] = AfterThread]
    /\ UNCHANGED <<local, disp, native, rpc, settled, turnId, inflight, queue, timer, admitted, seen,
                   hello, exitw, calls, items, runtime>>

BindingFails(t) ==
    /\ phase[t] = "binding" /\ "bad" \in Faults
    /\ phase' = [phase EXCEPT ![t] = "failed"]
    /\ UNCHANGED <<local, disp, native, rpc, settled, turnId, session, calls, items, runtime>>

\* _readiness: the last page of the MCP inventory.
InventoryAnswered(t, a) ==
    /\ phase[t] = "mcp" /\ ServerAnswers
    /\ a = "ready" \/ (a = "failed" /\ "bad" \in Faults)
    /\ phase' = [phase EXCEPT ![t] = a]
    /\ UNCHANGED <<local, disp, native, rpc, settled, turnId, session, calls, items, runtime>>

\* Writes turn/start, unless the admission closed meanwhile.  A write that
\* throws may have been delivered.
Admissible(t) == inflight = t /\ local[t] = "pending" /\ open.alive
StartTurnClosed(t) ==
    /\ phase[t] = "ready" /\ phase' = [phase EXCEPT ![t] = "started"]
    /\ admitted' = t /\ rpc' = [rpc EXCEPT ![t] = "pending"] /\ tool' = "none"
    /\ runs' = [runs EXCEPT ![t] = "asked"]
    /\ UNCHANGED <<local, disp, native, settled, turnId, inflight, queue, timer, seen, open, hello,
                   exitw, calls, tools, server, stdout, told, taken>>
StartTurn(t) ==
    /\ phase[t] = "ready"
    /\ IF Admissible(t)
       THEN /\ admitted' = t /\ rpc' = [rpc EXCEPT ![t] = "pending"] /\ tool' = "none"
            /\ \/ /\ phase' = [phase EXCEPT ![t] = "started"]
                  /\ runs' = [runs EXCEPT ![t] = "asked"]
               \/ /\ "write" \in Faults /\ phase' = [phase EXCEPT ![t] = "failed"]
                  /\ runs' \in {runs, [runs EXCEPT ![t] = "asked"]}
       ELSE phase' = [phase EXCEPT ![t] = "failed"] /\ UNCHANGED <<admitted, rpc, tool, runs>>
    /\ UNCHANGED <<local, disp, native, settled, turnId, inflight, queue, timer, seen, open, hello,
                   exitw, calls, tools, server, stdout, told, taken>>

\* The turn/start answer: its identity is applied at once, before later lines.
\* "other" answers have no usable turn.
ReadTurnAnswer(t, a) ==
    /\ phase[t] = "started" /\ ServerAnswers
    /\ \/ a = "turn" /\ runs[t] \notin {"none", "asked"}
       \/ a = "error" /\ "bad" \in Faults
       \/ a = "malformed" /\ "bad" \in Faults
    /\ rpc' = [rpc EXCEPT ![t] = IF a = "error" THEN "failed" ELSE "resolved"]
    /\ IF a = "turn" /\ (turnId[t] = t \/ (turnId[t] = NoTurn /\ t \notin seen))
       THEN turnId' = [turnId EXCEPT ![t] = t] /\ phase' = [phase EXCEPT ![t] = "awaiting"]
       ELSE phase' = [phase EXCEPT ![t] = "failed"] /\ UNCHANGED turnId
    /\ runs' = IF a = "error" /\ runs[t] = "asked" THEN [runs EXCEPT ![t] = "none"] ELSE runs
    /\ UNCHANGED <<local, disp, native, settled, session, calls, items, server, stdout, told, taken>>

\* _sendTurn returns: the terminal and the answer are both there (_resolveTurn).
TurnResolves(t) ==
    /\ phase[t] = "awaiting" /\ native[t] # "unknown" /\ inflight = t
    /\ settled' = [settled EXCEPT ![t] = TRUE]
    /\ local' = [local EXCEPT ![t] = IF @ = "pending" THEN "resolved" ELSE @]
    /\ ProcessNextTurn(t, NoTurn)
    /\ UNCHANGED <<native, rpc, turnId, admitted, seen, open, hello, exitw, calls, items, runtime>>

\* _sendTurn throws: the caller is told; the turn is released only when its
\* outcome is known, or when it was not written and nothing can have run.
FailTurn(t, next) ==
    /\ phase[t] \in {"failed", "unsent"} /\ phase' = [phase EXCEPT ![t] = "end"]
    /\ IF inflight = t
       THEN /\ settled' = [settled EXCEPT ![t] = TRUE]
            /\ rpc' = [rpc EXCEPT ![t] = IF @ = "pending" THEN "unknown" ELSE @]
            /\ RejectInflight
            /\ inflight' = next
       ELSE UNCHANGED <<settled, rpc, local, queue, timer, inflight>>
    /\ UNCHANGED <<disp, native, turnId, admitted, seen, open, hello, exitw, calls, items, runtime>>
TurnFailsReleased(t) == FailTurn(t, NoTurn)
TurnFails(t) ==
    FailTurn(t, IF phase[t] = "unsent" \/ CanRelease(TRUE, IF rpc[t] = "pending" THEN "unknown" ELSE rpc[t],
                                                     native[t])
                THEN NoTurn ELSE t)

----------------------------------------------------------------------------
(* Notifications (_classify, then _processLine)                             *)

\* The line is of the turn in flight, which was admitted and has no terminal yet.
Owned(i) == inflight # NoTurn /\ admitted = inflight /\ i \notin seen /\ turnId[inflight] = i

\* Of "push", "stop", the tool and the approvals, how many a behaviour has used.
Spent == (IF steer.st # "none" THEN 1 ELSE 0) + (IF stop.st # "none" THEN 1 ELSE 0)
         + (IF \E t \in Turns : tools[t].uses > 0 THEN 1 ELSE 0)
         + (IF \E r \in Asks : ask[r] # "none" THEN 1 ELSE 0)

\* turn/started names the turn if the answer has not.
ReadStarted(i) ==
    /\ stdout = "open" /\ told[i] = 0 /\ runs[i] \notin {"none", "asked"}
    /\ told' = [told EXCEPT ![i] = 1]
    /\ turnId' = IF inflight # NoTurn /\ admitted = inflight /\ i \notin seen /\ turnId[inflight] = NoTurn
                 THEN [turnId EXCEPT ![inflight] = i] ELSE turnId
    /\ ReleaseNoSend
    /\ UNCHANGED <<local, disp, native, rpc, settled, phase, queue, timer, admitted, seen, open, hello,
                   exitw, calls, items, server, stdout, runs, taken>>

\* Any other line that is no answer and no request to the gates: nothing but the release.
ReadOther ==
    /\ stdout = "open" /\ server # "none" /\ NoSend
    /\ ReleaseNoSend
    /\ UNCHANGED <<attempt, queue, timer, admitted, seen, open, hello, exitw, calls, items, runtime>>

\* _processLine: the event is recorded in the turn in flight.
Recorded(outcome) == [native EXCEPT ![inflight] = outcome]

\* turn/completed ends the owned turn, and releases it if its answer had come
\* and failed; the queue is empty then.
ReadCompleted(i) ==
    /\ stdout = "open" /\ told[i] = 1 /\ runs[i] \in {"completed", "failed"}
    /\ told' = [told EXCEPT ![i] = 2]
    /\ IF Owned(i)
       THEN /\ native' = Recorded(runs[i]) /\ seen' = seen \cup {i}
            /\ inflight' = IF CanRelease(settled[inflight], rpc[inflight], runs[i])
                           THEN NoTurn ELSE inflight
       ELSE ReleaseNoSend /\ UNCHANGED <<native, seen>>
    /\ UNCHANGED <<local, disp, rpc, settled, turnId, phase, queue, timer, admitted, open, hello, exitw,
                   calls, items, server, stdout, runs, taken>>

\* item/started and item/completed of one tool item: a use is recorded once, a
\* result once and only for a use.  The server may repeat or omit either.
ReadToolStarted(i) ==
    /\ stdout = "open" /\ runs[i] # "none" /\ "tool" \in Calls
    /\ Spent < MaxCalls \/ \E t \in Turns : tools[t].uses > 0
    /\ Owned(i) /\ tool = "none"
    /\ tool' = "open" /\ tools' = [tools EXCEPT ![inflight].uses = @ + 1]
    /\ UNCHANGED <<attempt, session, calls, runtime>>

ReadToolAgain(i) ==
    /\ stdout = "open" /\ runs[i] # "none" /\ "tool" \in Calls
    /\ Owned(i) /\ tool # "none"
    /\ tool' = "completed" /\ tools' = [tools EXCEPT ![inflight].results = @ + 1]
    /\ UNCHANGED <<attempt, session, calls, runtime>>
ReadToolCompleted(i) ==
    /\ stdout = "open" /\ runs[i] # "none" /\ "tool" \in Calls
    /\ Owned(i) /\ tool = "open"
    /\ tool' = "completed" /\ tools' = [tools EXCEPT ![inflight].results = @ + 1]
    /\ UNCHANGED <<attempt, session, calls, runtime>>

----------------------------------------------------------------------------
(* Approvals (_approval, ToolGates.decide)                                  *)

\* The next gate decides; the first deny wins, one that throws denies.  The
\* decision is written unless the request was withdrawn or the session died.
Decided(vs) == IF Len(vs) < Gates /\ (vs = <<>> \/ Last(vs) = "allow") THEN "deciding"
               ELSE IF ~open.proc \/ ~open.alive THEN "dropped"
               ELSE IF vs # <<>> /\ Last(vs) = "allow" THEN "accepted" ELSE "declined"

\* _serverRequest: a request that is not the owned turn's is refused.
Reaches(i) == inflight # NoTurn /\ turnId[inflight] = i

\* The runtime asks on behalf of a running turn; only the owned turn's request
\* reaches the gates.  With no gate registered it is denied at once.
RuntimeAsks(r) ==
    /\ ask[r] = "none" /\ stdout = "open" /\ Spent < MaxCalls
    /\ \E i \in Ids :
         /\ runs[i] = "running"
         /\ ask' = [ask EXCEPT ![r] = IF Reaches(i) THEN Decided(<<>>) ELSE "refused"]
    /\ UNCHANGED <<attempt, session, steer, stop, said, items, runtime>>

GateDecidesLast(r, v) ==
    /\ ask[r] = "deciding" /\ v \in {"allow", "deny"}
    /\ said' = [said EXCEPT ![r] = Append(@, v)]
    /\ ask' = [ask EXCEPT ![r] = IF Len(said[r]) + 1 < Gates THEN "deciding"
                                 ELSE IF v = "allow" THEN "accepted" ELSE "declined"]
    /\ UNCHANGED <<attempt, session, steer, stop, items, runtime>>
GateDecides(r, v) ==
    /\ ask[r] = "deciding" /\ v \in {"allow", "deny"}
    /\ said' = [said EXCEPT ![r] = Append(@, v)]
    /\ ask' = [ask EXCEPT ![r] = Decided(said'[r])]
    /\ UNCHANGED <<attempt, session, steer, stop, items, runtime>>

\* serverRequest/resolved: the runtime settled the request itself.
RuntimeWithdraws(r) ==
    /\ ask[r] = "deciding" /\ stdout = "open"
    /\ ask' = [ask EXCEPT ![r] = "withdrawn"]
    /\ ReleaseNoSend
    /\ UNCHANGED <<attempt, queue, timer, admitted, seen, open, hello, exitw, steer, stop, said, items,
                   runtime>>

----------------------------------------------------------------------------
(* push() and interruptNative()                                             *)

\* Both need an owned turn that was written, is named and has no terminal; without one
\* they return at once ("ignored", 'no-turn').
Steerable == /\ inflight # NoTurn /\ disp[inflight] = "attempted" /\ native[inflight] = "unknown"
             /\ turnId[inflight] # NoTurn /\ open.binding

\* A write or flush that throws rejects the request; the line may have left before.
\* After a kill there is nothing to write to.
Push ==
    /\ "push" \in Calls /\ steer.st = "none" /\ Spent < MaxCalls
    /\ Steerable
    /\ \/ /\ open.proc
          /\ steer' = [st |-> "asked", of |-> turnId[inflight], threw |-> FALSE]
       \/ /\ open.proc => "write" \in Faults
          /\ steer' = [st |-> IF open.alive THEN "ignored" ELSE "unknown", threw |-> TRUE,
                       of |-> IF open.proc THEN turnId[inflight] ELSE NoTurn]
    /\ UNCHANGED <<attempt, session, ask, stop, said, items, runtime>>

RuntimeTakes ==
    /\ steer.st \in {"asked", "unknown"} \/ steer.threw
    /\ server = "up" /\ ~taken
    /\ steer.of # NoTurn /\ runs[steer.of] = "running"
    /\ taken' = TRUE
    /\ UNCHANGED <<attempt, session, calls, items, server, stdout, runs, told>>

\* turn/steer is answered: a refusal is the runtime's answer.
SteerAnswered ==
    /\ steer.st = "asked" /\ ServerAnswers
    /\ taken \/ runs[steer.of] # "running"
    /\ steer' = [steer EXCEPT !.st = IF taken THEN "steered"
                                     ELSE IF open.alive THEN "ignored" ELSE "unknown"]
    /\ UNCHANGED <<attempt, session, ask, stop, said, items, runtime>>

\* No answer leaves the delivery unknown.
SteerTimesOutIgnored ==
    /\ steer.st = "asked"
    /\ steer' = [steer EXCEPT !.st = "ignored"]
    /\ UNCHANGED <<attempt, session, ask, stop, said, items, runtime>>
SteerTimesOut ==
    /\ steer.st = "asked"
    /\ steer' = [steer EXCEPT !.st = "unknown"]
    /\ UNCHANGED <<attempt, session, ask, stop, said, items, runtime>>

InterruptNative ==
    /\ "stop" \in Calls /\ stop.st = "none" /\ Spent < MaxCalls
    /\ Steerable
    /\ \/ open.proc /\ stop' = [st |-> "asked", of |-> inflight]
       \/ (open.proc => "write" \in Faults) /\ stop' = [st |-> "unacknowledged", of |-> inflight]
    /\ UNCHANGED <<attempt, session, ask, steer, said, items, runtime>>

\* turn/interrupt is answered; a turn that already ended refuses it.
StopAnswered ==
    /\ stop.st = "asked" /\ ServerAnswers
    /\ stop' = [stop EXCEPT !.st = IF runs[turnId[stop.of]] = "running" THEN "polling" ELSE "unacknowledged"]
    /\ UNCHANGED <<attempt, session, ask, steer, said, items, runtime>>

StopTimesOut ==
    /\ stop.st = "asked" /\ stop' = [stop EXCEPT !.st = "unacknowledged"]
    /\ UNCHANGED <<attempt, session, ask, steer, said, items, runtime>>

\* The poll ends: by the terminal, the deadline or the session's end.
StopReturns ==
    /\ stop.st = "polling"
    /\ stop' = [stop EXCEPT !.st = IF native[stop.of] # "unknown" THEN "acknowledged" ELSE "unacknowledged"]
    /\ UNCHANGED <<attempt, session, ask, steer, said, items, runtime>>

----------------------------------------------------------------------------
(* The process's end: the reader and the exit handler                       *)

\* Nothing more can be read; a session that thinks it runs fails
\* (_transportFailure).
Eof ==
    /\ stdout = "open" /\ stdout' = "closed"
    /\ IF open.proc /\ open.alive
       THEN /\ open' = [open EXCEPT !.alive = FALSE]
            /\ RejectAll /\ RejectPending /\ WithdrawRequests
       ELSE UNCHANGED <<open, local, queue, timer, phase, hello, steer, stop, ask>>
    /\ UNCHANGED <<disp, native, rpc, settled, turnId, inflight, admitted, seen, exitw, said, items,
                   server, runs, told, taken>>
ReadEof == server = "gone" /\ Eof
OutputCloses == server = "up" /\ "closes" \in Faults /\ Eof

\* The exit handler marks the session dead, then drains what was written.
ExitNoticed ==
    /\ server = "gone" /\ exitw = "none"
    /\ IF open.proc /\ open.alive
       THEN open' = [open EXCEPT !.alive = FALSE] /\ exitw' = "draining"
       ELSE exitw' = "done" /\ UNCHANGED open
    /\ UNCHANGED <<attempt, inflight, queue, timer, admitted, seen, hello, calls, items, runtime>>

ExitSettles ==
    /\ exitw = "draining" /\ stdout = "closed"
    /\ exitw' = "done"
    /\ RejectAll /\ RejectPending /\ WithdrawRequests
    /\ UNCHANGED <<disp, native, rpc, settled, turnId, inflight, admitted, seen, open, said, items, runtime>>

----------------------------------------------------------------------------
(* The app-server                                                           *)

RuntimeStarts(i) ==
    /\ server = "up"
    /\ runs[i] = "asked" \/ (i = Other /\ "other" \in Faults /\ runs[i] = "none" /\ open.ready)
    /\ runs' = [runs EXCEPT ![i] = "running"]
    /\ UNCHANGED <<attempt, session, calls, items, server, stdout, told, taken>>

RuntimeEnds(i, how) ==
    /\ server = "up" /\ runs[i] = "running" /\ how \in {"completed", "failed"}
    /\ runs' = [runs EXCEPT ![i] = how]
    /\ UNCHANGED <<attempt, session, calls, items, server, stdout, told, taken>>

\* By itself, or because it was killed.
ServerExits ==
    /\ server = "up" /\ ("exit" \in Faults \/ ~open.proc)
    /\ server' = "gone"
    /\ UNCHANGED <<attempt, session, calls, items, stdout, runs, told, taken>>

----------------------------------------------------------------------------
Handlers ==
    \/ HelloAnswered \/ HelloFails \/ TimerFires
    \/ \E t \in Turns : \/ SendStarted(t) \/ SendAdmits(t) \/ RegistrationDone(t)
                        \/ RegistrationFails(t) \/ ThreadConfigured(t) \/ BindingPersisted(t)
                        \/ BindingFails(t) \/ ThreadGone(t) \/ StartTurn(t) \/ TurnResolves(t) \/ TurnFails(t)
                        \/ \E a \in {"bound", "gone", "failed"} : ThreadAnswered(t, a)
                        \/ \E a \in {"ready", "failed"} : InventoryAnswered(t, a)
                        \/ \E a \in {"turn", "error", "malformed"} : ReadTurnAnswer(t, a)
    \/ \E i \in Ids : ReadStarted(i) \/ ReadCompleted(i) \/ ReadToolStarted(i) \/ ReadToolCompleted(i)
    \/ ReadOther
    \/ \E r \in Asks : RuntimeWithdraws(r) \/ \E v \in {"allow", "deny"} : GateDecides(r, v)
    \/ SteerAnswered \/ SteerTimesOut \/ StopAnswered \/ StopTimesOut \/ StopReturns
    \/ ReadEof \/ OutputCloses \/ ExitNoticed \/ ExitSettles

Callers ==
    \/ Start \/ StartAgain \/ Interrupt \/ Kill \/ Push \/ InterruptNative
    \/ \E t \in Turns : SendRefused(t) \/ SendStarts(t) \/ SendEnters(t)

Runtime ==
    \/ \E i \in Ids : RuntimeStarts(i) \/ \E how \in {"completed", "failed"} : RuntimeEnds(i, how)
    \/ \E r \in Asks : RuntimeAsks(r)
    \/ RuntimeTakes \/ ServerExits

Next == Handlers \/ Callers \/ Runtime

Spec == Init /\ [][Next]_vars

\* What is ready to run runs, timers that were set fire, and what was written is
\* read; nothing is assumed of the app-server, but that its exit is observed.
Progress(t) ==
    \/ SendStarted(t) \/ SendAdmits(t) \/ ThreadConfigured(t) \/ ThreadGone(t) \/ StartTurn(t)
    \/ TurnResolves(t) \/ TurnFails(t) \/ RegistrationDone(t)
Fairness ==
    /\ \A t \in Turns : WF_vars(Progress(t))
    /\ WF_vars(TimerFires) /\ WF_vars(ReadEof) /\ WF_vars(ExitNoticed) /\ WF_vars(ExitSettles)

FairSpec == Spec /\ Fairness

----------------------------------------------------------------------------
(* Properties                                                               *)

\* The session keeps the promises of TurnOwnership (codex-session.ts send(),
\* _writeTurn, _rejectInflight, _releaseKnownTurn): a caller is told once, and
\* nothing is dispatched while another turn's outcome is unknown, whatever order the
\* answers, terminals, timeouts, kills and exits come in.
Ownership == INSTANCE TurnOwnership
ImplementsOwnership == Ownership!Spec

\* Only what the session asked for runs on its thread.  Without it a turn/started of
\* another turn, read before the answer to turn/start, names the send in flight, and
\* that turn's terminal is recorded as the send's (codex-session.ts:1481).
Undisturbed == "other" \notin Faults

\* What the evidence of a turn says is what the app-server did
\* (_processLine, _observeRpcResult, _sendTurn): a recorded outcome is
\* that turn's own, a caller whose send resolved has an answered and ended turn, a
\* turn proved undispatched never ran, an acknowledged stop means that turn is over,
\* a steer whose write did not throw is called ignored only when the turn never took it, and
\* any is called steered only when it did (push(): "no answer leaves delivery unknown,
\* never ignored"), and no two turns of the session ever run together.
HonestEvidence ==
    /\ \A t \in Turns :
         /\ native[t] # "unknown" => runs[t] = native[t]
         /\ local[t] = "resolved" => native[t] # "unknown" /\ rpc[t] = "resolved"
         /\ disp[t] = "not-dispatched" => runs[t] = "none"
    /\ stop.st = "acknowledged" => runs[stop.of] \in {"completed", "failed"}
    /\ steer.st = "ignored" /\ ~steer.threw => ~taken
    /\ steer.st = "steered" => taken
    /\ \A t, u \in Turns : {runs[t], runs[u]} \subseteq {"asked", "running"} => t = u

\* The comment of codex-session.ts:933 without that exception: does not hold.  The catch
\* of push() takes a write or flush that threw for a refusal (934-935), though the
\* line may have been delivered.
NeverIgnoredUnanswered == steer.st = "ignored" => ~taken

\* Approval and tool evidence (_approval, ToolGates.decide, _classify): only
\* a request every gate allowed, and that nothing withdrew, is accepted; within one turn
\* a tool use has at most one result and no result comes without its use.
GatesAndTools ==
    /\ \A r \in Asks : ask[r] = "accepted" => said[r] = [k \in 1..Gates |-> "allow"] /\ Gates > 0
    /\ \A t \in Turns : tools[t].results <= tools[t].uses /\ tools[t].uses <= 1

\* Nothing is written for a caller who is gone: turn/start is never written for a send
\* that was rejected while its thread was still being prepared, and a gate's decision
\* that comes after its request was withdrawn, or after the session died, is
\* discarded (_sendTurn "must not cause a later model write", _approval).
InTime ==
    /\ \A t \in Turns : runs[t] = "none" /\ runs'[t] = "asked" => local[t] = "pending" /\ open.alive
    /\ \A r \in Asks : ask'[r] \in {"accepted", "declined"} /\ ask'[r] # ask[r]
         => ask[r] \in {"none", "deciding"} /\ open.alive
NothingLate == [][InTime]_vars

\* Every admitted send with a timeout is told something, whether the app-server
\* answers or not (_writeTurn, _rejectInflight, the exit handler).  A send with
\* onAdmission can be forgotten when the process exits meanwhile.
SendsSettle ==
    \A t \in Timed \ Registered : local[t] = "pending" ~> local[t] \in {"resolved", "rejected"}
=============================================================================
