----------------------------- MODULE MuseSession -----------------------------
(***************************************************************************)
(* One MuseSession (src/src/muse-session.ts): turns driven through the     *)
(* Muse SDK on one host that is never restarted.                           *)
(*                                                                         *)
(* The host also runs turns nobody here sent (`Own`).  A frame names only  *)
(* its turn, and our turn gets its name from the turn/start answer, so     *)
(* frames of unknown turns that arrive first are held until the answer;    *)
(* approvals and questions wait for it too.  The answer races the turn's   *)
(* end, the caller's timeout, interrupt(), kill() and the host's death.    *)
(*                                                                         *)
(* The host and the SDK's connection are external: runs[i] is what the     *)
(* host did, told[i] how much of it was read.                              *)
(***************************************************************************)
EXTENDS Naturals, Sequences, SequencesExt

CONSTANTS
    Turns,          \* the sends of one session
    NoTurn, Own,    \* no turn; a turn that Muse starts itself
    Registered,     \* the sends that carry onAdmission
    Timed,          \* the sends with a timeout
    Asks, Quizzes,  \* bound: approval requests, questions
    MaxCalls,       \* bound: asks, questions, steers and stops of one behaviour
    Askers,         \* bound: the turns that need approvals or ask questions
    Late,           \* bound: the turns with a frame after their terminal
    Calls,          \* bound: which of "push", "stop", "interrupt" the caller uses
    Sources,        \* how the session opens: "start", "resume", "fork"
    Persisted,      \* onSessionReady is configured
    Handled,        \* onUserInput is registered
    Faults          \* what may go wrong: "bad", "exit", "own"; "both": "exit" with "own"

Ids == Turns \cup {Own}

ASSUME MuseAssumption ==
    /\ NoTurn \notin Turns /\ Own \notin Turns /\ NoTurn # Own
    /\ Registered \subseteq Turns /\ Timed \subseteq Turns /\ MaxCalls \in Nat
    /\ Calls \subseteq {"push", "stop", "interrupt"}
    /\ Sources \subseteq {"start", "resume", "fork"} /\ Late \subseteq Ids /\ Askers \subseteq Ids
    /\ Persisted \in BOOLEAN /\ Handled \in BOOLEAN
    /\ Faults \subseteq {"bad", "exit", "own", "both"}

Maybe == Ids \cup {NoTurn}

VARIABLES
    local, disp, rpc, turnId,   \* TurnState: localOutcome, dispatch, rpcOutcome, identity
    phase,                      \* where send() and _sendTurn are suspended
    inflight, queue, timer,     \* _inflight, _queue, the turn _turnTimer is for
    open,                       \* _host, _alive, _startedOnce, _session, the id known, persisted
    view,                       \* nativeOutcome, _seenTerminals, _museTurns, _unknownTurns
    held,                       \* _held
    due, ended,                 \* _ackDue, _turnDone called
    ask, quiz,                  \* _approvals, _userInputs: [st, of: its turn, to: the admission it is given]
    steer, stop,                \* one push() call, one interruptNative() call
    \* the host and the connection to it
    server, link, runs, told, taken

attempt  == <<local, disp, rpc, turnId, phase>>
session  == <<inflight, queue, timer, open>>
record   == <<view, held, due, ended>>
requests == <<ask, quiz>>
calls    == <<steer, stop>>
runtime  == <<server, link, runs, told, taken>>
vars     == <<attempt, session, record, requests, calls, runtime>>

native == view.native

\* _open: the requests a send waits for before its turn is written.
Opening == {"forking", "resuming", "starting", "setting", "reading"}
Phases  == Opening \cup {"idle", "connecting", "hooks", "queued", "registering", "persisting",
                         "ready", "asked", "racing", "refused", "failed", "end"}
Waits   == {"none", "waiting", "deciding", "over"}

AttemptTyped ==
    /\ local \in [Turns -> {"none", "pending", "resolved", "rejected"}]
    /\ disp \in [Turns -> {"not-dispatched", "attempted"}]
    /\ rpc \in [Turns -> {"none", "pending", "resolved", "failed", "unknown"}]
    /\ turnId \in [Turns -> Maybe] /\ phase \in [Turns -> Phases]
SessionTyped ==
    /\ inflight \in Turns \cup {NoTurn} /\ queue \in Seq(Turns) /\ timer \in Turns \cup {NoTurn}
    /\ open \in [host : BOOLEAN, alive : BOOLEAN, once : BOOLEAN, session : BOOLEAN,
                 source : {"start", "resume", "fork"}, id : BOOLEAN, saved : BOOLEAN]
View ==
    [native : [Turns -> {"unknown", "completed", "failed"}], seen : SUBSET Ids, muse : SUBSET Ids,
     unknown : SUBSET Ids, credit : [Ids -> SUBSET {"own", "muse"}]]
Frame == [of : Ids, last : BOOLEAN]
RecordTyped == view \in View /\ held \in Seq(Frame) /\ due \in BOOLEAN /\ ended \in BOOLEAN
RequestsTyped ==
    /\ ask \in [Asks -> [st : Waits, of : Maybe, to : Turns \cup {NoTurn}]]
    /\ quiz \in [Quizzes -> [st : Waits, of : Maybe, to : Turns \cup {NoTurn}, put : 0..2]]
CallsTyped ==
    /\ steer \in [st : {"none", "asked", "steered", "ignored", "unknown"}, of : Maybe]
    /\ stop \in [st : {"none", "asked", "polling", "acknowledged", "unacknowledged"}, of : Maybe]
RuntimeTyped ==
    /\ server \in {"none", "up", "gone"} /\ link \in {"none", "open", "closed"}
    /\ runs \in [Ids -> {"none", "asked", "running", "completed", "failed"}]
    /\ told \in [Ids -> 0..3] /\ taken \in BOOLEAN

TypeOK ==
    AttemptTyped /\ SessionTyped /\ RecordTyped /\ RequestsTyped /\ CallsTyped /\ RuntimeTyped

Init ==
    /\ local = [t \in Turns |-> "none"] /\ disp = [t \in Turns |-> "not-dispatched"]
    /\ rpc = [t \in Turns |-> "none"] /\ turnId = [t \in Turns |-> NoTurn]
    /\ phase = [t \in Turns |-> "idle"]
    /\ inflight = NoTurn /\ queue = <<>> /\ timer = NoTurn
    /\ \E s \in Sources : open = [host |-> FALSE, alive |-> FALSE, once |-> FALSE, session |-> FALSE,
                                  source |-> s, id |-> s = "resume", saved |-> FALSE]
    /\ view = [native |-> [t \in Turns |-> "unknown"], seen |-> {}, muse |-> {}, unknown |-> {},
               credit |-> [i \in Ids |-> {}]]
    /\ held = <<>> /\ due = FALSE /\ ended = FALSE
    /\ ask = [r \in Asks |-> [st |-> "none", of |-> NoTurn, to |-> NoTurn]]
    /\ quiz = [q \in Quizzes |-> [st |-> "none", of |-> NoTurn, to |-> NoTurn, put |-> 0]]
    /\ steer = [st |-> "none", of |-> NoTurn] /\ stop = [st |-> "none", of |-> NoTurn]
    /\ server = "none" /\ link = "none" /\ taken = FALSE
    /\ runs = [i \in Ids |-> "none"] /\ told = [i \in Ids |-> 0]

----------------------------------------------------------------------------
(* Helpers that bear the methods' names                                     *)

\* Bound: interrupts, questions, steers and stops are in no behaviour with a turn
\* that Muse starts itself.
Alone == runs[Own] = "none"

Unresolved(t) == disp[t] = "attempted" /\ native[t] = "unknown"

\* The caller of each turn in `ts` who still waits is told of a failure.
Told(ts) == [t \in Turns |-> IF t \in ts /\ local[t] = "pending" THEN "rejected" ELSE local[t]]

\* _rejectInflight: its timer is cleared, its caller and the queue's are told.
RejectInflightOnly ==
    IF inflight = NoTurn
    THEN UNCHANGED <<local, queue, timer>>
    ELSE local' = Told({inflight}) /\ timer' = NoTurn /\ UNCHANGED queue
RejectInflight ==
    IF inflight = NoTurn
    THEN UNCHANGED <<local, queue, timer>>
    ELSE local' = Told({inflight} \cup ToSet(queue)) /\ queue' = <<>> /\ timer' = NoTurn

\* ... followed by _rejectQueue.
RejectAll ==
    /\ local' = Told({inflight} \cup ToSet(queue)) /\ queue' = <<>>
    /\ timer' = IF inflight = NoTurn THEN timer ELSE NoTurn

\* _withdrawRequests: an aborted approval is answered with a refusal, an
\* aborted question not at all.
Over(req) == [req EXCEPT !.st = "over", !.of = NoTurn, !.to = NoTurn]
Withdrawn(reqs) == [r \in DOMAIN reqs |-> IF reqs[r].st \in {"waiting", "deciding"} THEN Over(reqs[r]) ELSE reqs[r]]
WithdrawRequests == ask' = Withdrawn(ask) /\ quiz' = Withdrawn(quiz)

\* The name the in-flight turn has.
Named == IF inflight = NoTurn THEN NoTurn ELSE turnId[inflight]

\* The admission that a request of turn i belongs to, `cur` being the name the
\* in-flight turn has.
AdmissionOf(i, cur) == IF cur = i THEN inflight ELSE NoTurn

\* _releaseAck: what waited on the turn/start answer goes on, a question to its
\* handler if there is one.
PutCount(q) == IF Handled THEN quiz[q].put + 1 ELSE quiz[q].put
ReleaseAck(cur) ==
    /\ due' = FALSE
    /\ ask' = [r \in Asks |-> IF ask[r].st # "waiting" THEN ask[r]
                              ELSE [ask[r] EXCEPT !.st = "deciding", !.to = AdmissionOf(ask[r].of, cur)]]
    /\ quiz' = [q \in Quizzes |-> IF quiz[q].st # "waiting" THEN quiz[q]
                                  ELSE [quiz[q] EXCEPT !.st = "deciding", !.put = PutCount(q),
                                                       !.to = AdmissionOf(quiz[q].of, cur)]]

\* _turnDone: the wait for a terminal ends without one.
TurnDone == ended' = (ended \/ \E t \in Turns : phase[t] \in {"asked", "racing"})

\* _dispatchTurn, and _writeTurn when there is no onAdmission.
OpenPhase ==
    IF open.session THEN "ready"
    ELSE CASE open.source = "resume" -> "resuming"
           [] open.source = "fork" -> "forking"
           [] OTHER -> "starting"
DispatchPhase(t) == IF t \in Registered THEN "registering" ELSE OpenPhase
WriteTurn(t, tm) == disp' = [disp EXCEPT ![t] = "attempted"] /\ timer' = IF t \in Timed THEN t ELSE tm
DispatchTurn(t, tm) ==
    /\ inflight' = t
    /\ IF t \in Registered THEN timer' = tm /\ UNCHANGED disp ELSE WriteTurn(t, tm)

\* _processNextTurn, after the turn `done` left.
ProcessNextTurn(done, tm) ==
    IF queue # <<>> /\ open.alive
    THEN /\ DispatchTurn(Head(queue), tm) /\ queue' = Tail(queue)
         /\ phase' = [phase EXCEPT ![done] = "end", ![Head(queue)] = DispatchPhase(Head(queue))]
    ELSE /\ inflight' = NoTurn /\ phase' = [phase EXCEPT ![done] = "end"]
         /\ timer' = tm /\ UNCHANGED <<queue, disp>>

\* _releaseKnownTurn: a refused turn/start admitted nothing; any other turn
\* leaves when its answer and its terminal are known.
CanRelease(r, n) == r = "failed" \/ (r = "resolved" /\ n # "unknown")

----------------------------------------------------------------------------
(* Frames (_classify, _museTurn, _terminal, _flushHeld)                     *)

\* The frame is of the in-flight turn `cur`, of a turn Muse runs itself, or of
\* one that may be ours; after its terminal a turn is never taken up again.
Classified(v, f, cur) ==
    IF f.of \in v.seen \cup v.unknown THEN v
    ELSE IF f.of = cur
    THEN IF f.last
         THEN [v EXCEPT !.native[cur] = runs[cur], !.seen = @ \cup {cur}, !.credit[cur] = @ \cup {"own"}]
         ELSE [v EXCEPT !.credit[cur] = @ \cup {"own"}]
    ELSE [v EXCEPT !.muse = IF f.last THEN @ \ {f.of} ELSE @ \cup {f.of},
                   !.seen = IF f.last THEN @ \cup {f.of} ELSE @,
                   !.credit[f.of] = @ \cup {"muse"}]

\* _flushHeld: `cur` is the name the in-flight turn has now, `r` its answer.
\* With the answer lost, the turns held for it may be ours and are not claimed.
MaybeOurs(cur, r) ==
    IF r = "unknown" /\ cur = NoTurn
    THEN {held[k].of : k \in DOMAIN held} \ view.muse ELSE {}
Flushed(cur, r) ==
    FoldLeft(LAMBDA v, f : Classified(v, f, cur),
             [view EXCEPT !.unknown = @ \cup MaybeOurs(cur, r)], held)
FlushHeldKeeps(cur, r) ==
    /\ held' = <<>> /\ due' = FALSE /\ UNCHANGED requests
    /\ view' = Flushed(cur, r)
FlushHeld(cur, r) == held' = <<>> /\ ReleaseAck(cur) /\ view' = Flushed(cur, r)

\* A frame for a turn not yet known, while our turn/start answer is due.
HoldNever(i) == FALSE
Hold(i) == /\ inflight # NoTurn /\ disp[inflight] = "attempted" /\ rpc[inflight] = "pending"
           /\ turnId[inflight] = NoTurn /\ i \notin view.muse \cup view.seen

Observe(i, last) ==
    IF Hold(i)
    THEN held' = Append(held, [of |-> i, last |-> last]) /\ UNCHANGED view
    ELSE /\ view' = Classified(view, [of |-> i, last |-> last], Named)
         /\ UNCHANGED held

\* _tap reads what the connection delivers until it is closed, after kill() too.
Reads == link = "open" /\ open.id

\* A frame of the running turn (told 0), its terminal (1), one after it (2).
ReadFrame(i) ==
    /\ Reads /\ told[i] = 0 /\ runs[i] \notin {"none", "asked"}
    /\ told' = [told EXCEPT ![i] = 1] /\ Observe(i, FALSE)
    /\ UNCHANGED <<attempt, session, due, ended, requests, calls, server, link, runs, taken>>

ReadTerminal(i) ==
    /\ Reads /\ told[i] = 1 /\ runs[i] \in {"completed", "failed"}
    /\ told' = [told EXCEPT ![i] = 2] /\ Observe(i, TRUE)
    /\ UNCHANGED <<attempt, session, due, ended, requests, calls, server, link, runs, taken>>

ReadAfter(i) ==
    /\ Reads /\ i \in Late /\ told[i] = 2
    /\ told' = [told EXCEPT ![i] = 3] /\ Observe(i, FALSE)
    /\ UNCHANGED <<attempt, session, due, ended, requests, calls, server, link, runs, taken>>

----------------------------------------------------------------------------
(* The caller                                                               *)

\* _launch awaits connect(); nothing is set until it returns.
Launch == open' = [open EXCEPT !.once = TRUE]

Start ==
    /\ ~open.once
    /\ Launch
    /\ UNCHANGED <<attempt, inflight, queue, timer, record, requests, calls, runtime>>

Connected ==
    /\ open.once /\ server = "none"
    /\ open' = [open EXCEPT !.host = TRUE, !.alive = TRUE]
    /\ server' = "up" /\ link' = "open"
    /\ UNCHANGED <<attempt, inflight, queue, timer, record, requests, calls, runs, told, taken>>

\* No host, or one of another version: closed again.
ConnectFails ==
    /\ "bad" \in Faults /\ open.once /\ server = "none"
    /\ server' = "gone" /\ link' = "closed"
    /\ UNCHANGED <<attempt, session, record, requests, calls, runs, told, taken>>

\* send(): refused while native work is unresolved and nobody waits for it, or
\* the session is over or still connecting.
Blocked == \E t \in Turns : Unresolved(t) /\ (~open.alive \/ local[t] # "pending")

SendRefused(t) ==
    /\ phase[t] = "idle"
    /\ \/ Blocked
       \/ ~open.host /\ (open.source = "start" \/ open.once)
       \/ open.host /\ ~open.alive
    /\ local' = [local EXCEPT ![t] = "rejected"] /\ phase' = [phase EXCEPT ![t] = "end"]
    /\ UNCHANGED <<disp, rpc, turnId, session, record, requests, calls, runtime>>

\* A send that resumes or forks launches the host and awaits it.
SendStarts(t) ==
    /\ phase[t] = "idle" /\ ~Blocked /\ ~open.once /\ open.source # "start"
    /\ Launch /\ phase' = [phase EXCEPT ![t] = "connecting"]
    /\ UNCHANGED <<local, disp, rpc, turnId, inflight, queue, timer, record, requests, calls, runtime>>

SendEnters(t) ==
    /\ phase[t] = "idle" /\ ~Blocked /\ open.host /\ open.alive
    /\ phase' = [phase EXCEPT ![t] = "hooks"]
    /\ UNCHANGED <<local, disp, rpc, turnId, session, record, requests, calls, runtime>>

\* start() returned to the send that awaited it, or threw.
SendStarted(t) ==
    /\ phase[t] = "connecting" /\ server # "none"
    /\ IF open.host /\ open.alive
       THEN phase' = [phase EXCEPT ![t] = "hooks"] /\ UNCHANGED local
       ELSE phase' = [phase EXCEPT ![t] = "end"] /\ local' = [local EXCEPT ![t] = "rejected"]
    /\ UNCHANGED <<disp, rpc, turnId, session, record, requests, calls, runtime>>

\* The rest of send(), in one step after the hooks.
SendAdmits(t) ==
    /\ phase[t] = "hooks"
    /\ IF ~open.alive \/ (inflight # NoTurn /\ local[inflight] # "pending")
       THEN /\ local' = [local EXCEPT ![t] = "rejected"] /\ phase' = [phase EXCEPT ![t] = "end"]
            /\ UNCHANGED <<inflight, queue, timer, disp>>
       ELSE /\ local' = [local EXCEPT ![t] = "pending"]
            /\ IF inflight = NoTurn
               THEN /\ DispatchTurn(t, timer) /\ phase' = [phase EXCEPT ![t] = DispatchPhase(t)]
                    /\ UNCHANGED queue
               ELSE /\ queue' = Append(queue, t) /\ phase' = [phase EXCEPT ![t] = "queued"]
                    /\ UNCHANGED <<inflight, timer, disp>>
    /\ UNCHANGED <<rpc, turnId, open, record, requests, calls, runtime>>

\* onAdmission returned, or threw.
RegistrationDoneAlways(t) ==
    /\ phase[t] = "registering"
    /\ IF open.alive
       THEN /\ WriteTurn(t, timer) /\ phase' = [phase EXCEPT ![t] = OpenPhase]
            /\ UNCHANGED <<inflight, queue>>
       ELSE ProcessNextTurn(t, timer)
    /\ UNCHANGED <<local, rpc, turnId, open, record, requests, calls, runtime>>
RegistrationDone(t) ==
    /\ phase[t] = "registering"
    /\ IF open.alive /\ local[t] = "pending"
       THEN /\ WriteTurn(t, timer) /\ phase' = [phase EXCEPT ![t] = OpenPhase]
            /\ UNCHANGED <<inflight, queue>>
       ELSE ProcessNextTurn(t, timer)
    /\ UNCHANGED <<local, rpc, turnId, open, record, requests, calls, runtime>>

RegistrationFails(t) ==
    /\ phase[t] = "registering"
    /\ local' = Told({t}) /\ ProcessNextTurn(t, timer)
    /\ UNCHANGED <<rpc, turnId, open, record, requests, calls, runtime>>

Interrupt ==
    /\ "interrupt" \in Calls /\ inflight # NoTurn /\ local[inflight] = "pending" /\ Alone
    /\ RejectInflight
    /\ UNCHANGED <<disp, rpc, turnId, phase, inflight, open, record, requests, calls, runtime>>

TimerFires ==
    /\ timer # NoTurn
    /\ RejectInflight /\ ReleaseAck(turnId[timer])
    /\ UNCHANGED <<disp, rpc, turnId, phase, inflight, open, view, held, ended, calls, runtime>>

\* The answer to come no longer counts, and the held frames are recorded now.
Kill ==
    /\ open.host
    /\ open' = [open EXCEPT !.host = FALSE, !.alive = FALSE, !.session = FALSE]
    /\ RejectAll /\ TurnDone
    /\ LET pending == inflight # NoTurn /\ rpc[inflight] = "pending"
       IN /\ rpc' = IF pending THEN [rpc EXCEPT ![inflight] = "unknown"] ELSE rpc
          /\ view' = Flushed(Named, IF inflight = NoTurn THEN "none" ELSE rpc'[inflight])
    /\ held' = <<>> /\ due' = FALSE /\ WithdrawRequests
    /\ UNCHANGED <<disp, turnId, phase, inflight, calls, runtime>>

----------------------------------------------------------------------------
(* _open and _sendTurn, from one await to the next                          *)

\* The request t waits at is answered as it should be.  A session that was
\* resumed or forked has its approval mode set before it is read back.
OpenAnswered(t) ==
    /\ phase[t] \in Opening /\ link = "open"
    /\ phase' = [phase EXCEPT ![t] = CASE phase[t] = "forking" -> "resuming"
                                       [] phase[t] = "resuming" -> "setting"
                                       [] phase[t] \in {"setting", "starting"} -> "reading"
                                       [] OTHER -> IF Persisted THEN "persisting" ELSE "ready"]
    /\ open' = CASE phase[t] = "forking" -> [open EXCEPT !.id = TRUE]
                 [] phase[t] = "reading" -> [open EXCEPT !.session = TRUE, !.id = TRUE, !.source = "resume",
                                                         !.saved = ~Persisted]
                 [] OTHER -> open
    /\ UNCHANGED <<local, disp, rpc, turnId, inflight, queue, timer, record, requests, calls, runtime>>

\* Refused, missing, not as configured, or never answered.
OpenFails(t) ==
    /\ phase[t] \in Opening
    /\ "bad" \in Faults \/ link = "closed" \/ ~open.host
    /\ phase' = [phase EXCEPT ![t] = "refused"]
    /\ UNCHANGED <<local, disp, rpc, turnId, session, record, requests, calls, runtime>>

\* onSessionReady returned, or threw.
BindingPersisted(t) ==
    /\ phase[t] = "persisting" /\ phase' = [phase EXCEPT ![t] = "ready"]
    /\ open' = [open EXCEPT !.saved = TRUE]
    /\ UNCHANGED <<local, disp, rpc, turnId, inflight, queue, timer, record, requests, calls, runtime>>

BindingFails(t) ==
    /\ phase[t] = "persisting" /\ "bad" \in Faults
    /\ phase' = [phase EXCEPT ![t] = "refused"]
    /\ UNCHANGED <<local, disp, rpc, turnId, session, record, requests, calls, runtime>>

\* turn/start is written, unless the admission closed during the open.
StartTurn(t) ==
    /\ phase[t] = "ready"
    /\ IF local[t] = "pending" /\ open.alive
       THEN /\ phase' = [phase EXCEPT ![t] = "asked"]
            /\ rpc' = [rpc EXCEPT ![t] = "pending"] /\ runs' = [runs EXCEPT ![t] = "asked"]
            /\ due' = TRUE /\ ended' = FALSE
       ELSE /\ phase' = [phase EXCEPT ![t] = "refused"]
            /\ UNCHANGED <<rpc, runs, due, ended>>
    /\ UNCHANGED <<local, disp, turnId, session, view, held, requests, calls, server, link, told, taken>>

\* The answer names the turn; the held frames are classified with the name.
TurnAccepted(t) ==
    /\ phase[t] = "asked" /\ link = "open" /\ runs[t] \notin {"none", "asked"}
    /\ phase' = [phase EXCEPT ![t] = "racing"]
    /\ rpc' = [rpc EXCEPT ![t] = "resolved"] /\ turnId' = [turnId EXCEPT ![t] = t]
    /\ FlushHeld(t, "resolved")
    /\ UNCHANGED <<local, disp, session, ended, calls, runtime>>

\* An MspError: the turn does not run.
TurnRefused(t) ==
    /\ phase[t] = "asked" /\ link = "open" /\ "bad" \in Faults /\ runs[t] = "asked"
    /\ phase' = [phase EXCEPT ![t] = "failed"]
    /\ rpc' = [rpc EXCEPT ![t] = "failed"] /\ runs' = [runs EXCEPT ![t] = "none"]
    /\ FlushHeld(NoTurn, "failed")
    /\ UNCHANGED <<local, disp, turnId, session, ended, calls, server, link, told, taken>>

\* Any other error, on a connection that ended or goes on: the answer is lost, the
\* turn may run.
AnswerLost(t) ==
    /\ phase[t] = "asked" /\ (link = "closed" \/ "bad" \in Faults)
    /\ phase' = [phase EXCEPT ![t] = "failed"]
    /\ rpc' = [rpc EXCEPT ![t] = "unknown"]
    /\ FlushHeld(NoTurn, "unknown")
    /\ UNCHANGED <<local, disp, turnId, session, ended, calls, runtime>>

\* The SDK saw the turn's terminal; what no frame recorded is recorded here.
TurnResolves(t) ==
    /\ phase[t] = "racing" /\ told[t] >= 2
    /\ view' = IF native[t] # "unknown" THEN view
               ELSE [view EXCEPT !.native[t] = runs[t], !.seen = @ \cup {t}]
    /\ local' = [local EXCEPT ![t] = IF @ = "pending" THEN "resolved" ELSE @]
    /\ IF CanRelease(rpc[t], native'[t])
       THEN ProcessNextTurn(t, NoTurn)
       ELSE phase' = [phase EXCEPT ![t] = "end"] /\ timer' = NoTurn /\ UNCHANGED <<inflight, queue, disp>>
    /\ UNCHANGED <<rpc, turnId, open, held, due, ended, requests, calls, runtime>>

\* The host ended first (_turnDone, or the SDK's own terminalUnknown).
TurnEnds(t) ==
    /\ phase[t] = "racing" /\ (ended \/ link = "closed")
    /\ phase' = [phase EXCEPT ![t] = "failed"]
    /\ UNCHANGED <<local, disp, rpc, turnId, session, record, requests, calls, runtime>>

\* _sendTurn throws.  Before turn/start nothing was sent, and the turn is
\* released as such; after it, only when its outcome is known.
TurnFails(t) ==
    /\ phase[t] \in {"refused", "failed"}
    /\ disp' = [disp EXCEPT ![t] = IF phase[t] = "refused" THEN "not-dispatched" ELSE @]
    /\ RejectInflight
    /\ inflight' = IF phase[t] = "refused" \/ CanRelease(rpc[t], native[t]) THEN NoTurn ELSE t
    /\ phase' = [phase EXCEPT ![t] = "end"]
    /\ UNCHANGED <<rpc, turnId, open, record, requests, calls, runtime>>

----------------------------------------------------------------------------
(* Approvals and questions                                                  *)

\* How many of the asks, questions, steers and stops a behaviour has used.
Spent == (IF steer.st # "none" THEN 1 ELSE 0) + (IF stop.st # "none" THEN 1 ELSE 0)
         + (IF \E r \in Asks : ask[r].st # "none" THEN 1 ELSE 0)
         + (IF \E q \in Quizzes : quiz[q].st # "none" THEN 1 ELSE 0)

\* A running turn needs an approval (_approval).
RuntimeAsks(r) ==
    /\ ask[r].st = "none" /\ Reads /\ Spent < MaxCalls
    /\ \E i \in Askers :
         /\ runs[i] = "running"
         /\ ask' = [ask EXCEPT ![r] = IF due THEN [st |-> "waiting", of |-> i, to |-> NoTurn]
                                     ELSE [st |-> "deciding", of |-> i, to |-> AdmissionOf(i, Named)]]
    /\ UNCHANGED <<attempt, session, record, quiz, calls, runtime>>

\* The gates decided, or approval/resolved says it was settled elsewhere.
AskEnds(r) ==
    /\ \/ ask[r].st = "deciding"
       \/ Reads /\ ask[r].st = "waiting"
    /\ ask' = [ask EXCEPT ![r] = Over(@)]
    /\ UNCHANGED <<attempt, session, record, quiz, calls, runtime>>

\* A question comes as a request and as a notification of the same id, and is
\* taken once (_question).
Question(q) ==
    /\ quiz[q].st = "none" /\ Reads /\ Spent < MaxCalls /\ Alone
    /\ \E i \in Askers :
         /\ runs[i] = "running"
         /\ quiz' = [quiz EXCEPT ![q] = IF due THEN [@ EXCEPT !.st = "waiting", !.of = i]
                                       ELSE [@ EXCEPT !.st = "deciding", !.of = i, !.put = PutCount(q),
                                                      !.to = AdmissionOf(i, Named)]]
    /\ UNCHANGED <<attempt, session, record, ask, calls, runtime>>

\* The handler answered, declined, threw or is absent, or userInput/settled
\* came first.  With the session dead nothing is written.
QuestionEnds(q) ==
    /\ \/ quiz[q].st = "deciding"
       \/ Reads /\ quiz[q].st = "waiting"
    /\ quiz' = [quiz EXCEPT ![q] = Over(@)]
    /\ UNCHANGED <<attempt, session, record, ask, calls, runtime>>

----------------------------------------------------------------------------
(* push() and interruptNative()                                             *)

\* Both need an owned turn that is named and has no terminal; without one they return
\* at once ("ignored", 'no-turn').
Steerable == inflight # NoTurn /\ disp[inflight] = "attempted" /\ native[inflight] = "unknown"
             /\ turnId[inflight] # NoTurn /\ open.host

Push ==
    /\ "push" \in Calls /\ steer.st = "none" /\ Spent < MaxCalls /\ Alone
    /\ Steerable /\ steer' = [st |-> "asked", of |-> turnId[inflight]]
    /\ UNCHANGED <<attempt, session, record, requests, stop, runtime>>

RuntimeTakes ==
    /\ steer.st \in {"asked", "unknown"} /\ server = "up" /\ link = "open" /\ ~taken
    /\ steer.of # NoTurn /\ runs[steer.of] = "running"
    /\ taken' = TRUE
    /\ UNCHANGED <<attempt, session, record, requests, calls, server, link, runs, told>>

\* An MspError is the runtime's answer: the turn was over.
SteerAnswered ==
    /\ steer.st = "asked" /\ link = "open"
    /\ taken \/ runs[steer.of] # "running"
    /\ steer' = [steer EXCEPT !.st = IF taken THEN "steered" ELSE "ignored"]
    /\ UNCHANGED <<attempt, session, record, requests, stop, runtime>>

\* No answer leaves the delivery unknown.
SteerTimesOutIgnored ==
    /\ steer.st = "asked" /\ steer' = [steer EXCEPT !.st = "ignored"]
    /\ UNCHANGED <<attempt, session, record, requests, stop, runtime>>
SteerTimesOut ==
    /\ steer.st = "asked" /\ steer' = [steer EXCEPT !.st = "unknown"]
    /\ UNCHANGED <<attempt, session, record, requests, stop, runtime>>

InterruptNative ==
    /\ "stop" \in Calls /\ stop.st = "none" /\ Spent < MaxCalls /\ Alone
    /\ Steerable /\ stop' = [st |-> "asked", of |-> inflight]
    /\ UNCHANGED <<attempt, session, record, requests, steer, runtime>>

StopAnswered ==
    /\ stop.st = "asked" /\ link = "open"
    /\ stop' = [stop EXCEPT !.st = IF runs[stop.of] = "running" THEN "polling" ELSE "unacknowledged"]
    /\ UNCHANGED <<attempt, session, record, requests, steer, runtime>>

StopTimesOut ==
    /\ stop.st = "asked" /\ stop' = [stop EXCEPT !.st = "unacknowledged"]
    /\ UNCHANGED <<attempt, session, record, requests, steer, runtime>>

\* The poll ends: by the terminal, the deadline or the session's end.
StopReturns ==
    /\ stop.st = "polling"
    /\ stop' = [stop EXCEPT !.st = IF native[stop.of] # "unknown" THEN "acknowledged" ELSE "unacknowledged"]
    /\ UNCHANGED <<attempt, session, record, requests, steer, runtime>>

----------------------------------------------------------------------------
(* The host                                                                 *)

\* The exited handler, if this is still the live host.
HostDied ==
    /\ server = "gone" /\ open.host /\ open.alive
    /\ open' = [open EXCEPT !.alive = FALSE]
    /\ RejectAll /\ WithdrawRequests /\ TurnDone
    /\ UNCHANGED <<disp, rpc, turnId, phase, inflight, view, held, due, calls, runtime>>

\* The connection ends with the host, or after close().
LinkCloses ==
    /\ link = "open" /\ (server = "gone" \/ ~open.host)
    /\ link' = "closed"
    /\ UNCHANGED <<attempt, session, record, requests, calls, server, runs, told, taken>>

\* Bound: Muse starts its own turn while a send of Late that is ready or asked waits,
\* and what the host does when nobody can read it any more is left out.
RuntimeStarts(i) ==
    /\ server = "up" /\ link = "open"
    /\ \/ runs[i] = "asked"
       \/ /\ i = Own /\ "own" \in Faults /\ Alone /\ open.id
          /\ steer.st = "none" /\ stop.st = "none" /\ \A q \in Quizzes : quiz[q].st = "none"
          /\ \E t \in Late \cap Turns : phase[t] \in {"ready", "asked"} /\ local[t] = "pending"
    /\ runs' = [runs EXCEPT ![i] = "running"]
    /\ UNCHANGED <<attempt, session, record, requests, calls, server, link, told, taken>>

\* Bound: "failed" is a turn that never ran (turn/unqueued).
RuntimeEnds(i, how) ==
    /\ server = "up" /\ link = "open"
    /\ runs[i] = IF how = "failed" THEN "asked" ELSE "running"
    /\ runs' = [runs EXCEPT ![i] = how]
    /\ UNCHANGED <<attempt, session, record, requests, calls, server, link, told, taken>>

HostExits ==
    /\ server = "up" /\ (~open.host \/ ("exit" \in Faults /\ (Alone \/ "both" \in Faults)))
    /\ server' = "gone"
    /\ UNCHANGED <<attempt, session, record, requests, calls, link, runs, told, taken>>

----------------------------------------------------------------------------
Handlers ==
    \/ Connected \/ ConnectFails \/ TimerFires
    \/ \E t \in Turns : \/ SendStarted(t) \/ SendAdmits(t) \/ RegistrationDone(t) \/ RegistrationFails(t)
                        \/ OpenAnswered(t) \/ OpenFails(t) \/ BindingPersisted(t) \/ BindingFails(t)
                        \/ StartTurn(t) \/ TurnAccepted(t) \/ TurnRefused(t) \/ AnswerLost(t)
                        \/ TurnResolves(t) \/ TurnEnds(t) \/ TurnFails(t)
    \/ \E i \in Ids : ReadFrame(i) \/ ReadTerminal(i) \/ ReadAfter(i)
    \/ \E r \in Asks : AskEnds(r)
    \/ \E q \in Quizzes : QuestionEnds(q)
    \/ SteerAnswered \/ SteerTimesOut \/ StopAnswered \/ StopTimesOut \/ StopReturns
    \/ HostDied \/ LinkCloses

Callers ==
    \/ Start \/ Interrupt \/ Kill \/ Push \/ InterruptNative
    \/ \E t \in Turns : SendRefused(t) \/ SendStarts(t) \/ SendEnters(t)

Runtime ==
    \/ \E i \in Ids : RuntimeStarts(i) \/ \E how \in {"completed", "failed"} : RuntimeEnds(i, how)
    \/ \E r \in Asks : RuntimeAsks(r)
    \/ \E q \in Quizzes : Question(q)
    \/ RuntimeTakes \/ HostExits

Next == Handlers \/ Callers \/ Runtime

Spec == Init /\ [][Next]_vars

\* What is ready to run runs, timers that were set fire, a host's exit is seen and
\* the SDK rejects what was pending on it; nothing else is assumed of the host, the
\* gates or the caller, but that a registration returns.
Fairness ==
    /\ \A t \in Turns : WF_vars(SendStarted(t) \/ SendAdmits(t) \/ RegistrationDone(t)
                                \/ StartTurn(t) \/ TurnResolves(t) \/ TurnFails(t)
                                \/ (link = "closed" /\ AnswerLost(t)))
    /\ WF_vars(TimerFires) /\ WF_vars(HostDied) /\ WF_vars(LinkCloses)

FairSpec == Spec /\ Fairness

----------------------------------------------------------------------------
(* Properties                                                               *)

\* The session keeps the promises of TurnOwnership (muse-session.ts send(),
\* _writeTurn, _rejectInflight, _releaseKnownTurn): a caller is told once, nothing is
\* written for a caller who is gone, and nothing is written while another turn's outcome
\* is unknown, whatever order the answer, the frames, timeouts, kills and deaths come in.
\* A refused turn/start counts as one that was never sent.
Sent == [t \in Turns |-> IF rpc[t] = "failed" THEN "not-dispatched" ELSE disp[t]]
Ownership == INSTANCE TurnOwnership WITH disp <- Sent
ImplementsOwnership == Ownership!Spec

\* What the evidence says is what the host did (_sendTurn, _terminal, push(),
\* interruptNative()): a recorded outcome is that turn's own, a caller whose send
\* resolved has an ended turn, a turn proved unsent never ran, an acknowledged stop means
\* that turn is over, a steer is called ignored only when it was not taken, and no two
\* sends of the session ever run together.
HonestEvidence ==
    /\ \A t \in Turns :
         /\ native[t] # "unknown" => runs[t] = native[t]
         /\ local[t] = "resolved" => native[t] # "unknown" /\ rpc[t] = "resolved"
         /\ disp[t] = "not-dispatched" => runs[t] = "none"
    /\ stop.st = "acknowledged" => runs[stop.of] \in {"completed", "failed"}
    /\ steer.st = "ignored" => ~taken
    /\ steer.st = "steered" => taken
    /\ \A t, u \in Turns : {runs[t], runs[u]} \subseteq {"asked", "running"} => t = u

\* Nobody can say any more whether turn t is ours: the answer that names it was lost, or
\* kill() gave it up.
GivenUp(t) == rpc[t] = "unknown" \/
              (rpc[t] \in {"resolved", "failed"} /\ ~open.host /\ local[t] = "rejected")

\* Work is credited to the one who asked for it, although frames carry no more
\* than a turn's name and may come before the answer that says whose it is (_classify,
\* _flushHeld, _approval, _question): a turn Muse ran itself never becomes evidence of a
\* send; a send's turn is never shown as Muse's own unless it was given up, and not even
\* then if its first frames were held for the answer; a turn that ended is not shown as
\* running; a request is given to the admission whose turn made it; and a question is put to
\* the handler once although it arrives both as a request and as a notification.
CreditedRight ==
    /\ "own" \notin view.credit[Own] /\ Own \notin view.muse \cap view.seen
    /\ \A t \in Turns : ~GivenUp(t) => "muse" \notin view.credit[t] /\ t \notin view.muse
    /\ \A t \in Turns \cap view.unknown : "muse" \notin view.credit[t]
    /\ \A r \in Asks : ask[r].to # NoTurn => ask[r].to = ask[r].of
    /\ \A q \in Quizzes : (quiz[q].to # NoTurn => quiz[q].to = quiz[q].of) /\ quiz[q].put <= 1

\* Every admitted send with a timeout is told something, whatever the host does
\* (_writeTurn, _rejectInflight, _hostDied).
SendsSettle ==
    \A t \in Timed : local[t] = "pending" ~> local[t] \in {"resolved", "rejected"}

Waiting == (\E r \in Asks : ask[r].st = "waiting") \/ (\E q \in Quizzes : quiz[q].st = "waiting")

\* An approval or a question that waits on the turn/start answer goes on when the
\* answer came, was refused or is lost, and when the host dies or is killed (_flushHeld,
\* _releaseAck, _hostDied, kill()): it waits for ever only while the answer is still due
\* and the caller was told already, which interrupt() can bring about.
WaitsEnd == Waiting ~> ~Waiting \/ \E t \in Turns : rpc[t] = "pending" /\ local[t] = "rejected"

\* "Possibly ours, so never claimed as Muse's" (muse-session.ts:289), of every turn whose
\* answer was lost.  It does not hold: only the turns whose frames were held by then are kept from
\* _museTurn; one whose first frame comes later is shown as Muse's own.
NeverMuses == \A t \in Turns : "muse" \notin view.credit[t]

\* "Persist the actual session id before the first turn is written; a failure blocks
\* work" (muse-session.ts onSessionReady).  It does not
\* hold: README, "Where code and comments disagree".
PersistedFirst == \A t \in Turns : runs[t] # "none" => open.saved
=============================================================================
