----------------------------- MODULE ClaudeSteer -----------------------------
(***************************************************************************)
(* Steering a running turn (src/src/claude-code-session.ts: push(),        *)
(* _releaseHeld, _withdrawSteers, interruptNative, and what _processLine   *)
(* does with results and command_lifecycle lines).                         *)
(*                                                                         *)
(* A steer is a message written into the owned turn.  The CLI takes it in  *)
(* during the run, or runs it right after the turn's result as a follow-on *)
(* run with a result of its own.  The session keeps the turn open (held)   *)
(* until every steer it may still answer has been.  A stop withdraws the   *)
(* steers first, and a failed result withdraws them too.                   *)
(*                                                                         *)
(* One live process; restarts and rejections are in ClaudeSession.  The    *)
(* CLI is external, modelled from the recordings of fixtures/claude-steer. *)
(***************************************************************************)
EXTENDS Naturals, Sequences, SequencesExt

CONSTANTS
    Turns, Steers, None,
    Events          \* bound: the sets of "stop", "fails", "slow" explored together

ASSUME SteerAssumption ==
    /\ Turns \cap Steers = {} /\ None \notin Turns \cup Steers
    /\ Events \subseteq SUBSET {"stop", "fails", "slow"}

VARIABLES
    inflight, queue, native,
    held,           \* [Turns -> BOOLEAN]: turn.held is set
    steer,          \* [Steers -> SteerState]: its entry in turn.steers
    of,             \* the turn each steer was pushed into
    push,           \* each push() call
    cancels,        \* cancel_async_message requests without an answer yet
    stop,           \* the one interruptNative() call
    stopped,        \* the turn it is for
    \* the CLI
    stdin, waiting, later, run, pipe,
    \* history
    credited,       \* the turns whose results were recorded in each turn
    hit,            \* the turns whose run an interrupt ended
    asked,          \* the steers the stop asked the CLI to withdraw
    events          \* the one of Events that may happen

session == <<inflight, queue, native, held, steer, of, push, cancels, stop, stopped>>
cli     == <<stdin, waiting, later, run, pipe>>
history == <<credited, hit, asked>>
vars    == <<session, cli, history, events>>

SteerState == {"none", "written", "queued", "started", "completed",
               "cancelled", "unconfirmed"}
Requests == {"stop", "failed"} \X Steers
Lines == [kind : {"lifecycle"}, id : Steers, what : SteerState]
         \cup [kind : {"cancelled"}, id : Requests, what : BOOLEAN]
         \cup [kind : {"result"}, id : Turns \cup Steers, what : {"completed", "failed"}]
Messages == [op : {"turn", "steer", "cancel", "interrupt"},
             id : Turns \cup Steers \cup Requests \cup {None}]

TypeOK ==
    /\ inflight \in Turns \cup {None}
    /\ queue \in Seq(Turns) /\ ToSet(queue) \cap {inflight} = {}
    /\ native \in [Turns -> {"idle", "unknown", "completed", "failed"}]
    /\ held \in [Turns -> BOOLEAN]
    /\ steer \in [Steers -> SteerState]
    /\ of \in [Steers -> Turns \cup {None}]
    /\ push \in [Steers -> {"idle", "waiting", "steered", "ignored", "unknown"}]
    /\ cancels \subseteq Requests
    /\ stop \in {"idle", "withdrawing", "done"}
    /\ stopped \in Turns \cup {None}
    /\ stdin \in Seq(Messages) /\ pipe \in Seq(Lines)
    /\ waiting \in Seq(Steers) /\ later \in Seq(Turns)
    /\ run \in Turns \cup Steers \cup {None}
    /\ credited \in [Turns -> SUBSET Turns] /\ hit \subseteq Turns /\ asked \subseteq Steers
    /\ events \in Events

Init ==
    /\ inflight = None /\ queue = <<>>
    /\ native = [t \in Turns |-> "idle"]
    /\ held = [t \in Turns |-> FALSE]
    /\ steer = [s \in Steers |-> "none"]
    /\ of = [s \in Steers |-> None]
    /\ push = [s \in Steers |-> "idle"]
    /\ cancels = {} /\ stop = "idle" /\ stopped = None
    /\ stdin = <<>> /\ waiting = <<>> /\ later = <<>> /\ run = None /\ pipe = <<>>
    /\ credited = [t \in Turns |-> {}] /\ hit = {} /\ asked = {}
    /\ events \in Events

Owner(r) == IF r \in Turns THEN r ELSE of[r]

\* The steers of `t` the CLI has not started, or not named, in the states `st`.
WaitingNamed(t, st) == {s \in Steers : of[s] = t /\ st[s] = "queued"}
WaitingGone(t, st) == {s \in Steers : of[s] = t /\ st[s] \in {"written", "queued", "cancelled"}}
Waiting(t, st) == {s \in Steers : of[s] = t /\ st[s] \in {"written", "queued"}}
Started(t, st) == {s \in Steers : of[s] = t /\ st[s] = "started"}

Msg(op, id) == [op |-> op, id |-> id]
CancelMsgs(who, ss) == SetToSeq({Msg("cancel", <<who, s>>) : s \in ss})

\* The in-flight turn is over: the next queued one is written.
SettleAsSilent(outcome, written) ==
    IF queue = <<>>
    THEN /\ inflight' = None /\ native' = [native EXCEPT ![inflight] = outcome]
         /\ stdin' = stdin \o written /\ UNCHANGED queue
    ELSE /\ inflight' = Head(queue) /\ queue' = Tail(queue)
         /\ native' = [native EXCEPT ![Head(queue)] = "unknown"]
         /\ stdin' = stdin \o written \o <<Msg("turn", Head(queue))>>
SettleAs(outcome, written) ==
    LET done == [native EXCEPT ![inflight] = outcome] IN
    IF queue = <<>>
    THEN /\ inflight' = None /\ native' = done
         /\ stdin' = stdin \o written /\ UNCHANGED queue
    ELSE /\ inflight' = Head(queue) /\ queue' = Tail(queue)
         /\ native' = [done EXCEPT ![Head(queue)] = "unknown"]
         /\ stdin' = stdin \o written \o <<Msg("turn", Head(queue))>>

\* A held turn settles with the result it has once no steer, in the states
\* `st`, can still produce one.  `written` goes out with the step.
Releasable(t, st) == held[t] /\ inflight = t /\ Waiting(t, st) = {} /\ Started(t, st) = {}

ReleaseHeld(t, st) ==
    IF Releasable(t, st)
    THEN held' = [held EXCEPT ![t] = FALSE] /\ SettleAs("completed", <<>>)
    ELSE UNCHANGED <<held, inflight, queue, native, stdin>>

----------------------------------------------------------------------------
(* The caller                                                               *)

Send(t) ==
    /\ native[t] = "idle" /\ t \notin ToSet(queue)
    /\ IF inflight = None
       THEN /\ inflight' = t /\ native' = [native EXCEPT ![t] = "unknown"]
            /\ stdin' = Append(stdin, Msg("turn", t)) /\ UNCHANGED queue
       ELSE /\ queue' = Append(queue, t) /\ UNCHANGED <<inflight, native, stdin>>
    /\ UNCHANGED <<events, held, steer, of, push, cancels, stop, stopped,
                   waiting, later, run, pipe, history>>

Push(s) ==
    /\ push[s] = "idle"
    /\ IF inflight = None
       THEN /\ push' = [push EXCEPT ![s] = "ignored"]
            /\ UNCHANGED <<steer, of, stdin>>
       ELSE /\ push' = [push EXCEPT ![s] = "waiting"]
            /\ steer' = [steer EXCEPT ![s] = "written"]
            /\ of' = [of EXCEPT ![s] = inflight]
            /\ stdin' = Append(stdin, Msg("steer", s))
    /\ UNCHANGED <<events, inflight, queue, native, held, cancels, stop, stopped,
                   waiting, later, run, pipe, history>>

\* No lifecycle line within STEER_ACK_MS: the steer no longer holds the turn.
PushTimesOut(s) ==
    LET st == [steer EXCEPT ![s] = IF @ = "written" THEN "unconfirmed" ELSE @] IN
    /\ "slow" \in events
    /\ push[s] = "waiting"
    /\ push' = [push EXCEPT ![s] = "unknown"]
    /\ steer' = st
    /\ ReleaseHeld(of[s], st)
    /\ UNCHANGED <<events, of, cancels, stop, stopped, waiting, later, run, pipe, history>>

\* interruptNative: the steers still waiting are withdrawn first.
StopAlone ==
    /\ "stop" \in events
    /\ stop = "idle" /\ inflight # None
    /\ stop' = "withdrawing" /\ stopped' = inflight
    /\ asked' = Waiting(inflight, steer)
    /\ UNCHANGED <<events, inflight, queue, native, held, steer, of, push, cancels,
                   stdin, waiting, later, run, pipe, credited, hit>>
Stop ==
    /\ "stop" \in events
    /\ stop = "idle" /\ inflight # None
    /\ stop' = "withdrawing" /\ stopped' = inflight
    /\ cancels' = cancels \cup ({"stop"} \X Waiting(inflight, steer))
    /\ stdin' = stdin \o CancelMsgs("stop", Waiting(inflight, steer))
    /\ asked' = Waiting(inflight, steer)
    /\ UNCHANGED <<events, inflight, queue, native, held, steer, of, push,
                   waiting, later, run, pipe, credited, hit>>

\* The withdrawals were answered: a held turn settles, any other is interrupted.
StopGoesOnLate ==
    /\ stop = "withdrawing"
    /\ \A s \in Steers : <<"stop", s>> \notin cancels
    /\ stop' = "done"
    /\ stdin' = Append(stdin, Msg("interrupt", None))
    /\ UNCHANGED <<events, held, inflight, queue, native, steer, of, push, cancels, stopped,
                   waiting, later, run, pipe, history>>
StopGoesOn ==
    /\ stop = "withdrawing"
    /\ \A s \in Steers : <<"stop", s>> \notin cancels
    /\ stop' = "done"
    /\ IF Releasable(stopped, steer)
       THEN ReleaseHeld(stopped, steer)
       ELSE /\ stdin' = IF native[stopped] = "unknown"
                        THEN Append(stdin, Msg("interrupt", None)) ELSE stdin
            /\ UNCHANGED <<held, inflight, queue, native>>
    /\ UNCHANGED <<events, steer, of, push, cancels, stopped, waiting, later, run, pipe,
                   history>>

CancelTimesOut(r) ==
    /\ "slow" \in events
    /\ r \in cancels
    /\ cancels' = cancels \ {r}
    /\ UNCHANGED <<events, inflight, queue, native, held, steer, of, push, stop, stopped,
                   cli, history>>

----------------------------------------------------------------------------
(* _processLine                                                             *)

Reads(kind) == pipe # <<>> /\ Head(pipe).kind = kind /\ pipe' = Tail(pipe)

\* Only the in-flight turn's steers are followed.
ReadLifecycle ==
    LET s == Head(pipe).id
        state == Head(pipe).what
        st == [steer EXCEPT ![s] = state] IN
    /\ Reads("lifecycle")
    /\ IF inflight # None /\ of[s] = inflight
       THEN /\ steer' = st
            /\ push' = [push EXCEPT ![s] =
                          IF @ # "waiting" THEN @
                          ELSE IF state = "cancelled" THEN "ignored" ELSE "steered"]
            /\ IF state = "cancelled" THEN ReleaseHeld(inflight, st)
               ELSE UNCHANGED <<held, inflight, queue, native, stdin>>
       ELSE UNCHANGED <<steer, push, held, inflight, queue, native, stdin>>
    /\ UNCHANGED <<events, of, cancels, stop, stopped, waiting, later, run, history>>

ReadCancelled ==
    LET r == Head(pipe).id IN
    /\ Reads("cancelled")
    /\ cancels' = cancels \ {r}
    /\ steer' = IF r \in cancels /\ Head(pipe).what
                THEN [steer EXCEPT ![r[2]] = "cancelled"] ELSE steer
    /\ UNCHANGED <<events, inflight, queue, native, held, of, push, stop, stopped,
                   stdin, waiting, later, run, history>>

\* A result with no turn in flight is recorded and belongs to nobody.
ReadUnowned ==
    /\ Reads("result") /\ inflight = None
    /\ UNCHANGED <<events, session, stdin, waiting, later, run, history>>

Credit == credited' = [credited EXCEPT ![inflight] = @ \cup {Owner(Head(pipe).id)}]

\* A steer still waits: this result is an intermediate one.
ReadHolds ==
    /\ Reads("result") /\ inflight # None
    /\ Head(pipe).what = "completed" /\ Waiting(inflight, steer) # {}
    /\ Credit
    /\ held' = [held EXCEPT ![inflight] = TRUE]
    /\ UNCHANGED <<events, inflight, queue, native, steer, of, push, cancels, stop, stopped,
                   stdin, waiting, later, run, hit, asked>>

ReadCompletes ==
    /\ Reads("result") /\ inflight # None
    /\ Head(pipe).what = "completed" /\ Waiting(inflight, steer) = {}
    /\ Credit
    /\ held' = [held EXCEPT ![inflight] = FALSE]
    /\ SettleAs("completed", <<>>)
    /\ UNCHANGED <<events, steer, of, push, cancels, stop, stopped, waiting, later, run, hit, asked>>

\* A failed result settles the turn at once; its steers are being withdrawn
\* while the next turn is already written.
ReadFails ==
    /\ Reads("result") /\ inflight # None
    /\ Head(pipe).what = "failed"
    /\ Credit
    /\ held' = [held EXCEPT ![inflight] = FALSE]
    /\ cancels' = cancels \cup ({"failed"} \X Waiting(inflight, steer))
    /\ SettleAs("failed", CancelMsgs("failed", Waiting(inflight, steer)))
    /\ UNCHANGED <<events, steer, of, push, stop, stopped, waiting, later, run, hit, asked>>

----------------------------------------------------------------------------
(* The CLI (external)                                                       *)

Line(kind, id, what) == [kind |-> kind, id |-> id, what |-> what]
Says(lines) == pipe' = pipe \o lines
Takes(op) == stdin # <<>> /\ Head(stdin).op = op /\ stdin' = Tail(stdin)

\* An idle CLI starts the turn at once.
CliTakesTurn ==
    /\ Takes("turn")
    /\ IF run = None /\ waiting = <<>> /\ later = <<>>
       THEN run' = Head(stdin).id /\ UNCHANGED later
       ELSE later' = Append(later, Head(stdin).id) /\ UNCHANGED run
    /\ UNCHANGED <<events, session, waiting, pipe, history>>

CliTakesSteer ==
    LET s == Head(stdin).id IN
    /\ Takes("steer")
    /\ waiting' = Append(waiting, s)
    /\ Says(<<Line("lifecycle", s, "queued")>>)
    /\ UNCHANGED <<events, session, later, run, history>>

CliCancels ==
    LET r == Head(stdin).id
        s == r[2] IN
    /\ Takes("cancel")
    /\ \/ \E k \in DOMAIN waiting :
             /\ waiting[k] = s /\ waiting' = RemoveAt(waiting, k)
             /\ Says(<<Line("cancelled", r, TRUE), Line("lifecycle", s, "cancelled")>>)
       \/ /\ s \notin ToSet(waiting)
          /\ Says(<<Line("cancelled", r, FALSE)>>) /\ UNCHANGED waiting
    /\ UNCHANGED <<events, session, later, run, history>>

CliInterrupted ==
    /\ Takes("interrupt")
    /\ IF run = None THEN UNCHANGED <<run, pipe, hit>>
       ELSE /\ run' = None /\ hit' = hit \cup {Owner(run)}
            /\ Says(<<Line("result", run, "failed")>> \o
                    IF run \in Steers THEN <<Line("lifecycle", run, "cancelled")>> ELSE <<>>)
    /\ UNCHANGED <<events, session, waiting, later, credited, asked>>

\* A steer waiting at the end of a run comes before any later turn.
CliRuns ==
    /\ run = None
    /\ \/ /\ waiting # <<>>
          /\ run' = Head(waiting) /\ waiting' = Tail(waiting)
          /\ Says(<<Line("lifecycle", Head(waiting), "started")>>)
          /\ UNCHANGED later
       \/ /\ waiting = <<>> /\ later # <<>>
          /\ run' = Head(later) /\ later' = Tail(later)
          /\ UNCHANGED <<waiting, pipe>>
    /\ UNCHANGED <<events, session, stdin, history>>

\* Taken in at the run's next model request.
CliTakesIn ==
    /\ run # None /\ waiting # <<>>
    /\ waiting' = Tail(waiting)
    /\ Says(<<Line("lifecycle", Head(waiting), "started"),
              Line("lifecycle", Head(waiting), "completed")>>)
    /\ UNCHANGED <<events, session, stdin, later, run, history>>

CliFinishes ==
    /\ run # None
    /\ \E o \in {"completed", "failed"} :
         /\ o = "failed" => "fails" \in events
         /\ Says(<<Line("result", run, o)>> \o
                 IF run \in Steers THEN <<Line("lifecycle", run, "completed")>> ELSE <<>>)
    /\ run' = None
    /\ UNCHANGED <<events, session, stdin, waiting, later, history>>

Read == ReadLifecycle \/ ReadCancelled \/ ReadUnowned \/ ReadHolds
        \/ ReadCompletes \/ ReadFails
Cli == CliTakesTurn \/ CliTakesSteer \/ CliCancels \/ CliInterrupted
       \/ CliRuns \/ CliTakesIn \/ CliFinishes

Next ==
    \/ \E t \in Turns : Send(t)
    \/ \E s \in Steers : Push(s) \/ PushTimesOut(s)
    \/ Stop \/ StopGoesOn
    \/ \E r \in Requests : CancelTimesOut(r)
    \/ Read \/ Cli

Spec == Init /\ [][Next]_vars

\* Output is read, the stop goes on, and the CLI keeps working through what it
\* was given: a turn with no timeout waits on that alone.
FairSpec ==
    /\ Spec
    /\ WF_vars(Read) /\ WF_vars(StopGoesOn)
    /\ WF_vars(CliTakesTurn \/ CliTakesSteer \/ CliCancels \/ CliInterrupted)
    /\ WF_vars(CliRuns \/ CliFinishes)

----------------------------------------------------------------------------
(* What steering must get right                                             *)

\* Whatever is pushed into a turn is answered inside it: no result of a steer
\* is recorded in another turn (HarnessSession.push, _withdrawSteers).  It does not
\* hold: README, "Where code and comments disagree".
SteersStayInTurn == \A t \in Turns : credited[t] \subseteq {t}

\* It holds while no turn fails, none is stopped and push() told no caller that
\* it does not know (_steerWaiting, held).
SteersStayInGoodTurn ==
    /\ stop = "idle"
    /\ \A t \in Turns : native[t] # "failed"
    /\ \A s \in Steers : push[s] # "unknown"
    => SteersStayInTurn

\* A stop ends only the run of the turn it was called for (interruptNative).
StopIsOwn == hit \subseteq {stopped}

\* "A stop is for the whole turn: a steer still waiting dies with it, never runs
\* after it": once the stop's interrupt was read, none of the steers it found
\* waiting runs or can still run (interruptNative).
NothingOutlivesStop ==
    stop = "done" /\ Msg("interrupt", None) \notin ToSet(stdin)
        => ({run} \cup ToSet(waiting)) \cap asked = {}

\* A held turn does not stay open for ever.
HeldSettles == \A t \in Turns : held[t] ~> ~held[t]

\* Steering keeps the ownership promise: one unresolved turn at a time, each
\* settled once.
Ownership == INSTANCE TurnOwnership WITH
    local <- [t \in Turns |-> IF native[t] \in {"completed", "failed"} THEN "resolved"
                              ELSE IF t = inflight \/ t \in ToSet(queue) THEN "pending"
                              ELSE "none"],
    disp <- [t \in Turns |-> IF native[t] = "idle" THEN "not-dispatched" ELSE "attempted"],
    native <- [t \in Turns |-> IF native[t] = "idle" THEN "unknown" ELSE native[t]]
ImplementsOwnership == Ownership!Spec
=============================================================================
