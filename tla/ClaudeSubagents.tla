---------------------------- MODULE ClaudeSubagents ----------------------------
(***************************************************************************)
(* ClaudeSubagentSessions (src/src/claude-subagents.ts): the decisions of  *)
(* one group, answered by subagents of shared side sessions.               *)
(*                                                                         *)
(* A decision whose standby context a pre-started spare holds is reserved  *)
(* on it and answers the spare's `moment` call; any other joins a batch    *)
(* that fans out in one dispatcher turn.  A spare that cannot serve its    *)
(* decision hands it to a fan-out.  Turns end by a result, are rewound,    *)
(* and a side session that does not do as told is killed.                  *)
(*                                                                         *)
(* The handlers run whole between awaits and call each other (_lost calls  *)
(* _fallback and _drain, a turn's end calls _replenish), so each is an     *)
(* operator from the host's state to the next, and an action is the event  *)
(* that sets one off.  One group; the runtime is external.                 *)
(***************************************************************************)
EXTENDS Integers, FiniteSets, Sequences, SequencesExt

CONSTANTS
    Decisions, Roles,
    Contexts,       \* the standby contexts that prestart() and decide() name
    MaxSides,       \* bound: the processes that start; a launch beyond them throws
    MaxMembers,     \* maxMembers; the roles of a group fit in one standby turn
    MaxSessions,    \* maxSessionsPerGroup
    Specs,          \* what is asked, with how many spares, and what goes wrong
    Null

Sides == 1..MaxSides

\* What a subagent sees, in order; and what is written to the runtime of it.
Text    == Seq(Contexts \cup {Null, "input", "other"})
Message == [to : Decisions, on : Sides, text : Text]

ASSUME SubagentsAssumption ==
    /\ IsFiniteSet(Decisions) /\ MaxSides \in Nat \ {0} /\ MaxSessions \in Nat \ {0}
    /\ MaxMembers \in Nat \ {0} /\ Cardinality(Roles) <= MaxMembers
    /\ Null \notin Decisions \cup Sides \cup Contexts /\ Null \notin Message
    /\ \A x \in Specs :
          /\ x.role \in [Decisions -> Roles] /\ x.wants \in [Decisions -> Contexts \cup {Null}]
          /\ x.copies \in Nat \ {0} /\ x.prestarts \in Seq([roles : SUBSET Roles, ctx : Contexts])

VARIABLES
    host,   \* what the host holds: its members, side sessions, spares and group
    native, \* what the runtime does with each input: [run, on, got, runs]
    spec    \* the one of Specs: role and standby context of each decision, the
            \* prestart() calls (roles and context), and what may go wrong

subagentsVars == <<host, native, spec>>

Role(d)  == spec.role[d]
Wants(d) == spec.wants[d]
Fault(f) == f \in spec.faults
Copies   == spec.copies     \* sparesPerRole

\* The whole text a decision's subagent is meant to see.
Whole(d) == IF Wants(d) = Null THEN <<"input">> ELSE <<Wants(d), "input">>

NoSpare == [ctx |-> Null, used |-> FALSE, pending |-> FALSE, member |-> Null, bad |-> FALSE,
            done |-> FALSE]
NoSide  == [kind |-> "none", in |-> FALSE, alive |-> FALSE, gone |-> FALSE, ready |-> "starting",
            phase |-> "idle", names |-> {}, retire |-> FALSE, ending |-> FALSE, stop |-> FALSE,
            chunk |-> {}, listed |-> {}, members |-> {}, retry |-> FALSE]

SubagentsInit ==
    /\ spec \in Specs
    /\ host = [m |-> [d \in Decisions |->
                        [told |-> "none", spare |-> Null, input |-> <<"input">>, admitted |-> FALSE,
                         asking |-> {}, asks |-> 0, used |-> FALSE, task |-> FALSE, bad |-> FALSE,
                         delivered |-> FALSE, timer |-> FALSE, stop |-> Null]],
               side |-> [s \in Sides |-> NoSide], spare |-> [s \in Sides |-> [r \in Roles |-> NoSpare]],
               batch |-> <<>>, timer |-> FALSE, waiting |-> <<>>, defs |-> {},
               desired |-> [r \in Roles |-> Null], asked |-> 0, backoff |-> FALSE, out |-> Null,
               group |-> "live", ending |-> {}, closed |-> FALSE]
    /\ native = [d \in Decisions |-> [run |-> "none", on |-> Null, got |-> <<>>, runs |-> 0]]

----------------------------------------------------------------------------
(* Members and spares                                                       *)

Pending(h, d) == h.m[d].told = "pending"

\* member.resolve and member.reject: the first one settles it.
SettledAs(h, d, what) == IF Pending(h, d) THEN [h EXCEPT !.m[d].told = what] ELSE h
SettledAll(h, ds, what) ==
    [h EXCEPT !.m = [d \in Decisions |-> IF d \in ds /\ Pending(h, d) THEN [@[d] EXCEPT !.told = what]
                                         ELSE @[d]]]

Held(sp)   == sp.ctx # Null
FreeSpare(sp) == Held(sp) /\ sp.member = Null /\ ~sp.done /\ ~sp.bad
Spares(h, s) == {r \in Roles : Held(h.spare[s][r])}
InUse(h, s)  == \E r \in Spares(h, s) : LET d == h.spare[s][r].member IN d # Null /\ Pending(h, d)
Ours(h, d)   == h.m[d].spare # Null /\ h.spare[h.m[d].spare][Role(d)].member = d
Busy(h, s)   == h.side[s].phase # "idle"
OfKind(h, k) == {s \in Sides : h.side[s].in /\ h.side[s].kind = k}
First(ss)    == CHOOSE s \in ss : \A t \in ss : s <= t

\* _spareFor: a held spare before one still starting, then the side session with
\* the fewest free spares left.
SparesFor(h, d) ==
    LET Sp(s)   == h.spare[s][Role(d)]
        Unused(s) == Cardinality({r \in Roles : FreeSpare(h.spare[s][r])})
        fit     == {s \in Sides : /\ h.side[s].in /\ h.side[s].alive /\ ~h.side[s].retire
                                  /\ FreeSpare(Sp(s)) /\ Sp(s).ctx = Wants(d)}
    IN {s \in fit : \A t \in fit : /\ Sp(t).pending => Sp(s).pending
                                   /\ Sp(s).pending = Sp(t).pending => Unused(s) <= Unused(t)}

\* _serviceable.
Serviceable(h, d) ==
    LET s == h.m[d].spare
    IN h.side[s].alive /\ Held(h.spare[s][Role(d)]) /\ ~h.spare[s][Role(d)].done /\ ~h.spare[s][Role(d)].bad

\* Mutant of Rejoined: the standby context is left out.
RejoinedBare(h, d) == h.m[d].input

\* The input a fan-out sends for a decision that had a spare.
Rejoined(h, d) == <<Wants(d)>> \o h.m[d].input

\* member.deliveredAt: its input is written to the spare.
Given(h, d) == h.m[d].delivered

\* The spares forget the decisions reserved on them.
Unreserved(h, ds) ==
    LET Forgets(s, r) == LET d == h.spare[s][r].member IN d \in ds /\ h.m[d].spare = s /\ Role(d) = r
    IN [h EXCEPT !.spare = [s \in Sides |-> [r \in Roles |->
                              IF Forgets(s, r) THEN [@[s][r] EXCEPT !.member = Null] ELSE @[s][r]]]]

\* _fallback of each: to the next fan-out, if the group still exists.
Falls(h, ds) == {d \in ds : h.m[d].spare # Null /\ Pending(h, d) /\ ~Given(h, d)}
Fallen(h, fs) ==
    [Unreserved(h, fs) EXCEPT
        !.side = [s \in Sides |-> [h.side[s] EXCEPT !.members = @ \ {d \in fs : h.m[d].spare = s}]],
        !.m = [d \in Decisions |-> IF d \in fs THEN [h.m[d] EXCEPT !.spare = Null, !.input = Rejoined(h, d)]
                                  ELSE h.m[d]]]
FallbackAll(h, ds) ==
    LET fs == Falls(h, ds)
        g  == Fallen(h, fs)
    IN IF fs = {} \/ h.group = "released" THEN g
       ELSE [g EXCEPT !.batch = @ \o SetToSeq(fs), !.timer = TRUE]
Fallback(h, d) == FallbackAll(h, {d})

\* _deliver: a moment call that is held, answered by the decision on its spare.
\* What is written is `out`, for the runtime.
Deliver(h, s, r) ==
    LET sp == h.spare[s][r]
        d  == sp.member
    IN IF d = Null THEN h
       ELSE IF ~Pending(h, d) \/ ~sp.pending \/ Given(h, d) \/ ~h.m[d].admitted THEN h
       ELSE IF sp.bad THEN Fallback(h, d)
       ELSE [h EXCEPT !.m[d].delivered = TRUE, !.m[d].used = TRUE, !.m[d].task = TRUE,
                      !.out = [to |-> d, on |-> s, text |-> <<sp.ctx>> \o h.m[d].input]]

----------------------------------------------------------------------------
(* Side sessions: standby turns and fan-outs                                *)

\* _spawn: in the group from here on, with the definitions it has now.
Spawned(h, k, s) == [h EXCEPT !.side[s] = [NoSide EXCEPT !.kind = k, !.in = TRUE, !.alive = TRUE,
                                                         !.names = h.defs]]
Fresh(h) == {s \in Sides : h.side[s].kind = "none"}

\* _kill, up to the wait for its exit.
KilledAll(h, ss) ==
    [h EXCEPT !.side = [s \in Sides |->
        IF s \in ss /\ ~h.side[s].gone
        THEN [h.side[s] EXCEPT !.alive = FALSE, !.in = (@ /\ h.group = "released")] ELSE h.side[s]]]
Killed(h, s) == KilledAll(h, {s})

\* _endStandbyNow: the interrupt ends the turn only if its message was written.
Interrupted(e) == [e EXCEPT !.ending = TRUE, !.stop = (e.phase = "turn")]
EndStandbyNow(h, s) == [h EXCEPT !.side[s] = Interrupted(@)]

\* _endStandby: once no decision is using its spares.
EndStandby(h, s) == IF InUse(h, s) \/ Spares(h, s) = {} THEN h ELSE EndStandbyNow(h, s)

\* Side sessions whose standby turns hold another context: to end, now or later.
Retired(h, ss) ==
    [h EXCEPT !.side = [s \in Sides |->
        IF s \notin ss THEN @[s]
        ELSE IF InUse(h, s) \/ Spares(h, s) = {} THEN [@[s] EXCEPT !.retire = TRUE]
        ELSE [Interrupted(@[s]) EXCEPT !.retire = TRUE]]]

\* _releaseSpent: a partly used standby turn ends when every role it still holds
\* has another held copy.
Spent(h, s) ==
    LET e == h.side[s]
        Covered(r) == \E t \in OfKind(h, "standby") \ {s} :
                          /\ h.side[t].alive /\ ~h.side[t].ending /\ ~h.side[t].retire
                          /\ FreeSpare(h.spare[t][r]) /\ h.spare[t][r].pending
                          /\ h.spare[t][r].ctx = h.spare[s][r].ctx
    IN /\ e.in /\ e.kind = "standby" /\ e.alive /\ ~e.ending /\ ~e.retire /\ Busy(h, s)
       /\ \E r \in Spares(h, s) : h.spare[s][r].done \/ h.spare[s][r].member # Null
       /\ ~InUse(h, s)
       /\ \A r \in Roles : FreeSpare(h.spare[s][r]) => Covered(r)
EndSpent(h, s) == IF Spent(h, s) THEN EndStandbyNow(h, s) ELSE h
ReleaseSpent(h) == IF Copies < 2 THEN h ELSE FoldLeft(EndSpent, h, [s \in Sides |-> s])

\* _replenish: every copy of every desired role, each round of missing copies in
\* a standby turn of its own, until one has to wait (go).
StandbyTurn(h, s, rs) ==
    [h EXCEPT !.side[s].phase = "ready",
              !.spare[s] = [r \in Roles |-> IF r \in rs THEN [NoSpare EXCEPT !.ctx = h.desired[r]] ELSE NoSpare]]
Copied(h, r) == Cardinality({s \in Sides : /\ h.side[s].in /\ h.side[s].alive /\ ~h.side[s].retire
                                            /\ FreeSpare(h.spare[s][r]) /\ h.spare[s][r].ctx = h.desired[r]})
Freeing(h) == \E s \in OfKind(h, "standby") :
                  /\ h.side[s].alive
                  /\ \/ h.side[s].ending
                     \/ /\ Spares(h, s) # {}
                        /\ \A r \in Spares(h, s) : h.spare[s][r].done \/ h.spare[s][r].member # Null
Missing(h, n)  == {r \in Roles : h.desired[r] # Null /\ Copied(h, r) < n}
Usable(h, rs) == {s \in OfKind(h, "standby") : h.side[s].alive /\ ~Busy(h, s) /\ rs \subseteq h.side[s].names}
Round(a, n) ==
    LET h  == a.h
        rs == Missing(h, n)
    IN IF ~a.go \/ rs = {} THEN a
       ELSE IF Usable(h, rs) # {} THEN [h |-> StandbyTurn(h, First(Usable(h, rs)), rs), go |-> TRUE]
       ELSE IF Freeing(h) \/ Cardinality(OfKind(h, "standby")) >= Copies + 2 THEN [h |-> h, go |-> FALSE]
       ELSE IF Fresh(h) = {} THEN [h |-> [h EXCEPT !.backoff = TRUE], go |-> FALSE]
       ELSE [h |-> StandbyTurn(Spawned(h, "standby", First(Fresh(h))), First(Fresh(h)), rs), go |-> TRUE]
Replenish(h) ==
    IF h.closed \/ h.backoff THEN h
    ELSE FoldLeft(Round, [h |-> h, go |-> TRUE], [n \in 1..Copies |-> n]).h

\* Nothing waiting starts once closed.
Stops(h) == h.closed

\* _drain: the waiting chunks, each to a free side session with its definitions,
\* to a new one, or to one that replaces an idle one, until one has to wait (go).
Fan(h, s, ds) == [h EXCEPT !.waiting = Tail(@),
                           !.side[s] = [@ EXCEPT !.phase = "ready", !.chunk = ds, !.listed = {}, !.retry = FALSE]]
Unsent(h, ds) == SettledAll([h EXCEPT !.waiting = Tail(@)], ds, "unsent")
Idle(h)       == {s \in OfKind(h, "fan") : ~Busy(h, s)}
Fit(h, ds)    == {s \in Idle(h) : h.side[s].alive /\ {Role(d) : d \in ds} \subseteq h.side[s].names}
GroupFull(h)  == Cardinality(OfKind(h, "fan")) >= MaxSessions
Room(h)       == IF GroupFull(h) THEN [Killed(h, First(Idle(h))) EXCEPT !.side[First(Idle(h))].in = FALSE] ELSE h
DrainOne(a, any) ==
    LET h  == a.h
        ds == {d \in Head(h.waiting) : Pending(h, d)}
    IN IF ~a.go \/ h.waiting = <<>> THEN a
       ELSE IF ds = {} THEN [h |-> [h EXCEPT !.waiting = Tail(@)], go |-> TRUE]
       ELSE IF Fit(h, ds) # {} THEN [h |-> Fan(h, First(Fit(h, ds)), ds), go |-> TRUE]
       ELSE IF GroupFull(h) /\ Idle(h) = {} THEN [h |-> h, go |-> FALSE]
       ELSE IF Fresh(h) = {} THEN [h |-> Unsent(Room(h), ds), go |-> TRUE]
       ELSE [h |-> Fan(Spawned(Room(h), "fan", First(Fresh(h))), First(Fresh(h)), ds), go |-> TRUE]
Drain(h) == IF Stops(h) THEN h ELSE FoldLeft(DrainOne, [h |-> h, go |-> TRUE], h.waiting).h

Up(a, b) == (a + b - 1) \div b

\* _flush: the batch, split evenly into chunks of at most MaxMembers.
Flush(h) ==
    LET at      == {j \in 1..Len(h.batch) : Pending(h, h.batch[j])}
        count   == Cardinality(at)
        size    == Up(count, Up(count, MaxMembers))
        In(j)   == Up(Cardinality({k \in at : k <= j}), size)
        chunks  == [i \in 1..Up(count, size) |-> {h.batch[j] : j \in {k \in at : In(k) = i}}]
        g       == [h EXCEPT !.batch = <<>>, !.timer = FALSE]
    IN IF at = {} THEN g ELSE Drain([g EXCEPT !.waiting = @ \o chunks])

\* Mutant of FanOutOver: nothing drains the chunks that waited for the side session.
FanOutOverAlone(h, s) ==
    [h EXCEPT !.side[s] = [@ EXCEPT !.phase = "idle", !.chunk = {}, !.listed = {}, !.members = {}]]

\* The end of _fanOut and of what _drain does after it.
FanOutOver(h, s) ==
    Drain([h EXCEPT !.side[s] = [@ EXCEPT !.phase = "idle", !.chunk = {}, !.listed = {}, !.members = {}]])

\* The end of a standby turn and of what _replenish does after it.
StandbyOver(h, s) ==
    Replenish([h EXCEPT !.side[s] = [@ EXCEPT !.phase = "idle", !.retire = FALSE, !.ending = FALSE,
                                              !.stop = FALSE]])

\* _releaseSpares: what was reserved fans out, what had its input fails.
ReleaseSpares(h, s) ==
    LET of == {h.spare[s][r].member : r \in Spares(h, s)} \ {Null}
        ds == {d \in of : Pending(h, d)}
        g  == SettledAll(FallbackAll(h, ds), {d \in ds : Given(h, d)}, "over")
    IN [g EXCEPT !.spare[s] = [r \in Roles |-> NoSpare], !.side[s].members = {}]

\* What goes on in _fanOut once its side session is gone or the rewind is over:
\* skipped members are sent once more, or refused.
Unfinished(h, s) ==
    LET e == h.side[s]
    IN IF e.chunk # {} /\ ~e.retry /\ e.alive
       THEN [h EXCEPT !.side[s] = [@ EXCEPT !.phase = "ready", !.retry = TRUE, !.listed = {}]]
       ELSE FanOutOver(SettledAll(h, e.chunk, "unsent"), s)

\* The functions that awaited something of a side session that is gone.
Resumed(h, s) ==
    LET e == h.side[s]
        start == e.phase = "ready" /\ e.ready # "up"
    IN IF e.kind = "standby"
       THEN IF start THEN StandbyOver(ReleaseSpares([h EXCEPT !.backoff = TRUE], s), s)
            ELSE IF e.phase \in {"turn", "rewinding", "killing"} THEN StandbyOver(ReleaseSpares(h, s), s)
            ELSE h
       ELSE IF start THEN FanOutOver(SettledAll(h, e.chunk, "unsent"), s)
            ELSE IF e.phase = "turn" THEN FanOutOver(h, s)
            ELSE IF e.phase \in {"rewinding", "killing"} THEN Unfinished(h, s)
            ELSE h

\* _lost: the exit of a side session, then what awaited it.
Lose(h, s) ==
    LET e  == h.side[s]
        of == {h.spare[s][r].member : r \in Spares(h, s)} \ {Null}
        g0 == [h EXCEPT !.side[s] = [@ EXCEPT !.gone = TRUE, !.alive = FALSE],
                        !.m = [d \in Decisions |-> [h.m[d] EXCEPT !.stop = IF @ = s THEN Null ELSE @]]]
        g1 == FallbackAll(g0, of)
        ms == g1.side[s].members
        g2 == SettledAll(SettledAll(g1, {d \in ms : h.m[d].used}, "over"), {d \in ms : ~h.m[d].used}, "unsent")
        g3 == IF h.group = "released" THEN g2 ELSE Drain([g2 EXCEPT !.side[s].in = FALSE])
    IN IF e.gone THEN h ELSE Resumed(g3, s)

----------------------------------------------------------------------------
(* What the runtime does with what is written to it                         *)

\* Inputs written reach their subagents; those that run on a side session that is
\* gone, or whose turn ended, are over.
Heard(n, h, ended) ==
    [d \in Decisions |->
       LET x == IF h.out = Null \/ h.out.to # d THEN n[d]
                ELSE [run |-> "running", on |-> h.out.on, got |-> h.out.text, runs |-> n[d].runs + 1]
       IN IF x.run = "running" /\ (x.on = ended \/ h.side[x.on].gone) THEN [x EXCEPT !.run = "over"] ELSE x]

Ends(h, ended) ==
    /\ host' = [h EXCEPT !.out = Null] /\ native' = Heard(native, h, ended) /\ UNCHANGED spec
Step(h) == Ends(h, Null)

Talks(s) == host.side[s].kind # "none" /\ ~host.side[s].gone
RunsOn(s, d) == native[d].run = "running" /\ native[d].on = s

----------------------------------------------------------------------------
(* The host's callers                                                       *)

\* decide(): reserved on a spare, or in the batch with its standby context in
\* front of its input.  (Bound: nothing is asked of a group that was released.)
Decide(d) ==
    LET h  == [host EXCEPT !.m[d].told = "pending", !.defs = @ \cup {Role(d)}]
        ss == IF Wants(d) = Null THEN {} ELSE SparesFor(h, d)
    IN /\ host.m[d].told = "none" /\ host.group = "live"
       /\ \/ host.closed /\ Step([host EXCEPT !.m[d].told = "unsent"])
          \/ /\ ~host.closed
             /\ \E s \in ss : Step([h EXCEPT !.m[d].spare = s, !.spare[s][Role(d)].member = d,
                                             !.m[d].asking = {"spare"}, !.m[d].asks = 1])
          \/ /\ ~host.closed /\ ss = {}
             /\ LET g == Replenish([h EXCEPT !.m[d].input = Whole(d)])
                IN Step([g EXCEPT !.batch = Append(@, d), !.timer = TRUE])

\* Its admission was registered, and it was not settled meanwhile.
Admitted(d) == Pending(host, d)

\* A reserved decision may have been registered again by a fan-out, and sent, when its
\* first registration is refused.  The caller is told "not-dispatched" all the same;
\* "overtaken" is the model's word for that.
Refused(h, d) == IF h.m[d].used THEN "overtaken" ELSE "unsent"

\* _reserve goes on: the registration answered, or the decision was settled.  The
\* decisions of spec.refused may be refused at any registration of theirs, or at none.
Reserved(d) ==
    LET h == [host EXCEPT !.m[d].asking = @ \ {"spare"}]
        s == h.m[d].spare
        g == [h EXCEPT !.m[d].admitted = TRUE]
        t == [g EXCEPT !.side[s].members = @ \cup {d}]
    IN /\ "spare" \in host.m[d].asking
       /\ \/ /\ d \in spec.refused /\ Step(SettledAs(Unreserved(h, {d}), d, Refused(h, d)))
          \/ /\ ~Admitted(d) /\ Step(IF Given(h, d) THEN h ELSE Unreserved(h, {d}))
          \/ /\ Admitted(d)
             /\ Step(IF ~Ours(g, d) THEN g
                     ELSE IF ~Serviceable(g, d) THEN Fallback(g, d)
                     ELSE IF g.spare[s][Role(d)].pending THEN Deliver(t, s, Role(d))
                     ELSE [t EXCEPT !.m[d].timer = TRUE])

\* RESERVE_START_MS passed: the spare still starting is not waited for.
ReserveTimer(d) ==
    /\ host.m[d].timer
    /\ LET h == [host EXCEPT !.m[d].timer = FALSE]
       IN Step(IF Ours(h, d) THEN Fallback(h, d) ELSE h)

\* The batch's timer.
BatchTimer == host.timer /\ Step(Flush(host))

\* prestart() with the next standby context: spares that hold another are ended
\* once no decision uses them, and the group is replenished.
Prestart ==
    LET e == spec.prestarts[host.asked + 1]
        h == [host EXCEPT !.asked = @ + 1, !.defs = @ \cup e.roles,
                          !.desired = [r \in Roles |-> IF r \in e.roles THEN e.ctx ELSE Null]]
        Outdated(s) == \E r \in Spares(h, s) : h.spare[s][r].ctx # h.desired[r]
    IN /\ host.asked < Len(spec.prestarts) /\ ~host.closed /\ host.group = "live"
       /\ Step(Replenish(Retired(h, {s \in Sides : h.side[s].in /\ Outdated(s)})))

\* A reserved member that was never sent gives its spare back.
Withdraws(h, d) ==
    IF h.m[d].spare = Null \/ Given(h, d) THEN h
    ELSE [h EXCEPT !.spare[h.m[d].spare][Role(d)].member = Null, !.side[h.m[d].spare].members = @ \ {d}]

\* Mutant of Sent: being listed in a dispatcher's turn is not being sent.
SentNever(h, d) == Given(h, d)

\* Its input reached a subagent.
Sent(h, d) == Given(h, d) \/ (h.m[d].spare = Null /\ h.m[d].used)

\* _withdraw at the deadline or on an abort: refused unsent, or rejected at once
\* and its subagent stopped; a subagent that cannot be stopped recycles its side
\* session.
Withdraw(d) ==
    LET h  == Withdraws(host, d)
        at == IF h.m[d].spare # Null THEN {h.m[d].spare}
              ELSE {s \in Sides : h.group # "released" /\ h.side[s].in /\ d \in h.side[s].members}
        s  == First(at)
        g  == SettledAs(h, d, "stopping")
    IN /\ Pending(host, d) /\ d \in spec.leavers
       /\ IF ~Sent(h, d) THEN Step(SettledAs(h, d, "unsent"))
          ELSE IF at = {} THEN Step(g)
          ELSE IF h.side[s].alive /\ h.m[d].task THEN Step([g EXCEPT !.m[d].stop = s])
          ELSE Step(Killed(g, s))

\* The answer to stop_task, or none in time.
StopAnswered(d) ==
    LET s == host.m[d].stop
        h == [host EXCEPT !.m[d].stop = Null]
    IN /\ s # Null
       /\ \/ /\ host' = h /\ UNCHANGED spec
             /\ native' = [native EXCEPT ![d].run = IF RunsOn(s, d) THEN "over" ELSE @]
          \/ Fault("silent") /\ Step(Killed(h, s))

\* releaseGroup() up to the wait for its side sessions, and its end.
ReleaseGroup ==
    LET ds == Range(host.batch) \cup UNION Range(host.waiting)
        ss == {s \in Sides : host.side[s].in}
        h  == SettledAll([host EXCEPT !.desired = [r \in Roles |-> Null], !.timer = FALSE, !.batch = <<>>,
                                      !.waiting = <<>>, !.group = "releasing", !.ending = ss,
                                      !.side = [s \in Sides |-> IF s \in ss THEN [@[s] EXCEPT !.retire = TRUE]
                                                                ELSE @[s]]], ds, "unsent")
    IN Fault("release") /\ host.group = "live" /\ host.defs # {} /\ Step(KilledAll(h, ss))

Released ==
    /\ host.group = "releasing" /\ \A s \in host.ending : host.side[s].gone
    /\ Step([host EXCEPT !.group = "released"])

\* close().
Close ==
    LET ds == Range(host.batch) \cup UNION Range(host.waiting)
        h  == SettledAll([host EXCEPT !.closed = TRUE, !.timer = FALSE, !.batch = <<>>, !.waiting = <<>>],
                         ds, "unsent")
    IN /\ Fault("close") /\ ~host.closed
       /\ Step(IF host.group = "released" THEN [host EXCEPT !.closed = TRUE]
               ELSE KilledAll(h, {s \in Sides : host.side[s].in}))

\* _closeIdle of a group whose last decision and prestart() are older than idleMs:
\* its spares go, the definitions, and side sessions that were not used since.
CloseIdle ==
    LET h == [host EXCEPT !.desired = [r \in Roles |-> Null], !.defs = {}]
        g == IF \E r \in Roles : host.desired[r] # Null
             THEN Retired(h, {s \in Sides : h.side[s].in /\ Spares(h, s) # {}}) ELSE h
    IN /\ Fault("idle") /\ ~host.closed /\ host.group = "live" /\ host.defs # {}
       /\ \A d \in Decisions : ~Pending(host, d)
       /\ \E ss \in SUBSET {s \in Sides : host.side[s].in /\ ~Busy(host, s)} : Step(KilledAll(g, ss))

\* The wait after a standby session that failed to start is over.
BackoffOver == host.backoff /\ Step([host EXCEPT !.backoff = FALSE])

----------------------------------------------------------------------------
(* A side session starts and takes a turn                                   *)

\* The answer to initialize: in time, or the side session is killed.
Ready(s) ==
    LET e == host.side[s]
        h == [host EXCEPT !.side[s].ready = "failed"]
    IN /\ Talks(s) /\ e.ready = "starting"
       /\ \/ e.alive /\ Step([host EXCEPT !.side[s].ready = "up"])
          \/ Fault("start") /\ Step(IF e.phase = "ready" THEN Resumed(Killed(h, s), s) ELSE Killed(h, s))

\* _fanOut goes on to the registrations of its members, all at once.
FanOut(s) ==
    LET e   == host.side[s]
        ds  == {d \in e.chunk : Pending(host, d)}
        old == {d \in ds : e.retry \/ host.m[d].admitted}
    IN /\ e.kind = "fan" /\ e.phase = "ready" /\ e.ready = "up"
       /\ Step([host EXCEPT !.side[s] = [@ EXCEPT !.phase = "admitting", !.listed = old],
                            !.m = [d \in Decisions |->
                                     IF d \notin ds \ old THEN host.m[d]
                                     ELSE [host.m[d] EXCEPT !.asking = @ \cup {"fan"}, !.asks = @ + 1]]])

\* The registration of a member of the fan-out answered, or it was settled.
FanAdmitted(s, d) ==
    LET h == [host EXCEPT !.m[d].asking = @ \ {"fan"}]
    IN /\ host.side[s].phase = "admitting" /\ d \in host.side[s].chunk /\ "fan" \in host.m[d].asking
       /\ \/ d \in spec.refused /\ Step(SettledAs(h, d, "unsent"))
          \/ ~Admitted(d) /\ Step(h)
          \/ Admitted(d) /\ Step([h EXCEPT !.m[d].admitted = TRUE, !.side[s].listed = @ \cup {d}])

\* Every registration is over: the members admitted are listed in one turn.
Dispatch(s) ==
    LET e == host.side[s]
    IN /\ e.phase = "admitting" /\ \A d \in e.chunk : "fan" \notin host.m[d].asking
       /\ \/ /\ e.listed = {} \/ ~e.alive
             /\ Step(FanOutOver(SettledAll(host, e.listed, "unsent"), s))
          \/ /\ e.listed # {} /\ e.alive
             /\ Step([host EXCEPT !.side[s] = [@ EXCEPT !.phase = "turn", !.members = e.listed, !.stop = FALSE]])
          \/ /\ e.listed # {} /\ e.alive /\ Fault("write")
             /\ Step(Killed([SettledAll(host, e.listed, "unsent") EXCEPT !.side[s].phase = "killing",
                                                                       !.side[s].chunk = {}], s))

\* _standbyFanOut goes on to its turn.  A write that throws ends it, and
\* _replenish tries again.
Standby(s) ==
    LET e == host.side[s]
        h == [host EXCEPT !.backoff = FALSE]
    IN /\ e.kind = "standby" /\ e.phase = "ready" /\ e.ready = "up"
       /\ \/ e.alive /\ Step([h EXCEPT !.side[s].phase = "turn"])
          \/ (~e.alive \/ Fault("write")) /\ Step(StandbyOver(ReleaseSpares(h, s), s))

----------------------------------------------------------------------------
(* The turn: the runtime's frames                                           *)

\* Mutant of Allows: a member may be called twice.
AllowsAgain(h, d) == Pending(h, d)

\* _answerHook for a member of a fan-out.
Allows(h, d) == Pending(h, d) /\ ~h.m[d].used

\* The dispatcher calls the Agent tool for a member: its prompt is replaced with
\* the member's input.
Called(s, d) ==
    /\ Talks(s) /\ host.side[s].phase = "turn" /\ host.side[s].kind = "fan"
    /\ d \in host.side[s].members /\ Allows(host, d)
    /\ Step([host EXCEPT !.m[d].used = TRUE,
                         !.out = [to |-> d, on |-> s, text |-> host.m[d].input]])

\* task_started of a member's subagent, with its prompt or with another.
TaskStarted(s, d) ==
    /\ Talks(s) /\ host.side[s].kind = "fan" /\ d \in host.side[s].members /\ RunsOn(s, d) /\ ~host.m[d].task
    /\ \E same \in {TRUE} \cup (IF Fault("tampers") THEN {FALSE} ELSE {}) :
          /\ host' = [host EXCEPT !.m[d].task = TRUE, !.m[d].bad = ~same]
          /\ native' = [native EXCEPT ![d].got = IF same THEN @ ELSE <<"other">>]
          /\ UNCHANGED spec

\* A subagent uses a tool: a spare before its moment, or a member.
Acts(s, r) ==
    LET sp == host.spare[s][r]
    IN /\ Talks(s)
       /\ \/ /\ Fault("acts") /\ sp.used /\ ~sp.done /\ ~sp.bad /\ (sp.member # Null => ~Given(host, sp.member))
             /\ Step([host EXCEPT !.spare[s][r].bad = TRUE])
          \/ /\ Fault("uses")
             /\ \E d \in host.side[s].members : /\ Role(d) = r /\ RunsOn(s, d) /\ ~host.m[d].bad
                                                /\ Step([host EXCEPT !.m[d].bad = TRUE])

\* _settle, by the status of the subagent's task.
SettledBy(h, d, completed) == SettledAs(h, d, IF completed /\ ~h.m[d].bad THEN "answered" ELSE "over")

\* task_notification of a member of a fan-out.
Notified(s, d) ==
    /\ Talks(s) /\ host.side[s].kind = "fan" /\ d \in host.side[s].members /\ RunsOn(s, d)
    /\ \E completed \in {TRUE} \cup (IF Fault("fails") THEN {FALSE} ELSE {}) :
          /\ host' = SettledBy(host, d, completed) /\ UNCHANGED spec
          /\ native' = [native EXCEPT ![d].run = "over"]

\* The dispatcher starts a spare: its call is allowed, its task started.
SpareStarts(s, r) ==
    /\ Talks(s) /\ host.side[s].phase = "turn" /\ Held(host.spare[s][r]) /\ ~host.spare[s][r].used
    /\ Step([host EXCEPT !.spare[s][r].used = TRUE])

\* The spare calls `moment`, which the host holds until its decision comes.
Moment(s, r) ==
    LET h == Deliver([host EXCEPT !.spare[s][r].pending = TRUE], s, r)
    IN /\ Talks(s) /\ host.spare[s][r].used /\ ~host.spare[s][r].pending /\ ~host.spare[s][r].done
       /\ Step(IF h.group # "released" /\ h.spare[s][r].member = Null THEN ReleaseSpent(h) ELSE h)

\* Then its standby turn may end, and spares may be spent or missing.
EndDone(h, s) == IF \A r \in Spares(h, s) : h.spare[s][r].done THEN EndStandbyNow(h, s)
                 ELSE IF h.side[s].retire THEN EndStandby(h, s) ELSE h
SpareOver(h, s) ==
    LET g == EndDone(h, s) IN IF g.group = "released" THEN g ELSE Replenish(ReleaseSpent(g))

\* task_notification of a spare: its decision settles if it had its input, and
\* fans out otherwise.
SpareNotified(s, r) ==
    LET h  == [host EXCEPT !.spare[s][r].done = TRUE]
        d  == h.spare[s][r].member
    IN /\ Talks(s) /\ host.spare[s][r].used /\ ~host.spare[s][r].done
       /\ \/ /\ d # Null /\ Given(h, d)
             /\ \E completed \in {TRUE} \cup (IF Fault("fails") \/ host.side[s].stop THEN {FALSE} ELSE {}) :
                   LET n == [native EXCEPT ![d].run = "over"]
                       g == SpareOver(SettledBy(h, d, completed), s)
                   IN /\ host' = [g EXCEPT !.out = Null] /\ native' = Heard(n, g, Null) /\ UNCHANGED spec
          \/ /\ ~(d # Null /\ Given(h, d))
             /\ Fault("fails") \/ host.spare[s][r].bad \/ host.side[s].stop
             /\ Step(SpareOver(IF d = Null THEN h ELSE Fallback(h, d), s))

\* Every member answered: the dispatcher's wrap-up is interrupted.
Interrupts(s) ==
    LET e == host.side[s]
    IN /\ e.kind = "fan" /\ e.phase = "turn" /\ ~e.stop /\ \A d \in e.listed : ~Pending(host, d)
       /\ Step([host EXCEPT !.side[s].stop = TRUE])

\* The turn's result, on its own or after an interrupt: what it still ran is
\* over, and the conversation is rewound.
TurnResult(s) ==
    LET e       == host.side[s]
        skipped == {d \in e.listed : Pending(host, d) /\ ~host.m[d].used}
        cut     == {d \in e.listed : Pending(host, d) /\ host.m[d].used}
        next    == IF e.alive THEN "rewinding" ELSE "killing"
    IN /\ Talks(s) /\ e.phase = "turn"
       /\ e.stop \/ Fault("ends") \/ (e.kind = "fan" /\ \A d \in Decisions : ~RunsOn(s, d))
       /\ IF e.kind = "fan"
          THEN Ends([SettledAll(host, cut, "over") EXCEPT !.side[s] = [@ EXCEPT !.phase = next, !.members = {},
                                                                               !.chunk = skipped]], s)
          ELSE Ends([ReleaseSpares(host, s) EXCEPT !.side[s].phase = next], s)

\* The interrupt of a standby turn goes unanswered, or a fan-out's turn does not
\* end after the deadlines of its members: the side session is killed.
Unanswered(s) ==
    LET e == host.side[s]
    IN /\ Fault("silent") /\ e.phase = "turn" /\ e.alive
       /\ \/ e.kind = "standby" /\ e.stop /\ Step(Killed(host, s))
          \/ /\ e.kind = "fan" /\ \A d \in e.listed : ~Pending(host, d)
             /\ Step(Killed([host EXCEPT !.side[s] = [@ EXCEPT !.phase = "killing", !.chunk = {}]], s))

\* The answer to the rewind: rewound, or the side session is killed.
Rewound(s) ==
    LET e == host.side[s]
    IN /\ Talks(s) /\ e.phase = "rewinding"
       /\ \/ Step(IF e.kind = "fan" THEN Unfinished(host, s) ELSE StandbyOver(host, s))
          \/ Fault("rewind") /\ Step(Killed([host EXCEPT !.side[s].phase = "killing"], s))

\* A side session exits: after it was killed, or on its own.
Exits(s) ==
    /\ Talks(s) /\ (~host.side[s].alive \/ Fault("exit"))
    /\ Step(Lose(host, s))

\* _kill waits 2 s for the exit: then what the side session held is lost, although its
\* process, and what runs there, may go on.
Adrift(n, s) == [d \in Decisions |-> IF n[d].run = "running" /\ n[d].on = s THEN [n[d] EXCEPT !.run = "adrift"] ELSE n[d]]
GivenUpOn(s) ==
    /\ Fault("silent") /\ Talks(s) /\ ~host.side[s].alive
    /\ host' = Lose(host, s) /\ native' = Heard(Adrift(native, s), Lose(host, s), Null) /\ UNCHANGED spec

\* It is over at last, and nobody hears of it.
Unheard(d) ==
    native[d].run = "adrift" /\ native' = [native EXCEPT ![d].run = "over"] /\ UNCHANGED <<host, spec>>

SubagentsNext ==
    \/ \E d \in Decisions : \/ Decide(d) \/ Reserved(d) \/ ReserveTimer(d) \/ Withdraw(d) \/ StopAnswered(d)
                            \/ Unheard(d)
    \/ BatchTimer \/ Prestart \/ ReleaseGroup \/ Released \/ Close \/ CloseIdle \/ BackoffOver
    \/ \E s \in Sides : \/ Ready(s) \/ FanOut(s) \/ Dispatch(s) \/ Standby(s) \/ Interrupts(s) \/ TurnResult(s)
                        \/ Unanswered(s) \/ Rewound(s) \/ Exits(s) \/ GivenUpOn(s)
                        \/ \E d \in Decisions : \/ FanAdmitted(s, d) \/ Called(s, d) \/ TaskStarted(s, d)
                                                \/ Notified(s, d)
                        \/ \E r \in Roles : \/ Acts(s, r) \/ SpareStarts(s, r) \/ Moment(s, r)
                                            \/ SpareNotified(s, r)

SubagentsSpec == SubagentsInit /\ [][SubagentsNext]_subagentsVars

----------------------------------------------------------------------------
(* Properties                                                               *)

MemberType ==
    [told : {"none", "pending", "answered", "unsent", "overtaken", "over", "stopping"}, spare : Sides \cup {Null},
     input : Text, admitted : BOOLEAN, asking : SUBSET {"spare", "fan"}, asks : Nat, used : BOOLEAN, task : BOOLEAN,
     bad : BOOLEAN, delivered : BOOLEAN, timer : BOOLEAN, stop : Sides \cup {Null}]
SpareType ==
    [ctx : Contexts \cup {Null}, used : BOOLEAN, pending : BOOLEAN, member : Decisions \cup {Null}, bad : BOOLEAN,
     done : BOOLEAN]
SideType ==
    [kind : {"none", "standby", "fan"}, in : BOOLEAN, alive : BOOLEAN, gone : BOOLEAN,
     ready : {"starting", "up", "failed"},
     phase : {"idle", "ready", "admitting", "turn", "rewinding", "killing"}, names : SUBSET Roles,
     retire : BOOLEAN, ending : BOOLEAN, stop : BOOLEAN, chunk : SUBSET Decisions, listed : SUBSET Decisions,
     members : SUBSET Decisions, retry : BOOLEAN]
HostType ==
    [m : [Decisions -> MemberType], side : [Sides -> SideType], spare : [Sides -> [Roles -> SpareType]],
     batch : Seq(Decisions), timer : BOOLEAN, waiting : Seq(SUBSET Decisions), defs : SUBSET Roles,
     desired : [Roles -> Contexts \cup {Null}], asked : Nat, backoff : BOOLEAN,
     out : {Null} \cup Message,
     group : {"live", "releasing", "released"}, ending : SUBSET Sides, closed : BOOLEAN]
SubagentsTypeOK ==
    /\ spec \in Specs /\ host \in HostType /\ host.out = Null
    /\ native \in [Decisions -> [run : {"none", "running", "adrift", "over"}, on : Sides \cup {Null}, got : Text, runs : Nat]]

\* A decision refused as not dispatched never reaches a subagent, but one that left its
\* spare for a fan-out with its first registration still open; and one told to be settled
\* has none running, but on a side session that _kill gave up on.  Reservations, fan-outs,
\* fallbacks, refusals and stops may cross in any order.  (DecisionError's `dispatch` and
\* `settled`; without the two exceptions it does not hold, see NeverSent and NoneRunning.)
ToldTruly ==
    \A d \in Decisions :
        /\ host.m[d].told = "unsent" => native[d].run = "none"
        /\ host.m[d].told = "overtaken" => Wants(d) # Null /\ host.m[d].spare = Null
        /\ host.m[d].told \in {"answered", "over"} => native[d].run # "running"

\* The input of a decision reaches one subagent, once, however often the
\* dispatcher calls and whatever fell back or was sent again; and a spare gets
\* the input of one decision.  ("Each spare serves one decision.")
OncePerDecision ==
    /\ \A d \in Decisions : native[d].runs <= 1
    /\ \A s \in Sides, r \in Roles :
          Cardinality({d \in Decisions : Role(d) = r /\ host.m[d].spare = s /\ RunsOn(s, d)}) <= 1

\* An answer is an answer to the decision's standby context and input, on a
\* spare that held the context or in a fan-out that sent both.
WholeInput == \A d \in Decisions : host.m[d].told = "answered" => native[d].got = Whole(d)

\* A decision that is not over is somewhere something will still take it up: the
\* batch with its timer, a waiting chunk with a side session that will be free or gone, a fan-out, or
\* a spare.  (_fallback, _releaseSpares and _lost move it between them.)
NobodyForgotten ==
    ~host.closed /\ host.group = "live" =>
        \A d \in Decisions : Pending(host, d) =>
            \/ d \in Range(host.batch) /\ host.timer
            \/ /\ d \in UNION Range(host.waiting)
               /\ \E s \in Sides : /\ host.side[s].kind = "fan" /\ ~host.side[s].gone
                                   /\ Busy(host, s) \/ ~host.side[s].alive
            \/ \E s \in Sides :
                 /\ d \in host.side[s].chunk \cup host.side[s].listed
                 /\ host.side[s].phase \in {"ready", "admitting"} \/ (Busy(host, s) /\ ~host.side[s].gone)
            \/ Ours(host, d) /\ ~host.side[host.m[d].spare].gone

\* The five that follow state what comments and the types say; the model shows that they
\* do not hold (README, "Where code and comments disagree").

\* "not-dispatched": no subagent ever got the input.
NeverSent == \A d \in Decisions : host.m[d].told \in {"unsent", "overtaken"} => native[d].run = "none"

\* Settled: the runtime is done with the decision.
NoneRunning ==
    \A d \in Decisions : host.m[d].told \in {"answered", "over"} => native[d].run \notin {"running", "adrift"}

\* A released group keeps no side session: "A group is done (its thread closed):
\* its spares and side sessions stop."
ReleasedStops ==
    host.group = "released" => \A s \in Sides : host.side[s].kind # "none" => host.side[s].gone

\* "Its admission was registered: never registered again, and only then is it sent."
RegisteredOnce == \A d \in Decisions : host.m[d].asks <= 1

\* A standby turn "ends only once nothing it serves is in flight".
NotEndedInUse ==
    \A s \in Sides : host.side[s].kind = "standby" /\ host.side[s].stop =>
        \A r \in Roles : LET d == host.spare[s][r].member IN d # Null => ~(Pending(host, d) /\ Given(host, d))

=============================================================================
