--------------------------- MODULE ClaudeSubagentsInv ---------------------------
(***************************************************************************)
(* The inductive invariant of ClaudeSubagents, GroupInv, and the terms its *)
(* proof speaks of the handlers in.                                        *)
(*                                                                         *)
(* A handler calls others before its step is over (_lost calls _fallback,  *)
(* then _drain, then what awaited the side session), so the invariant has  *)
(* a form that holds between those calls: Right(h, n, e) speaks of any     *)
(* host h and runtime n, with e the side session being lost or whose turn  *)
(* ended, Null between steps.                                              *)
(***************************************************************************)
EXTENDS ClaudeSubagents

\* g folds F over the first n elements of q.
Folds(g, H, F, v, q, n) ==
    /\ g \in [SUBSET (1..n) -> H]
    /\ \A s \in SUBSET (1..n) : g[s] = IF s = {} THEN v ELSE F[g[s \ {Max(s)}]][q[Max(s)]]

\* _drain over the chunks q, from v.
DrainEach(v, q) == FoldLeft(DrainOne, v, q)

\* _replenish over the rounds q.
RoundEach(v, q) == FoldLeft(Round, v, q)

\* _releaseSpent over the side sessions q.
EndEach(v, q) == FoldLeft(EndSpent, v, q)

\* A decision nobody asked for yet, and spares of a side session without a turn.
Blank == [told |-> "none", spare |-> Null, input |-> <<"input">>, admitted |-> FALSE, asking |-> {}, asks |-> 0,
          used |-> FALSE, task |-> FALSE, bad |-> FALSE, delivered |-> FALSE, timer |-> FALSE, stop |-> Null]

\* No spare is held.
Unheld == [r \in Roles |-> NoSpare]

\* What the runtime does with each input.
NativeType ==
    [Decisions -> [run : {"none", "running", "adrift", "over"}, on : Sides \cup {Null}, got : Text, runs : Nat]]

\* What a member says of itself.
MemberRight(h, d) ==
    /\ h.m[d].told = "none" => h.m[d] = Blank
    /\ h.m[d].told = "unsent" => ~h.m[d].used
    /\ h.m[d].told = "overtaken" => h.m[d].spare = Null /\ Wants(d) # Null
    /\ h.m[d].used => h.m[d].admitted
    /\ "spare" \in h.m[d].asking => Wants(d) # Null /\ (h.m[d].admitted => h.m[d].spare = Null)
    /\ h.m[d].delivered <=> h.m[d].used /\ h.m[d].spare # Null
    /\ h.m[d].spare # Null => Wants(d) # Null
    /\ Pending(h, d) => h.m[d].input = IF h.m[d].spare = Null THEN Whole(d) ELSE <<"input">>
    /\ Pending(h, d) /\ h.m[d].spare # Null => Ours(h, d)

\* A spare and the decision reserved on it.
SpareRight(h, s, r) ==
    /\ h.spare[s][r].member # Null =>
         /\ h.m[h.spare[s][r].member].spare = s /\ Role(h.spare[s][r].member) = r
         /\ h.spare[s][r].ctx = Wants(h.spare[s][r].member)
         /\ h.m[h.spare[s][r].member].delivered => h.spare[s][r].pending
    /\ h.spare[s][r].pending => h.spare[s][r].used
    /\ h.side[s].kind # "standby" \/ h.side[s].phase \notin {"ready", "turn"} => h.spare[s][r] = NoSpare
    /\ h.side[s].phase = "ready" => ~h.spare[s][r].used

\* A side session by its kind and phase.
SideRight(h, s) ==
    LET e == h.side[s] IN
    /\ e.kind = "none" => e = NoSide
    /\ e.kind = "standby" => e.phase # "admitting" /\ e.chunk = {} /\ e.listed = {}
    /\ e.phase = "idle" => e.chunk = {}
    /\ e.gone => ~e.alive
    /\ e.kind = "fan" =>
         /\ e.phase = "ready" => e.listed = {}
         /\ e.phase \in {"admitting", "turn"} => e.listed \subseteq e.chunk
         /\ e.phase = "turn" => e.members = e.listed
         /\ e.phase \notin {"turn", "killing"} => e.members = {}

\* d among the members of side session s.
HeldRight(h, s, d) ==
    LET e == h.side[s] IN
    /\ d \in e.members => /\ h.m[d].spare = IF e.kind = "fan" THEN Null ELSE s
                          /\ h.m[d].told # "none"
                          /\ e.kind = "fan" /\ e.phase = "killing" => ~Pending(h, d)
    /\ d \in e.listed /\ e.phase \in {"admitting", "turn"} => h.m[d].admitted
    /\ d \in e.chunk => /\ h.m[d].told # "none" /\ h.m[d].spare = Null
                        /\ e.phase # "turn" => ~h.m[d].used
                        /\ e.retry \/ e.phase \in {"rewinding", "killing"} => h.m[d].admitted

\* d is in the batch.
Batched(h, d) == \E i \in 1..Len(h.batch) : h.batch[i] = d

\* d is in a chunk that waits.
Waits(h, d)   == \E i \in 1..Len(h.waiting) : d \in h.waiting[i]

\* A decision is in one place at most.
ApartOn(h, d) ==
    /\ \A s, t \in Sides : d \in h.side[s].chunk /\ d \in h.side[t].chunk => s = t
    /\ \A i, j \in 1..Len(h.waiting) : d \in h.waiting[i] /\ d \in h.waiting[j] => i = j
    /\ \A i, j \in 1..Len(h.batch) : h.batch[i] = d /\ h.batch[j] = d => i = j
    /\ Waits(h, d) => ~Batched(h, d)
    /\ \A s \in Sides : d \in h.side[s].chunk => ~Waits(h, d) /\ ~Batched(h, d)
    /\ Waits(h, d) \/ Batched(h, d) => h.m[d].told # "none" /\ h.m[d].spare = Null /\ ~h.m[d].used

\* The group lives.
Open(h) == ~h.closed /\ h.group = "live"

\* A decision asked has a place where something takes it up; e is the side session that
\* is being lost, Null if none is.
KeptOn(h, e, d) ==
    Pending(h, d) =>
        /\ h.m[d].spare = Null => Batched(h, d) \/ Waits(h, d) \/ \E s \in Sides : d \in h.side[s].chunk
        /\ \A s \in Sides :
              /\ d \in h.side[s].chunk =>
                    /\ h.side[s].phase = "turn" => d \in h.side[s].listed
                    /\ h.side[s].phase = "admitting" => d \in h.side[s].listed \/ "fan" \in h.m[d].asking
                    /\ h.side[s].gone => s = e \/ h.side[s].phase \in {"ready", "admitting"}
              /\ h.m[d].spare = s /\ h.side[s].gone => s = e
              /\ h.m[d].spare = s /\ h.m[d].admitted => d \in h.side[s].members

\* Each decision has, in a group that lives.
Kept(h, e) ==
    Open(h) => /\ h.batch # <<>> => h.timer
               /\ \A d \in Decisions : KeptOn(h, e, d)
               /\ \A s \in Sides : h.side[s].in /\ h.side[s].gone => s = e

\* A side session that takes up what waits, once it is free or gone.
Serves(h, s) == h.side[s].kind = "fan" /\ ~h.side[s].gone /\ (Busy(h, s) \/ ~h.side[s].alive)

\* What waits is served.
Served(h)    == Open(h) /\ h.waiting # <<>> => \E s \in Sides : Serves(h, s)

\* d runs, once the side sessions that are gone and the turn of e that ends are over.
Runs(h, n, e, d) == n[d].run = "running" /\ n[d].on # e /\ ~h.side[n[d].on].gone

\* The runtime and the host agree on d.
AgreeOn(h, n, e, d) ==
    /\ n[d].runs = IF h.m[d].used THEN 1 ELSE 0
    /\ n[d].run = "none" <=> ~h.m[d].used
    /\ n[d].run = "none" <=> n[d].on = Null
    /\ h.m[d].told \in {"answered", "over"} => ~Runs(h, n, e, d)
    /\ h.m[d].used /\ h.m[d].spare # Null => n[d].on = h.m[d].spare
    /\ Runs(h, n, e, d) /\ h.m[d].spare # Null => Ours(h, d)
    /\ h.m[d].used /\ (~h.m[d].bad \/ ~h.m[d].task) => n[d].got = Whole(d)
    /\ h.m[d].told = "answered" => n[d].got = Whole(d)
    /\ \A s \in Sides : h.m[d].used /\ d \in h.side[s].members => n[d].on = s

\* All have their types.
Typed(h, n, e) ==
    /\ h \in HostType /\ h.out = Null /\ n \in NativeType /\ e \in Sides \cup {Null} /\ spec \in Specs

\* The parts of the invariant that each handler keeps, call by call.
Right(h, n, e) ==
    /\ Typed(h, n, e)
    /\ \A d \in Decisions : MemberRight(h, d) /\ ApartOn(h, d) /\ AgreeOn(h, n, e, d)
    /\ \A s \in Sides, r \in Roles : SpareRight(h, s, r)
    /\ \A s \in Sides : SideRight(h, s)
    /\ \A s \in Sides, d \in Decisions : HeldRight(h, s, d)
    /\ Kept(h, e)

\* A side session that changes its flags at most.
SameSide(h, g, s) ==
    /\ g.side[s].kind = h.side[s].kind /\ g.side[s].phase = h.side[s].phase /\ g.side[s].gone = h.side[s].gone
    /\ g.side[s].chunk = h.side[s].chunk /\ g.side[s].listed = h.side[s].listed
    /\ g.side[s].members = h.side[s].members /\ g.side[s].retry = h.side[s].retry
    /\ g.side[s].alive => h.side[s].alive
    /\ g.side[s].in => h.side[s].in
    /\ h.side[s].kind = "none" => g.side[s] = h.side[s]
    /\ g.spare[s] = h.spare[s]

\* One that starts a standby turn.
StartsStandby(h, g, s) ==
    /\ h.side[s].kind \in {"none", "standby"} /\ h.side[s].phase = "idle"
    /\ g.side[s].kind = "standby" /\ g.side[s].phase = "ready" /\ g.side[s].gone = h.side[s].gone
    /\ g.side[s].gone = FALSE
    /\ g.side[s].chunk = {} /\ g.side[s].listed = {} /\ g.side[s].members = h.side[s].members
    /\ \A r \in Roles : ~g.spare[s][r].used /\ ~g.spare[s][r].pending /\ g.spare[s][r].member = Null

\* A member that changes nothing the invariant asks of it, but that it may be admitted.
SameMember(x, y) ==
    /\ y.told = x.told /\ y.spare = x.spare /\ y.input = x.input /\ (x.admitted => y.admitted)
    /\ y.used = x.used /\ y.delivered = x.delivered
    /\ x.told = "none" => y = x
    /\ "spare" \in y.asking => "spare" \in x.asking /\ (y.admitted => x.admitted \/ x.spare = Null)
    /\ ~y.bad \/ ~y.task => ~x.bad \/ ~x.task

\* A step that leaves the places of the decisions alone.
Aside(h, g) ==
    /\ g \in HostType /\ g.out = Null
    /\ g.batch = h.batch /\ g.waiting = h.waiting /\ g.timer = h.timer
    /\ Open(g) => Open(h)
    /\ \A d \in Decisions :
          /\ SameMember(h.m[d], g.m[d])
          /\ g.m[d].admitted /\ ~h.m[d].admitted => \A s \in Sides : h.m[d].spare = s => d \in h.side[s].members
          /\ Pending(h, d) /\ "fan" \in h.m[d].asking /\ "fan" \notin g.m[d].asking =>
                \A s \in Sides : d \in h.side[s].chunk /\ h.side[s].phase = "admitting" => d \in h.side[s].listed
    /\ \A s \in Sides : SameSide(h, g, s) \/ StartsStandby(h, g, s)

\* How a decision ends.
Ended == {"answered", "unsent", "overtaken", "over", "stopping"}

\* What settling, flags and the like leave alone.
SameRest(h, g) ==
    /\ g.batch = h.batch /\ g.waiting = h.waiting /\ g.timer = h.timer /\ g.out = h.out
    /\ g.group = h.group /\ g.closed = h.closed /\ g.defs = h.defs /\ g.desired = h.desired
    /\ g.asked = h.asked /\ g.backoff = h.backoff /\ g.ending = h.ending

\* g differs from h in side session s and its spares, and in the chunk that s takes up.
OneSide(h, g, s) ==
    /\ g \in HostType /\ g.out = Null
    /\ g.m = h.m /\ g.batch = h.batch /\ g.timer = h.timer
    /\ Open(g) => Open(h)
    /\ g.waiting = h.waiting \/ (h.waiting # <<>> /\ g.waiting = Tail(h.waiting))
    /\ \A t \in Sides : t = s \/ (g.side[t] = h.side[t] /\ g.spare[t] = h.spare[t])
    /\ h.side[s].gone => g.side[s].gone

\* What it does to d is right.
OneFor(h, g, n, e, s, d) ==
    /\ HeldRight(g, s, d)
    /\ d \in g.side[s].members /\ h.m[d].used => n[d].on = s \/ d \in h.side[s].members
    /\ Ours(h, d) /\ h.m[d].spare = s /\ (Pending(h, d) \/ Runs(h, n, e, d)) => Ours(g, d) \/ ~(Pending(h, d) \/ Runs(g, n, e, d))
    /\ d \in g.side[s].chunk => d \in h.side[s].chunk \/ (Waits(h, d) /\ ~Waits(g, d))
    /\ Open(g) /\ Pending(h, d) =>
          /\ d \in h.side[s].chunk => d \in g.side[s].chunk
          /\ Waits(h, d) => Waits(g, d) \/ d \in g.side[s].chunk
          /\ d \in g.side[s].chunk =>
                /\ g.side[s].phase = "turn" => d \in g.side[s].listed
                /\ g.side[s].phase = "admitting" => d \in g.side[s].listed \/ "fan" \in h.m[d].asking
                /\ g.side[s].gone => s = e \/ g.side[s].phase \in {"ready", "admitting"}
          /\ h.m[d].spare = s /\ g.side[s].gone => s = e
          /\ h.m[d].spare = s /\ h.m[d].admitted => d \in g.side[s].members

\* Only flags of side sessions change.
Flags(h, g) ==
    /\ g \in HostType /\ g.m = h.m /\ g.spare = h.spare /\ SameRest(h, g)
    /\ \A s \in Sides : SameSide(h, g, s) /\ g.side[s].ready = h.side[s].ready

\* Nothing changes but side sessions that start a standby turn.
Starts(h, g) ==
    /\ g \in HostType /\ g.m = h.m
    /\ g.batch = h.batch /\ g.waiting = h.waiting /\ g.timer = h.timer /\ g.out = h.out
    /\ g.group = h.group /\ g.closed = h.closed
    /\ \A s \in Sides : (g.side[s] = h.side[s] /\ g.spare[s] = h.spare[s]) \/ StartsStandby(h, g, s)

\* The spares of a standby turn for the roles rs.
StandbySpares(g, rs) == [r \in Roles |-> IF r \in rs THEN [NoSpare EXCEPT !.ctx = g.desired[r]] ELSE NoSpare]

\* Spares whose turn has not begun.
Unstarted(sp) == sp \in [Roles -> SpareType] /\ \A r \in Roles : ~sp[r].used /\ ~sp[r].pending /\ sp[r].member = Null

\* Those asked of the first chunk.
HeadPending(h) == {d \in Head(h.waiting) : Pending(h, d)}

\* What draining leaves alone.
Drains(h, g) ==
    /\ g \in HostType /\ g.batch = h.batch /\ g.timer = h.timer /\ g.spare = h.spare
    /\ g.group = h.group /\ g.closed = h.closed
    /\ \A d \in Decisions : g.m[d] = h.m[d] \/ (Pending(h, d) /\ ~Pending(g, d))
    /\ \A s \in Sides : /\ h.side[s].kind # "none" /\ ~h.side[s].in => g.side[s] = h.side[s]
                        /\ h.side[s].gone => g.side[s].gone

\* The side session that is lost left the group before.
LeftGroup(h, e) == Open(h) => e = Null \/ (h.side[e].kind # "none" /\ ~h.side[e].in)

\* How far _drain came, from h to a.
DrainedTo(h, n, e, a) ==
    /\ a \in [h : HostType, go : BOOLEAN]
    /\ Right(a.h, n, e) /\ Drains(h, a.h)
    /\ ~a.go /\ Open(a.h) => \E s \in Sides : Serves(a.h, s)

\* What a fan-out does to its side session.
FanStep(h, e, s, x) ==
    /\ x \in SideType /\ h.side[s].kind = "fan" /\ x.kind = "fan"
    /\ x.gone => ~x.alive
    /\ h.side[s].gone => x.gone
    /\ Open(h) /\ x.in /\ x.gone => s = e
    /\ x.chunk \subseteq h.side[s].chunk
    /\ x.phase = "idle" => x.chunk = {}
    /\ x.phase = "ready" => x.listed = {}
    /\ x.phase \in {"admitting", "turn"} => x.listed \subseteq x.chunk
    /\ x.phase = "turn" => x.members = x.listed
    /\ x.phase \notin {"turn", "killing"} => x.members = {}

\* A fan-out session s becomes x: what it is to be right about d.
FanStepOn(h, e, s, x, d) ==
    /\ d \in x.members => h.m[d].spare = Null /\ h.m[d].told # "none" /\ (h.m[d].used => d \in h.side[s].members)
    /\ d \in x.members /\ x.phase = "killing" => ~Pending(h, d)
    /\ d \in x.listed /\ x.phase \in {"admitting", "turn"} => h.m[d].admitted
    /\ d \in x.chunk => /\ x.phase # "turn" => ~h.m[d].used
                        /\ x.retry \/ x.phase \in {"rewinding", "killing"} => h.m[d].admitted
    /\ Open(h) /\ Pending(h, d) /\ d \in h.side[s].chunk =>
          /\ d \in x.chunk
          /\ x.phase = "turn" => d \in x.listed
          /\ x.phase = "admitting" => d \in x.listed \/ "fan" \in h.m[d].asking
          /\ x.gone => s = e \/ x.phase \in {"ready", "admitting"}

\* What a standby turn does to its side session, whose spares are then sp.
StandbyStep(h, e, s, x, sp) ==
    /\ x \in SideType /\ h.side[s].kind = "standby" /\ x.kind = "standby" /\ sp \in [Roles -> SpareType]
    /\ x.chunk = {} /\ x.listed = {} /\ x.phase # "admitting"
    /\ x.gone => ~x.alive
    /\ h.side[s].gone => x.gone
    /\ Open(h) /\ x.in /\ x.gone => s = e
    /\ sp = h.spare[s] \/ sp = Unheld
    /\ x.phase \notin {"ready", "turn"} => sp = Unheld
    /\ x.phase = "ready" => \A r \in Roles : ~sp[r].used

\* A standby session s becomes x with the spares sp: what it is to be right about d.
StandbyStepOn(h, n, e, s, x, sp, d) ==
    /\ d \in x.members => h.m[d].spare = s
    /\ h.m[d].spare = s /\ sp # h.spare[s] => ~Pending(h, d) /\ ~(Runs(h, n, e, d) /\ ~x.gone)
    /\ Open(h) /\ Pending(h, d) /\ h.m[d].spare = s => /\ x.gone => s = e
                                                       /\ h.m[d].admitted => d \in x.members

\* What falling back leaves alone.
Fell(h, g, ds) ==
    /\ g \in HostType /\ g.waiting = h.waiting /\ g.out = h.out /\ g.group = h.group /\ g.closed = h.closed
    /\ \A s \in Sides :
          /\ g.side[s].kind = h.side[s].kind /\ g.side[s].in = h.side[s].in /\ g.side[s].alive = h.side[s].alive
          /\ g.side[s].gone = h.side[s].gone /\ g.side[s].ready = h.side[s].ready
          /\ g.side[s].phase = h.side[s].phase /\ g.side[s].chunk = h.side[s].chunk
          /\ g.side[s].listed = h.side[s].listed /\ g.side[s].retry = h.side[s].retry
          /\ g.side[s].members \subseteq h.side[s].members
          /\ \A d \in h.side[s].members : d \in g.side[s].members \/ (g.m[d].spare = Null /\ h.side[s].kind # "fan")
    /\ \A d \in Decisions :
          /\ g.m[d].told = h.m[d].told /\ g.m[d].used = h.m[d].used /\ g.m[d].delivered = h.m[d].delivered
          /\ g.m[d].admitted = h.m[d].admitted
          /\ g.m[d].spare \in {h.m[d].spare, Null}
          /\ d \in ds /\ Pending(h, d) /\ ~h.m[d].delivered => g.m[d].spare = Null

\* What settling does, and leaves alone.
Told(h, g, ds, what) ==
    /\ g \in HostType /\ g.side = h.side /\ g.spare = h.spare /\ SameRest(h, g)
    /\ \A d \in Decisions :
          /\ g.m[d].told = IF d \in ds /\ Pending(h, d) THEN what ELSE h.m[d].told
          /\ g.m[d].used = h.m[d].used /\ g.m[d].spare = h.m[d].spare
          /\ g.m[d].delivered = h.m[d].delivered
          /\ g.m[d].admitted = h.m[d].admitted /\ g.m[d].asking = h.m[d].asking
          /\ ~Pending(h, d) => g.m[d] = h.m[d]
          /\ Pending(g, d) <=> Pending(h, d) /\ d \notin ds

\* The decisions on the spares of a side session.
OnSpares(h, s) == {h.spare[s][r].member : r \in Spares(h, s)} \ {Null}

\* A side session without spares, which no decision waits for.
Freed(h, k, s) ==
    /\ k.spare[s] = Unheld /\ k.group = h.group /\ k.closed = h.closed /\ k.waiting = h.waiting
    /\ k.side[s].kind = h.side[s].kind /\ k.side[s].phase = h.side[s].phase /\ k.side[s].gone = h.side[s].gone
    /\ k.side[s].in = h.side[s].in /\ k.side[s].alive = h.side[s].alive
    /\ k.side[s].members = {}
    /\ \A d \in Decisions : k.m[d].spare = s => ~Pending(k, d)

\* The end of a standby turn whose spares are gone.
Rested(h, k, s) ==
    /\ k.group = h.group /\ k.closed = h.closed /\ k.m = h.m
    /\ h.side[s].gone => k.side[s].gone /\ k.side[s].in = h.side[s].in /\ k.side[s].chunk = {}

\* What it leaves of a side session that is gone, and of the decisions there.
Parted(h, k, s) ==
    /\ k.group = h.group /\ k.closed = h.closed
    /\ \A d \in Decisions : Pending(k, d) /\ k.m[d].spare = s => Pending(h, d) /\ h.m[d].spare = s
    /\ h.side[s].gone => k.side[s].gone
    /\ h.side[s].gone /\ ~h.side[s].in =>
          /\ ~k.side[s].in
          /\ Open(k) => \A d \in k.side[s].chunk : Pending(k, d) => k.side[s].phase \in {"ready", "admitting"}

\* Its tasks need no stop any more.
Unstopped(h, s) == [h EXCEPT !.m = [d \in Decisions |-> [h.m[d] EXCEPT !.stop = IF @ = s THEN Null ELSE @]]]

\* What _lost does first, in one change of the state.
Off(h, s) == [h EXCEPT !.side[s] = [@ EXCEPT !.gone = TRUE, !.alive = FALSE],
                       !.m = [d \in Decisions |-> [h.m[d] EXCEPT !.stop = IF @ = s THEN Null ELSE @]]]

\* A side session that exited.
Dead(e) == [e EXCEPT !.gone = TRUE, !.alive = FALSE]

\* Side session s becomes x.
Put(h, s, x) == [h EXCEPT !.side[s] = x]

\* What is left of the decisions of a side session that is gone.
Orphaned(h, g, s) ==
    /\ g.group = h.group /\ g.closed = h.closed
    /\ g.side[s].kind = h.side[s].kind /\ g.side[s].gone
    /\ Open(g) => /\ g.side[s].kind = "fan" /\ g.side[s].phase = "turn" => \A d \in g.side[s].chunk : ~Pending(g, d)
                  /\ \A d \in Decisions : Pending(g, d) => g.m[d].spare # s

\* What an exit leaves alone.
TurnedOff(h, g, s) ==
    /\ g.spare = h.spare /\ SameRest(h, g)
    /\ g.side[s].kind = h.side[s].kind /\ g.side[s].gone /\ ~g.side[s].alive
    /\ \A d \in Decisions : g.m[d].used = h.m[d].used

\* What runs, runs on a side session that is there.
Rest(h, n) == \A d \in Decisions : n[d].run = "running" => ~h.side[n[d].on].gone

\* The invariant.
GroupInv == Right(host, native, Null) /\ Served(host) /\ Rest(host, native)

\* The input of a decision is written: y is the decision from then on.
Sends(h, s, d, y) ==
    /\ y \in MemberType
    /\ y.told = h.m[d].told /\ y.spare = h.m[d].spare /\ y.input = h.m[d].input /\ y.admitted = h.m[d].admitted
    /\ y.asking = h.m[d].asking /\ y.used /\ (y.delivered <=> y.spare # Null)
    /\ Pending(h, d) /\ ~h.m[d].used /\ h.m[d].admitted
    /\ ~Waits(h, d) /\ ~Batched(h, d)
    /\ h.m[d].spare \in {s, Null}
    /\ h.m[d].spare = s => h.spare[s][Role(d)].pending
    /\ \A t \in Sides : d \in h.side[t].members => t = s
    /\ \A t \in Sides : d \in h.side[t].chunk => h.side[t].phase = "turn"

\* The runtime m once the input of d is on s.
HeardOn(n, m, s, d) ==
    /\ m \in NativeType
    /\ m[d].run = "running" /\ m[d].on = s /\ m[d].got = Whole(d) /\ m[d].runs = n[d].runs + 1
    /\ \A c \in Decisions : c = d \/ m[c] = n[c]

\* Writing and hearing are one.
Wrote(h, g, n, m) == [h EXCEPT !.out = Null] = g /\ Heard(n, h, Null) = Heard(m, g, Null)

\* Those in the batch and in the chunks that wait.
Waiters(h) == Range(h.batch) \cup UNION Range(h.waiting)

\* Its registration for a fan-out is asked for.
Asks(x) == [x EXCEPT !.asking = @ \cup {"fan"}, !.asks = @ + 1]

\* A side session as its turn leaves it.
Turned(e, next, rest) == [e EXCEPT !.phase = next, !.members = {}, !.chunk = rest]

\* Those the result of a fan-out cut off.
Cut(s)     == {d \in host.side[s].listed : Pending(host, d) /\ host.m[d].used}

\* Those it skipped.
Skipped(s) == {d \in host.side[s].listed : Pending(host, d) /\ ~host.m[d].used}

\* A standby turn goes on without spares.
Rephased(e, next) == [e EXCEPT !.phase = next]

\* Where in the batch those asked are.
At(h)       == {j \in 1..Len(h.batch) : Pending(h, h.batch[j])}

\* The size of a chunk.
Size(h)     == Up(Cardinality(At(h)), Up(Cardinality(At(h)), MaxMembers))

\* The chunk of a place in the batch.
Place(h, j) == Up(Cardinality({k \in At(h) : k <= j}), Size(h))

\* The chunks.
Chunks(h)   == [i \in 1..Up(Cardinality(At(h)), Size(h)) |-> {h.batch[j] : j \in {k \in At(h) : Place(h, k) = i}}]

\* What a chunk of the batch may hold.
Spread(h, w) ==
    /\ w \in Seq(SUBSET Decisions)
    /\ \A i \in 1..Len(w) : \A d \in w[i] : Batched(h, d)
    /\ \A i, j \in 1..Len(w) : \A d \in w[i] : d \in w[j] => i = j
    /\ \A d \in Decisions : Pending(h, d) /\ Batched(h, d) => \E i \in 1..Len(w) : d \in w[i]

\* A change of one decision, and nothing else.
With(h, d, y) == [h EXCEPT !.m[d] = y]

\* A registration is over.
Unasked(x, w) == [x EXCEPT !.asking = @ \ {w}]

\* The decision is told of its end.
Says(x, what) == [x EXCEPT !.told = what]

\* A registration is granted.
Granted(x) == [x EXCEPT !.admitted = TRUE]

\* A member whose registration was granted is listed.
Listed(e, d) == [e EXCEPT !.listed = @ \cup {d}]

\* A subagent is over.
Over(n, d) == [n EXCEPT ![d].run = "over"]

\* A subagent is seen to start with its prompt, or with another.
Started(x, same) == [x EXCEPT !.task = TRUE, !.bad = ~same]

\* A subagent that was given something else.
Heeds(n, d)      == [n EXCEPT ![d].got = <<"other">>]

\* A change of one spare, and nothing else.
Spared(h, s, r, y) == [h EXCEPT !.spare[s][r] = y]

\* What a spare has done says nothing of whom it serves.
SameSpare(x, y) ==
    /\ y \in SpareType /\ y.ctx = x.ctx /\ y.member = x.member
    /\ x.pending => y.pending
    /\ y.pending => y.used

\* Spares, one call later.
Does(x)   == [x EXCEPT !.used = TRUE]
Spoilt(x) == [x EXCEPT !.bad = TRUE]
Asking(x) == [x EXCEPT !.pending = TRUE]
Done(x)   == [x EXCEPT !.done = TRUE]

\* A member once its input is written.
Handed(x) == [x EXCEPT !.delivered = TRUE, !.used = TRUE, !.task = TRUE]

\* A decision is delivered to its spare only if it was registered and not yet sent.
Deliverable(h, s, r, d) ==
    d # Null /\ h.spare[s][r].member = d /\ Pending(h, d) /\ h.spare[s][r].pending /\ ~h.m[d].delivered /\ h.m[d].admitted

\* The host then.
WithOut(h, d, y, o, k) == k = [h EXCEPT !.m[d] = y, !.out = o]

\* The end of a spare that had an input.
GivenOver(h, d, s, completed) ==
    /\ host' = [SpareOver(SettledBy(h, d, completed), s) EXCEPT !.out = Null]
    /\ native' = Heard(Over(native, d), SpareOver(SettledBy(h, d, completed), s), Null) /\ UNCHANGED spec

\* A decision that nobody asked for yet is nowhere.
Nowhere(h, n, d) ==
    /\ h.m[d] = Blank /\ ~Waits(h, d) /\ ~Batched(h, d) /\ n[d].run = "none" /\ n[d].runs = 0 /\ n[d].on = Null
    /\ \A s \in Sides : /\ d \notin h.side[s].chunk /\ d \notin h.side[s].members
                        /\ h.side[s].phase \in {"admitting", "turn"} => d \notin h.side[s].listed
    /\ \A s \in Sides, r \in Roles : h.spare[s][r].member # d

\* What a decision is told or given at first, when it is not reserved.
Asked(h, g, d, y) ==
    /\ y \in MemberType /\ ~y.used /\ ~y.delivered /\ ~y.admitted /\ y.asking = {} /\ y.spare = Null /\ y.told \in {"unsent", "pending"}
    /\ g \in HostType /\ g.out = Null /\ g.m = [h.m EXCEPT ![d] = y]
    /\ g.side = h.side /\ g.spare = h.spare /\ g.waiting = h.waiting /\ g.group = h.group /\ g.closed = h.closed
    /\ y.told = "unsent" => g.batch = h.batch /\ g.timer = h.timer
    /\ y.told = "pending" => g.batch = Append(h.batch, d) /\ g.timer /\ y.input = Whole(d)

\* A decision reserved on a spare that is free.
ReservedOn(h, g, d, y, s) ==
    /\ y \in MemberType /\ ~y.used /\ ~y.delivered /\ ~y.admitted /\ y.spare = s /\ y.told = "pending"
    /\ y.input = <<"input">>
    /\ g \in HostType /\ g.out = Null /\ g.m = [h.m EXCEPT ![d] = y]
    /\ g.side = h.side /\ g.waiting = h.waiting /\ g.group = h.group /\ g.closed = h.closed
    /\ g.batch = h.batch /\ g.timer = h.timer
    /\ \A t \in Sides, r \in Roles : g.spare[t][r] =
          IF t = s /\ r = Role(d) THEN [h.spare[t][r] EXCEPT !.member = d] ELSE h.spare[t][r]
    /\ h.side[s].alive /\ FreeSpare(h.spare[s][Role(d)]) /\ h.spare[s][Role(d)].ctx = Wants(d)

\* The host once d is asked.
Pends(h, d) == [h EXCEPT !.m[d].told = "pending", !.defs = @ \cup {Role(d)}]

\* Its member, on a spare.
ReservedMember(s) == [Blank EXCEPT !.told = "pending", !.spare = s, !.asking = {"spare"}, !.asks = 1]

\* Members and spares change.
Moved(p, m, w, g) == g = [p EXCEPT !.m = m, !.spare = w]

\* decide() on a spare.
Reserving(p, d, s, g) ==
    g = [p EXCEPT !.m[d].spare = s, !.spare[s][Role(d)].member = d, !.m[d].asking = {"spare"}, !.m[d].asks = 1]

\* Its member, in the batch.
QueuedMember(d) == [Blank EXCEPT !.told = "pending", !.input = Whole(d)]

\* Its whole input.
Inputs(p, d) == [p EXCEPT !.m[d].input = Whole(d)]

\* Its place in the batch.
Queue(k, d)  == [k EXCEPT !.batch = Append(@, d), !.timer = TRUE]

\* A side session with one member more.
Joined(e, d) == [e EXCEPT !.members = @ \cup {d}]

\* With one less.
Leaves(e, d) == [e EXCEPT !.members = @ \ {d}]

\* After one decision fell back.
SpareAfter(h, d, s, r) ==
    LET c == h.spare[s][r].member
    IN IF c \in {d} /\ h.m[c].spare = s /\ Role(c) = r THEN [h.spare[s][r] EXCEPT !.member = Null] ELSE h.spare[s][r]
SideAfter(h, d, s) == [h.side[s] EXCEPT !.members = @ \ {c \in {d} : h.m[c].spare = s}]
MemberAfter(h, d)  == [h.m[d] EXCEPT !.spare = Null, !.input = Rejoined(h, d)]
BatchAfter(h, d)   == IF h.group = "released" THEN h.batch ELSE h.batch \o SetToSeq({d})
TimerAfter(h)      == h.group # "released" \/ h.timer

\* The spares once they forgot d.
Forgotten(h, d) ==
    [s \in Sides |-> [r \in Roles |->
        IF h.spare[s][r].member \in {d} /\ h.m[h.spare[s][r].member].spare = s /\ Role(h.spare[s][r].member) = r
        THEN [h.spare[s][r] EXCEPT !.member = Null] ELSE h.spare[s][r]]]

\* Other spares.
Respared(h, w) == [h EXCEPT !.spare = w]

\* The wait for its spare is timed.
Timed(x) == [x EXCEPT !.timer = TRUE]

\* What a decision that was reserved leaves when it is withdrawn.
GivesBack(h, d, s, k) == k = [h EXCEPT !.spare[s][Role(d)].member = Null, !.side[s].members = @ \ {d}]

\* A spare without its decision.
SpareForgets(x) == [x EXCEPT !.member = Null]

\* A member whose subagent is being stopped on s.
Stopping(x, s) == [x EXCEPT !.stop = s]
================================================================================
