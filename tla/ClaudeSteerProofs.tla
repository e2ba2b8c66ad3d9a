-------------------------- MODULE ClaudeSteerProofs --------------------------
(***************************************************************************)
(* Proofs about ClaudeSteer, for any turns, steers and events: types, the  *)
(* refinement of TurnOwnership, and what steering must get right.          *)
(***************************************************************************)
EXTENDS ClaudeSteer, FiniteSetTheorems, TLAPS

----------------------------------------------------------------------------
(* Sequences                                                                *)

LEMMA Widened == ASSUME NEW S, NEW T, S \subseteq T, NEW q \in Seq(S) PROVE q \in Seq(T)
  OBVIOUS

LEMMA Single == ASSUME NEW S, NEW x \in S PROVE <<x>> \in Seq(S) /\ Len(<<x>>) = 1 /\ <<x>>[1] = x
  OBVIOUS

LEMMA Pair ==
    ASSUME NEW S, NEW x \in S, NEW y \in S
    PROVE  <<x, y>> \in Seq(S) /\ Len(<<x, y>>) = 2 /\ <<x, y>>[1] = x /\ <<x, y>>[2] = y
  OBVIOUS

LEMMA Empty == ASSUME NEW S PROVE <<>> \in Seq(S) /\ Len(<<>>) = 0
  OBVIOUS

LEMMA Popped ==
    ASSUME NEW S, NEW q \in Seq(S), q # <<>>
    PROVE  /\ Tail(q) \in Seq(S) /\ Len(q) \in Nat /\ Len(Tail(q)) = Len(q) - 1
           /\ Head(q) = q[1] /\ 1 \in 1..Len(q) /\ Head(q) \in S
           /\ \A i \in 1..Len(Tail(q)) : Tail(q)[i] = q[i + 1] /\ i + 1 \in 1..Len(q)
  OBVIOUS

LEMMA Joined ==
    ASSUME NEW S, NEW q \in Seq(S), NEW w \in Seq(S)
    PROVE  /\ q \o w \in Seq(S) /\ Len(q) \in Nat /\ Len(w) \in Nat /\ Len(q \o w) = Len(q) + Len(w)
           /\ \A i \in 1..Len(q) : (q \o w)[i] = q[i]
           /\ \A i \in 1..Len(w) : (q \o w)[Len(q) + i] = w[i]
           /\ \A i \in 1..Len(q \o w) : i \notin 1..Len(q) => i - Len(q) \in 1..Len(w)
  OBVIOUS

LEMMA Added ==
    ASSUME NEW S, NEW q \in Seq(S), NEW x \in S
    PROVE  /\ Append(q, x) \in Seq(S) /\ Append(q, x) = q \o <<x>> /\ Len(q) \in Nat
           /\ Len(Append(q, x)) = Len(q) + 1 /\ Append(q, x)[Len(q) + 1] = x
           /\ \A i \in 1..Len(q) : Append(q, x)[i] = q[i]
  OBVIOUS

LEMMA Removed ==
    ASSUME NEW S, NEW q \in Seq(S), NEW k \in 1..Len(q)
    PROVE  /\ RemoveAt(q, k) \in Seq(S) /\ Len(q) \in Nat /\ Len(RemoveAt(q, k)) = Len(q) - 1
           /\ \A i \in 1..Len(RemoveAt(q, k)) :
                RemoveAt(q, k)[i] = IF i < k THEN q[i] ELSE q[i + 1]
<1>. DEFINE n == Len(q)
            a == SubSeq(q, 1, k - 1)
            b == SubSeq(q, k + 1, n)
<1>1. n \in Nat /\ k \in Nat /\ 1 <= k /\ k <= n
  OBVIOUS
<1>2. a \in Seq(S) /\ Len(a) = k - 1 /\ \A i \in 1..(k - 1) : a[i] = q[i]
  BY <1>1
<1>3. b \in Seq(S) /\ Len(b) = n - k /\ \A i \in 1..(n - k) : b[i] = q[k + i]
  BY <1>1
<1>. HIDE DEF a, b
<1>4. /\ a \o b \in Seq(S) /\ Len(a \o b) = n - 1
      /\ \A i \in 1..(n - 1) : (a \o b)[i] = IF i < k THEN a[i] ELSE b[i - (k - 1)]
  BY <1>1, <1>2, <1>3
<1>5. \A i \in 1..(n - 1) : (a \o b)[i] = IF i < k THEN q[i] ELSE q[i + 1]
  <2>. SUFFICES ASSUME NEW i \in 1..(n - 1) PROVE (a \o b)[i] = IF i < k THEN q[i] ELSE q[i + 1]
    OBVIOUS
  <2>1. CASE i < k
    BY <1>1, <1>2, <1>4, <2>1
  <2>2. CASE ~(i < k)
    <3>1. i - (k - 1) \in 1..(n - k) /\ k + (i - (k - 1)) = i + 1
      BY <1>1, <2>2
    <3>. QED
      BY <1>3, <1>4, <2>2, <3>1
  <2>. QED
    BY <2>1, <2>2
<1>6. RemoveAt(q, k) = a \o b
  BY DEF RemoveAt, a, b
<1>. QED
  BY <1>1, <1>4, <1>5, <1>6

\* A finite set in some order.
LEMMA Listed ==
    ASSUME NEW S, IsFiniteSet(S)
    PROVE  /\ SetToSeq(S) \in Seq(S)
           /\ \A i, j \in 1..Len(SetToSeq(S)) : SetToSeq(S)[i] = SetToSeq(S)[j] => i = j
<1>. DEFINE n == Cardinality(S)
<1>1. n \in Nat /\ \E f : f \in [1..n -> S] /\ IsInjective(f)
  <2>1. n \in Nat /\ ExistsBijection(1..n, S)
    BY FS_CardinalityType
  <2>. QED
    BY <2>1 DEF ExistsBijection, Bijection, Injection, IsInjective
<1>2. SetToSeq(S) \in [1..n -> S] /\ IsInjective(SetToSeq(S))
  BY <1>1 DEF SetToSeq
<1>. QED
  BY <1>1, <1>2 DEF IsInjective

----------------------------------------------------------------------------
(* Types, and who has the session                                           *)

\* A turn in flight is the one with an unknown outcome, and who is queued was not written.
Owned ==
    /\ inflight \in Turns \cup {None} /\ queue \in Seq(Turns)
    /\ native \in [Turns -> {"idle", "unknown", "completed", "failed"}] /\ held \in [Turns -> BOOLEAN]
    /\ \A t \in Turns : native[t] = "unknown" <=> t = inflight
    /\ \A i \in 1..Len(queue) : native[queue[i]] = "idle"
    /\ \A i, j \in 1..Len(queue) : queue[i] = queue[j] => i = j
    /\ \A t \in Turns : held[t] => t = inflight

\* A steer has the turn it was pushed into, and there are so far finitely many.
Pushed == {s \in Steers : of[s] \in Turns}
Known ==
    /\ steer \in [Steers -> SteerState]
    /\ of \in [Steers -> Turns \cup {None}]
    /\ push \in [Steers -> {"idle", "waiting", "steered", "ignored", "unknown"}]
    /\ \A s \in Steers : push[s] = "idle" => of[s] = None
    /\ \A s \in Steers : push[s] = "waiting" => s \in Pushed
    /\ IsFiniteSet(Pushed)
Calls ==
    /\ cancels \subseteq Requests
    /\ stop \in {"idle", "withdrawing", "done"} /\ stopped \in Turns \cup {None}
    /\ stop # "idle" => stopped \in Turns
    /\ credited \in [Turns -> SUBSET Turns] /\ hit \subseteq Turns /\ asked \subseteq Steers
    /\ events \in Events

\* What is written to the CLI, and what it says.
Written == {m \in Messages : /\ m.op = "turn" => m.id \in Turns
                             /\ m.op = "steer" => m.id \in Pushed
                             /\ m.op = "cancel" => m.id \in Requests
                             /\ m.op = "interrupt" => m.id = None}
Spoken == {l \in Lines : l.kind # "cancelled" /\ l.id \in Steers => l.id \in Pushed}
Channels ==
    /\ stdin \in Seq(Written) /\ pipe \in Seq(Spoken)
    /\ waiting \in Seq(Pushed) /\ later \in Seq(Turns) /\ run \in Turns \cup Pushed \cup {None}

Typed == Owned /\ Known /\ Calls /\ Channels

LEMMA TypedIsTypeOK == ASSUME Typed PROVE TypeOK
<1>1. ToSet(queue) \cap {inflight} = {}
  BY SteerAssumption DEF Typed, Owned, ToSet
<1>2. stdin \in Seq(Messages)
  BY Widened DEF Typed, Channels, Written
<1>3. pipe \in Seq(Lines)
  BY Widened DEF Typed, Channels, Spoken
<1>4. waiting \in Seq(Steers)
  BY Widened DEF Typed, Channels, Pushed
<1>5. run \in Turns \cup Steers \cup {None}
  BY DEF Typed, Channels, Pushed
<1>. QED
  BY <1>1, <1>2, <1>3, <1>4, <1>5 DEF Typed, Owned, Known, Calls, Channels, TypeOK

LEMMA Distinct ==
    /\ None \notin Turns /\ None \notin Steers
    /\ \A s \in Steers : s \notin Turns
  BY SteerAssumption

----------------------------------------------------------------------------
(* What the steps are made of                                               *)

\* What a step writes, steers left aside.
Commands(w) == \A i \in 1..Len(w) : w[i].op \in {"turn", "cancel", "interrupt"}

LEMMA CancelsWritten ==
    ASSUME Typed, NEW who \in {"stop", "failed"}, NEW ss, ss \subseteq Pushed, NEW w, w = CancelMsgs(who, ss)
    PROVE  /\ w \in Seq(Written)
           /\ \A i \in 1..Len(w) : w[i].op = "cancel" /\ w[i].id[2] \in ss
<1>. DEFINE ms == {Msg("cancel", <<who, s>>) : s \in ss}
            f == [s \in ss |-> Msg("cancel", <<who, s>>)]
<1>1. IsFiniteSet(ss)
  BY FS_Subset DEF Typed, Known
<1>2. ExistsBijection(ss, ms)
  <2>1. \A s \in ss : f[s] \in ms /\ f[s].id = <<who, s>>
    BY DEF Msg
  <2>2. f \in [ss -> ms]
    OBVIOUS
  <2>3. \A a, b \in ss : f[a] = f[b] => a = b
    <3>1. SUFFICES ASSUME NEW a \in ss, NEW b \in ss, f[a] = f[b] PROVE a = b
      OBVIOUS
    <3>2. <<who, a>> = <<who, b>>
      BY <2>1, <3>1
    <3>. QED
      BY <3>2
  <2>4. \A m \in ms : \E s \in ss : f[s] = m
    OBVIOUS
  <2>5. DOMAIN f = ss
    OBVIOUS
  <2>. HIDE DEF f, ms
  <2>. QED
    BY <2>2, <2>3, <2>4, <2>5 DEF ExistsBijection, Bijection, Injection, Surjection, IsInjective
<1>3. IsFiniteSet(ms)
  BY <1>1, <1>2, FS_Bijection
<1>4. ms \subseteq Written
  <2>1. SUFFICES ASSUME NEW s \in ss PROVE Msg("cancel", <<who, s>>) \in Written
    OBVIOUS
  <2>2. <<who, s>> \in Requests
    BY DEF Requests, Pushed
  <2>. QED
    BY <2>2 DEF Written, Messages, Msg
<1>. HIDE DEF ms
<1>5. /\ SetToSeq(ms) \in Seq(ms)
      /\ \A i, j \in 1..Len(SetToSeq(ms)) : SetToSeq(ms)[i] = SetToSeq(ms)[j] => i = j
  BY <1>3, Listed
<1>6. w = SetToSeq(ms)
  BY DEF CancelMsgs, ms
<1>7. \A i \in 1..Len(w) : w[i] \in ms
  BY <1>5, <1>6
<1>8. w \in Seq(Written)
  BY <1>4, <1>5, <1>6, Widened
<1>9. ASSUME NEW i \in 1..Len(w) PROVE w[i].op = "cancel" /\ w[i].id[2] \in ss
  <2>1. PICK s \in ss : w[i] = Msg("cancel", <<who, s>>)
    BY <1>7 DEF ms
  <2>. QED
    BY <2>1 DEF Msg
<1>. QED
  BY <1>8, <1>9

\* What a step may do to the turns: one is admitted, one written, one ends.
Has(t) == t = inflight \/ \E i \in 1..Len(queue) : queue[i] = t
Moves ==
    \A t \in Turns : \/ native'[t] = native[t] /\ (Has(t) => Has(t)')
                     \/ native[t] = "idle" /\ native'[t] = "unknown"
                     \/ native[t] = "unknown" /\ native'[t] \in {"completed", "failed"}
Rest == UNCHANGED <<inflight, queue, native>>

LEMMA RestMoves ==
    ASSUME Owned, Rest, held' \in [Turns -> BOOLEAN],
           \A t \in Turns : held'[t] => held[t] \/ t = inflight
    PROVE  Owned' /\ Moves
  BY DEF Owned, Rest, Moves, Has

\* w is the message that starts a turn, or nothing.
Starts(w) == IF inflight' \in Turns THEN w = <<Msg("turn", inflight')>> ELSE w = <<>>

\* The turn in flight ends with `outcome`, after `written` was said.
Ends(outcome, written) ==
    /\ native'[inflight] = outcome
    /\ \E w \in Seq(Written) : Starts(w) /\ stdin' = stdin \o (written \o w)

LEMMA TurnWritten == ASSUME NEW t \in Turns PROVE Msg("turn", t) \in Written
  BY DEF Msg, Written, Messages

LEMMA SettleMoves ==
    ASSUME Typed, inflight \in Turns, NEW outcome \in {"completed", "failed"}, NEW written \in Seq(Written),
           held' = [held EXCEPT ![inflight] = FALSE], SettleAs(outcome, written)
    PROVE  Owned' /\ Moves /\ Ends(outcome, written)
<1>0. Owned /\ Channels
  BY DEF Typed
<1>1. CASE queue = <<>>
  <2>1. inflight' = None /\ native' = [native EXCEPT ![inflight] = outcome]
        /\ stdin' = stdin \o written /\ queue' = queue
    BY <1>1 DEF SettleAs
  <2>2. Owned' /\ Moves
    BY <1>0, <1>1, <2>1, Distinct DEF Owned, Moves, Has
  <2>3. Starts(<<>>) /\ <<>> \in Seq(Written)
    BY <2>1, Distinct DEF Starts
  <2>4. written \o <<>> = written
    OBVIOUS
  <2>5. native'[inflight] = outcome
    BY <1>0, <2>1 DEF Owned
  <2>. QED
    BY <2>1, <2>2, <2>3, <2>4, <2>5 DEF Ends
<1>2. CASE queue # <<>>
  <2>. DEFINE u == queue[1]
  <2>1. /\ inflight' = u /\ queue' = Tail(queue)
        /\ native' = [[native EXCEPT ![inflight] = outcome] EXCEPT ![u] = "unknown"]
        /\ stdin' = (stdin \o written) \o <<Msg("turn", u)>>
    BY <1>0, <1>2, Popped DEF SettleAs, Owned
  <2>2. /\ Tail(queue) \in Seq(Turns) /\ Len(queue) \in Nat /\ Len(Tail(queue)) = Len(queue) - 1
        /\ 1 \in 1..Len(queue) /\ u \in Turns
        /\ \A i \in 1..Len(Tail(queue)) : Tail(queue)[i] = queue[i + 1] /\ i + 1 \in 1..Len(queue)
    BY <1>0, <1>2, Popped DEF Owned
  <2>3. native[u] = "idle" /\ u # inflight
    BY <1>0, <2>2 DEF Owned
  <2>4. /\ native' \in [Turns -> {"idle", "unknown", "completed", "failed"}]
        /\ \A t \in Turns : native'[t] = IF t = u THEN "unknown" ELSE IF t = inflight THEN outcome ELSE native[t]
    BY <1>0, <2>1, <2>2, <2>3 DEF Owned
  <2>5. \A i \in 1..Len(queue') : /\ queue'[i] = queue[i + 1] /\ i + 1 \in 1..Len(queue)
                                  /\ queue'[i] \in Turns /\ queue'[i] # u /\ queue'[i] # inflight
    <3>. SUFFICES ASSUME NEW i \in 1..Len(queue')
                  PROVE  /\ queue'[i] = queue[i + 1] /\ i + 1 \in 1..Len(queue)
                         /\ queue'[i] \in Turns /\ queue'[i] # u /\ queue'[i] # inflight
      OBVIOUS
    <3>1. queue'[i] = queue[i + 1] /\ i + 1 \in 1..Len(queue) /\ i + 1 # 1
      BY <2>1, <2>2
    <3>2. native[queue[i + 1]] = "idle" /\ queue[i + 1] # queue[1] /\ queue[i + 1] \in Turns
      BY <1>0, <2>2, <3>1 DEF Owned
    <3>. QED
      BY <1>0, <3>1, <3>2 DEF Owned
  <2>6. Owned'
    <3>1. \A t \in Turns : native'[t] = "unknown" <=> t = inflight'
      BY <1>0, <2>1, <2>3, <2>4 DEF Owned
    <3>2. \A i \in 1..Len(queue') : native'[queue'[i]] = "idle"
      BY <1>0, <2>4, <2>5 DEF Owned
    <3>3. \A i, j \in 1..Len(queue') : queue'[i] = queue'[j] => i = j
      <4>1. \A i, j \in 1..Len(queue') : queue[i + 1] = queue[j + 1] => i + 1 = j + 1
        BY <1>0, <2>5 DEF Owned
      <4>. QED
        BY <2>5, <4>1
    <3>4. held' \in [Turns -> BOOLEAN] /\ \A t \in Turns : held'[t] => t = inflight'
      BY <1>0 DEF Owned
    <3>. QED
      BY <2>1, <2>2, <2>4, <3>1, <3>2, <3>3, <3>4 DEF Owned
  <2>7. Moves
    <3>. SUFFICES ASSUME NEW t \in Turns, t # u, t # inflight, Has(t) PROVE Has(t)'
      BY <1>0, <2>3, <2>4 DEF Moves, Owned
    <3>1. PICK i \in 1..Len(queue) : queue[i] = t
      BY DEF Has
    <3>2. i # 1 /\ i - 1 \in 1..Len(Tail(queue)) /\ Tail(queue)[i - 1] = queue[i]
      BY <2>2, <3>1
    <3>. QED
      BY <2>1, <3>1, <3>2 DEF Has
  <2>8. Starts(<<Msg("turn", u)>>) /\ <<Msg("turn", u)>> \in Seq(Written)
    BY <2>1, <2>2, TurnWritten, Single DEF Starts
  <2>9. (stdin \o written) \o <<Msg("turn", u)>> = stdin \o (written \o <<Msg("turn", u)>>)
    BY <1>0, <2>8 DEF Channels
  <2>. QED
    BY <1>0, <2>1, <2>3, <2>4, <2>6, <2>7, <2>8, <2>9 DEF Ends
<1>. QED
  BY <1>1, <1>2

LEMMA EndsTyped ==
    ASSUME Typed, NEW outcome, NEW written \in Seq(Written), Ends(outcome, written)
    PROVE  stdin' \in Seq(Written)
<1>1. PICK w \in Seq(Written) : stdin' = stdin \o (written \o w)
  BY DEF Ends
<1>2. written \o w \in Seq(Written)
  BY Joined
<1>. QED
  BY <1>1, <1>2, Joined DEF Typed, Channels

\* A held turn is settled, or nothing happens to it.
Released(t, st) ==
    /\ t = inflight /\ held[t] /\ Waiting(t, st) = {} /\ Started(t, st) = {}
    /\ held' = [held EXCEPT ![t] = FALSE] /\ Ends("completed", <<>>)
Untouched == Rest /\ UNCHANGED <<held, stdin>>

LEMMA ReleaseMoves ==
    ASSUME Typed, NEW t \in Turns, NEW st, ReleaseHeld(t, st)
    PROVE  /\ Owned' /\ Moves /\ stdin' \in Seq(Written)
           /\ Released(t, st) \/ Untouched
<1>1. CASE Releasable(t, st)
  <2>1. t = inflight /\ held[t] /\ Waiting(t, st) = {} /\ Started(t, st) = {}
    BY <1>1 DEF Releasable
  <2>2. held' = [held EXCEPT ![inflight] = FALSE] /\ SettleAs("completed", <<>>)
    BY <1>1, <2>1 DEF ReleaseHeld
  <2>3. <<>> \in Seq(Written)
    BY Empty
  <2>4. Owned' /\ Moves /\ Ends("completed", <<>>)
    BY <2>1, <2>2, <2>3, SettleMoves
  <2>. QED
    BY <2>1, <2>2, <2>3, <2>4, EndsTyped DEF Released
<1>2. CASE ~Releasable(t, st)
  <2>1. Untouched
    BY <1>2 DEF ReleaseHeld, Untouched, Rest
  <2>2. held' \in [Turns -> BOOLEAN] /\ \A u \in Turns : held'[u] => held[u] \/ u = inflight
    BY <2>1 DEF Untouched, Typed, Owned
  <2>3. Owned' /\ Moves
    BY <2>1, <2>2, RestMoves DEF Untouched, Typed
  <2>. QED
    BY <2>1, <2>3 DEF Untouched, Typed, Channels
<1>. QED
  BY <1>1, <1>2

----------------------------------------------------------------------------
(* Types are kept                                                           *)

\* A step that pushes no steer leaves what may be written and said.
LEMMA SamePushed == ASSUME of' = of PROVE Pushed' = Pushed /\ Written' = Written /\ Spoken' = Spoken
  BY DEF Pushed, Written, Spoken

LEMMA SendTyped == ASSUME Typed, NEW t \in Turns, Send(t) PROVE Typed' /\ Moves
<1>. USE DEF Typed
<1>0. /\ UNCHANGED <<held, steer, of, push, cancels, stop, stopped, waiting, later, run, pipe, history, events>>
      /\ native[t] = "idle" /\ t \notin ToSet(queue)
  BY DEF Send
<1>1. \A i \in 1..Len(queue) : queue[i] # t
  BY <1>0 DEF ToSet, Owned
<1>2. Owned' /\ Moves /\ stdin' \in Seq(Written)
  <2>1. CASE inflight = None
    <3>1. /\ inflight' = t /\ native' = [native EXCEPT ![t] = "unknown"] /\ queue' = queue
          /\ stdin' = Append(stdin, Msg("turn", t))
      BY <2>1 DEF Send
    <3>2. Owned'
      BY <1>0, <1>1, <2>1, <3>1, Distinct DEF Owned
    <3>3. Moves
      BY <1>0, <1>1, <2>1, <3>1, Distinct DEF Owned, Moves, Has
    <3>4. stdin' \in Seq(Written)
      BY <3>1, TurnWritten, Added DEF Channels
    <3>. QED
      BY <3>2, <3>3, <3>4
  <2>2. CASE inflight # None
    <3>1. queue' = Append(queue, t) /\ UNCHANGED <<inflight, native, stdin>>
      BY <2>2 DEF Send
    <3>2. /\ queue' \in Seq(Turns) /\ Len(queue) \in Nat /\ Len(queue') = Len(queue) + 1
          /\ queue'[Len(queue) + 1] = t /\ \A i \in 1..Len(queue) : queue'[i] = queue[i]
      BY <3>1, Added DEF Owned
    <3>3. Owned'
      <4>1. \A i \in 1..Len(queue') : i \in 1..Len(queue) \/ i = Len(queue) + 1
        BY <3>2
      <4>. QED
        BY <1>0, <1>1, <3>1, <3>2, <4>1 DEF Owned
    <3>4. Moves
      <4>1. \A i \in 1..Len(queue) : i \in 1..Len(queue')
        BY <3>2
      <4>. QED
        BY <3>1, <3>2, <4>1 DEF Moves, Has
    <3>. QED
      BY <3>1, <3>3, <3>4 DEF Channels
  <2>. QED
    BY <2>1, <2>2
<1>3. Pushed' = Pushed /\ Written' = Written /\ Spoken' = Spoken
  BY <1>0, SamePushed
<1>4. Known' /\ Calls'
  BY <1>0, <1>3 DEF Known, Calls, history
<1>5. Channels'
  BY <1>0, <1>2, <1>3 DEF Channels
<1>. QED
  BY <1>2, <1>4, <1>5

LEMMA PushTyped == ASSUME Typed, NEW s \in Steers, Push(s) PROVE Typed' /\ Moves
<1>. USE DEF Typed
<1>0. /\ UNCHANGED <<inflight, queue, native, held, cancels, stop, stopped, waiting, later, run, pipe, history, events>>
      /\ push[s] = "idle"
  BY DEF Push
<1>1. Owned' /\ Moves
  BY <1>0, RestMoves DEF Rest, Owned
<1>2. Calls'
  BY <1>0 DEF Calls, history
<1>3. CASE inflight = None
  <2>1. push' = [push EXCEPT ![s] = "ignored"] /\ UNCHANGED <<steer, of, stdin>>
    BY <1>3 DEF Push
  <2>2. Pushed' = Pushed /\ Written' = Written /\ Spoken' = Spoken
    BY <2>1, SamePushed
  <2>3. Known' /\ Channels'
    BY <1>0, <2>1, <2>2 DEF Known, Channels
  <2>. QED
    BY <1>1, <1>2, <2>3
<1>4. CASE inflight # None
  <2>1. /\ push' = [push EXCEPT ![s] = "waiting"] /\ steer' = [steer EXCEPT ![s] = "written"]
        /\ of' = [of EXCEPT ![s] = inflight] /\ stdin' = Append(stdin, Msg("steer", s))
        /\ inflight \in Turns
    BY <1>4 DEF Push, Owned
  <2>2. Pushed' = Pushed \cup {s}
    BY <2>1 DEF Pushed, Known
  <2>3. Written \subseteq Written' /\ Spoken \subseteq Spoken' /\ Msg("steer", s) \in Written'
    BY <2>2 DEF Written, Spoken, Messages, Msg
  <2>4. Known'
    <3>1. IsFiniteSet(Pushed')
      BY <2>2, FS_AddElement DEF Known
    <3>2. "written" \in SteerState
      BY DEF SteerState
    <3>. QED
      BY <1>0, <2>1, <2>2, <3>1, <3>2 DEF Known
  <2>5. stdin \in Seq(Written') /\ pipe \in Seq(Spoken') /\ waiting \in Seq(Pushed')
    BY <2>2, <2>3, Widened DEF Channels
  <2>6. stdin' \in Seq(Written')
    BY <2>1, <2>3, <2>5, Added
  <2>7. Channels'
    BY <1>0, <2>2, <2>5, <2>6 DEF Channels
  <2>. QED
    BY <1>1, <1>2, <2>4, <2>7
<1>. QED
  BY <1>3, <1>4

LEMMA PushTimesOutTyped == ASSUME Typed, NEW s \in Steers, PushTimesOut(s) PROVE Typed' /\ Moves
<1>. USE DEF Typed
<1>. DEFINE st == [steer EXCEPT ![s] = IF @ = "written" THEN "unconfirmed" ELSE @]
<1>0. /\ UNCHANGED <<events, of, cancels, stop, stopped, waiting, later, run, pipe, history>>
      /\ push[s] = "waiting" /\ push' = [push EXCEPT ![s] = "unknown"] /\ steer' = st /\ ReleaseHeld(of[s], st)
  BY DEF PushTimesOut
<1>1. of[s] \in Turns
  BY <1>0 DEF Known, Pushed
<1>. HIDE DEF st
<1>2. Owned' /\ Moves /\ stdin' \in Seq(Written)
  BY <1>0, <1>1, ReleaseMoves
<1>3. Pushed' = Pushed /\ Written' = Written /\ Spoken' = Spoken
  BY <1>0, SamePushed
<1>4. Known'
  BY <1>0, <1>3 DEF Known, st, SteerState
<1>. QED
  BY <1>0, <1>2, <1>3, <1>4 DEF Calls, Channels, history

LEMMA WaitingPushed ==
    ASSUME NEW t \in Turns, NEW st
    PROVE  Waiting(t, st) \subseteq Pushed
  BY DEF Waiting, Pushed

LEMMA StopTyped == ASSUME Typed, Stop PROVE Typed' /\ Moves
<1>. USE DEF Typed
<1>. DEFINE ss == Waiting(inflight, steer)
<1>0. /\ UNCHANGED <<events, inflight, queue, native, held, steer, of, push, waiting, later, run, pipe, credited, hit>>
      /\ inflight # None /\ stop' = "withdrawing" /\ stopped' = inflight
      /\ cancels' = cancels \cup ({"stop"} \X ss) /\ stdin' = stdin \o CancelMsgs("stop", ss)
      /\ asked' = ss
  BY DEF Stop
<1>1. Owned' /\ Moves /\ inflight \in Turns
  BY <1>0, RestMoves DEF Rest, Owned
<1>2. ss \subseteq Pushed
  BY <1>1, WaitingPushed
<1>. HIDE DEF ss
<1>3. Pushed' = Pushed /\ Written' = Written /\ Spoken' = Spoken
  BY <1>0, SamePushed
<1>4. stdin' \in Seq(Written)
  <2>1. CancelMsgs("stop", ss) \in Seq(Written)
    BY <1>2, CancelsWritten
  <2>. QED
    BY <1>0, <2>1, Joined DEF Channels
<1>5. cancels' \subseteq Requests /\ asked' \subseteq Steers
  BY <1>0, <1>2 DEF Calls, Requests, Pushed
<1>. QED
  BY <1>0, <1>1, <1>3, <1>4, <1>5 DEF Calls, Channels, Known

LEMMA InterruptWritten == Msg("interrupt", None) \in Written
  BY DEF Written, Messages, Msg

LEMMA StopGoesOnTyped == ASSUME Typed, StopGoesOn PROVE Typed' /\ Moves
<1>. USE DEF Typed
<1>0. /\ UNCHANGED <<events, steer, of, push, cancels, stopped, waiting, later, run, pipe, history>>
      /\ stop = "withdrawing" /\ stop' = "done"
  BY DEF StopGoesOn
<1>1. stopped \in Turns
  BY <1>0 DEF Calls
<1>2. Owned' /\ Moves /\ stdin' \in Seq(Written)
  <2>1. CASE Releasable(stopped, steer)
    BY <1>1, <2>1, ReleaseMoves DEF StopGoesOn
  <2>2. CASE ~Releasable(stopped, steer)
    <3>1. UNCHANGED <<held, inflight, queue, native>>
          /\ (stdin' = Append(stdin, Msg("interrupt", None)) \/ stdin' = stdin)
      BY <2>2 DEF StopGoesOn
    <3>2. Owned' /\ Moves
      BY <3>1, RestMoves DEF Rest, Owned
    <3>3. stdin' \in Seq(Written)
      BY <3>1, InterruptWritten, Added DEF Channels
    <3>. QED
      BY <3>2, <3>3
  <2>. QED
    BY <2>1, <2>2
<1>3. Pushed' = Pushed /\ Written' = Written /\ Spoken' = Spoken
  BY <1>0, SamePushed
<1>. QED
  BY <1>0, <1>2, <1>3 DEF Calls, Channels, Known, history

LEMMA CancelTimesOutTyped == ASSUME Typed, NEW r \in Requests, CancelTimesOut(r) PROVE Typed' /\ Moves
<1>. USE DEF Typed
<1>0. /\ UNCHANGED <<events, inflight, queue, native, held, steer, of, push, stop, stopped, cli, history>>
      /\ cancels' = cancels \ {r}
  BY DEF CancelTimesOut
<1>1. Owned' /\ Moves
  BY <1>0, RestMoves DEF Rest, Owned
<1>2. Pushed' = Pushed /\ Written' = Written /\ Spoken' = Spoken
  BY <1>0, SamePushed
<1>. QED
  BY <1>0, <1>1, <1>2 DEF Calls, Channels, Known, history, cli

\* A line that is read.
LEMMA ReadsLine ==
    ASSUME Typed, NEW kind, Reads(kind)
    PROVE  /\ Head(pipe) \in Spoken /\ Head(pipe) \in Lines /\ Head(pipe).kind = kind
           /\ Head(pipe) = pipe[1] /\ 1 \in 1..Len(pipe) /\ pipe' \in Seq(Spoken)
           /\ Len(pipe) \in Nat /\ Len(pipe') = Len(pipe) - 1
           /\ \A i \in 1..Len(pipe') : pipe'[i] = pipe[i + 1] /\ i + 1 \in 1..Len(pipe)
  BY Popped DEF Reads, Typed, Channels, Spoken

LEMMA ReadLifecycleTyped == ASSUME Typed, ReadLifecycle PROVE Typed' /\ Moves
<1>. USE DEF Typed
<1>. DEFINE s == Head(pipe).id
            st == [steer EXCEPT ![s] = Head(pipe).what]
<1>0. /\ UNCHANGED <<events, of, cancels, stop, stopped, waiting, later, run, history>>
      /\ Reads("lifecycle")
      /\ IF inflight # None /\ of[s] = inflight
         THEN /\ steer' = st
              /\ push' = [push EXCEPT ![s] = IF @ # "waiting" THEN @
                            ELSE IF Head(pipe).what = "cancelled" THEN "ignored" ELSE "steered"]
              /\ ReleaseHeld(inflight, st) \/ UNCHANGED <<held, inflight, queue, native, stdin>>
         ELSE UNCHANGED <<steer, push, held, inflight, queue, native, stdin>>
  BY DEF ReadLifecycle
<1>1. s \in Steers /\ Head(pipe).what \in SteerState /\ pipe' \in Seq(Spoken)
  <2>1. Head(pipe) \in Lines /\ Head(pipe).kind = "lifecycle" /\ pipe' \in Seq(Spoken)
    BY <1>0, ReadsLine
  <2>. QED
    BY <2>1 DEF Lines
<1>. HIDE DEF s
<1>2. Known'
  <2>1. Pushed' = Pushed
    BY <1>0, SamePushed
  <2>. QED
    BY <1>0, <1>1, <2>1, Distinct DEF Known, Pushed
<1>. HIDE DEF st
<1>3. Owned' /\ Moves /\ stdin' \in Seq(Written)
  <2>1. CASE UNCHANGED <<held, inflight, queue, native, stdin>>
    BY <2>1, RestMoves DEF Rest, Owned, Channels
  <2>2. CASE inflight # None /\ ReleaseHeld(inflight, st)
    BY <2>2, ReleaseMoves DEF Owned
  <2>. QED
    BY <1>0, <2>1, <2>2
<1>4. Pushed' = Pushed /\ Written' = Written /\ Spoken' = Spoken
  BY <1>0, SamePushed
<1>. QED
  BY <1>0, <1>1, <1>2, <1>3, <1>4 DEF Calls, Channels, history

LEMMA ReadCancelledTyped == ASSUME Typed, ReadCancelled PROVE Typed' /\ Moves
<1>. USE DEF Typed
<1>0. /\ UNCHANGED <<events, inflight, queue, native, held, of, push, stop, stopped, stdin, waiting, later, run, history>>
      /\ Reads("cancelled") /\ cancels' = cancels \ {Head(pipe).id}
      /\ steer' = steer \/ steer' = [steer EXCEPT ![Head(pipe).id[2]] = "cancelled"]
  BY DEF ReadCancelled
<1>1. Owned' /\ Moves
  BY <1>0, RestMoves DEF Rest, Owned
<1>2. Pushed' = Pushed /\ Written' = Written /\ Spoken' = Spoken
  BY <1>0, SamePushed
<1>3. pipe' \in Seq(Spoken)
  BY <1>0, ReadsLine
<1>4. Known'
  BY <1>0, <1>2 DEF Known, SteerState
<1>. QED
  BY <1>0, <1>1, <1>2, <1>3, <1>4 DEF Calls, Channels, history

LEMMA ReadUnownedTyped == ASSUME Typed, ReadUnowned PROVE Typed' /\ Moves
<1>. USE DEF Typed
<1>0. UNCHANGED <<events, session, stdin, waiting, later, run, history>> /\ Reads("result")
  BY DEF ReadUnowned
<1>1. Owned' /\ Moves
  BY <1>0, RestMoves DEF Rest, Owned, session
<1>2. Pushed' = Pushed /\ Written' = Written /\ Spoken' = Spoken
  BY <1>0, SamePushed DEF session
<1>3. pipe' \in Seq(Spoken)
  BY <1>0, ReadsLine
<1>. QED
  BY <1>0, <1>1, <1>2, <1>3 DEF Known, Calls, Channels, history, session

\* A result is credited to the turn in flight, for the turn it is of.
LEMMA CreditTyped ==
    ASSUME Typed, Reads("result"), inflight # None, Credit
    PROVE  /\ Owner(Head(pipe).id) \in Turns /\ inflight \in Turns
           /\ credited' \in [Turns -> SUBSET Turns]
           /\ credited' = [credited EXCEPT ![inflight] = @ \cup {Owner(Head(pipe).id)}]
<1>1. Head(pipe).id \in Turns \cup Pushed
  <2>1. Head(pipe) \in Lines /\ Head(pipe) \in Spoken /\ Head(pipe).kind = "result"
    BY ReadsLine
  <2>2. Head(pipe).id \in Turns \cup Steers
    BY <2>1 DEF Lines
  <2>. QED
    BY <2>1, <2>2 DEF Spoken
<1>2. Owner(Head(pipe).id) \in Turns
  BY <1>1 DEF Owner, Pushed
<1>3. inflight \in Turns
  BY DEF Typed, Owned
<1>. QED
  BY <1>2, <1>3 DEF Credit, Typed, Calls

LEMMA ReadHoldsTyped == ASSUME Typed, ReadHolds PROVE Typed' /\ Moves
<1>. USE DEF Typed
<1>0. /\ UNCHANGED <<events, inflight, queue, native, steer, of, push, cancels, stop, stopped, stdin, waiting, later,
                     run, hit, asked>>
      /\ Reads("result") /\ inflight # None /\ Credit /\ held' = [held EXCEPT ![inflight] = TRUE]
  BY DEF ReadHolds
<1>1. Owned' /\ Moves
  BY <1>0, RestMoves DEF Rest, Owned
<1>2. Pushed' = Pushed /\ Written' = Written /\ Spoken' = Spoken
  BY <1>0, SamePushed
<1>3. pipe' \in Seq(Spoken) /\ credited' \in [Turns -> SUBSET Turns]
  BY <1>0, ReadsLine, CreditTyped
<1>. QED
  BY <1>0, <1>1, <1>2, <1>3 DEF Known, Calls, Channels

LEMMA ReadCompletesTyped == ASSUME Typed, ReadCompletes PROVE Typed' /\ Moves /\ Ends("completed", <<>>)
<1>. USE DEF Typed
<1>0. /\ UNCHANGED <<events, steer, of, push, cancels, stop, stopped, waiting, later, run, hit, asked>>
      /\ Reads("result") /\ inflight # None /\ Credit /\ held' = [held EXCEPT ![inflight] = FALSE]
      /\ SettleAs("completed", <<>>)
  BY DEF ReadCompletes
<1>1. inflight \in Turns /\ <<>> \in Seq(Written)
  BY <1>0, Empty DEF Owned
<1>2. Owned' /\ Moves /\ Ends("completed", <<>>)
  BY <1>0, <1>1, SettleMoves
<1>3. Pushed' = Pushed /\ Written' = Written /\ Spoken' = Spoken
  BY <1>0, SamePushed
<1>4. pipe' \in Seq(Spoken) /\ credited' \in [Turns -> SUBSET Turns] /\ stdin' \in Seq(Written)
  BY <1>0, <1>1, <1>2, ReadsLine, CreditTyped, EndsTyped
<1>. QED
  BY <1>0, <1>2, <1>3, <1>4 DEF Known, Calls, Channels

LEMMA ReadFailsTyped == ASSUME Typed, ReadFails PROVE Typed' /\ Moves /\ native'[inflight] = "failed"
<1>. USE DEF Typed
<1>. DEFINE ss == Waiting(inflight, steer)
            w == CancelMsgs("failed", ss)
<1>0. /\ UNCHANGED <<events, steer, of, push, stop, stopped, waiting, later, run, hit, asked>>
      /\ Reads("result") /\ inflight # None /\ Credit /\ held' = [held EXCEPT ![inflight] = FALSE]
      /\ cancels' = cancels \cup ({"failed"} \X ss) /\ SettleAs("failed", w)
  BY DEF ReadFails
<1>1. inflight \in Turns
  BY <1>0 DEF Owned
<1>2. ss \subseteq Pushed
  BY <1>1, WaitingPushed
<1>. HIDE DEF ss
<1>3. w \in Seq(Written)
  BY <1>2, CancelsWritten
<1>. HIDE DEF w
<1>4. Owned' /\ Moves /\ Ends("failed", w)
  BY <1>0, <1>1, <1>3, SettleMoves
<1>5. Pushed' = Pushed /\ Written' = Written /\ Spoken' = Spoken
  BY <1>0, SamePushed
<1>6. pipe' \in Seq(Spoken) /\ credited' \in [Turns -> SUBSET Turns] /\ stdin' \in Seq(Written)
  BY <1>0, <1>3, <1>4, ReadsLine, CreditTyped, EndsTyped
<1>7. cancels' \subseteq Requests
  BY <1>0, <1>2 DEF Calls, Requests, Pushed
<1>8. native'[inflight] = "failed"
  BY <1>4 DEF Ends
<1>. QED
  BY <1>0, <1>4, <1>5, <1>6, <1>7, <1>8 DEF Known, Calls, Channels

\* The CLI works: the session is as it was.
LEMMA CliTyped ==
    ASSUME Typed, UNCHANGED <<events, session, credited, asked>>, hit' \subseteq Turns,
           stdin' \in Seq(Written), pipe' \in Seq(Spoken), waiting' \in Seq(Pushed),
           later' \in Seq(Turns), run' \in Turns \cup Pushed \cup {None}
    PROVE  Typed' /\ Moves
<1>1. Owned' /\ Moves
  BY RestMoves DEF Rest, Typed, Owned, session
<1>2. Pushed' = Pushed /\ Written' = Written /\ Spoken' = Spoken
  BY SamePushed DEF session
<1>. QED
  BY <1>1, <1>2 DEF Typed, Known, Calls, Channels, session

\* A message that is taken.
LEMMA TakesMessage ==
    ASSUME Typed, NEW op, Takes(op)
    PROVE  /\ Head(stdin) \in Written /\ Head(stdin).op = op
           /\ Head(stdin) = stdin[1] /\ 1 \in 1..Len(stdin) /\ stdin' \in Seq(Written)
           /\ Len(stdin) \in Nat /\ Len(stdin') = Len(stdin) - 1
           /\ \A i \in 1..Len(stdin') : stdin'[i] = stdin[i + 1] /\ i + 1 \in 1..Len(stdin)
  BY Popped DEF Takes, Typed, Channels

\* What is said.
LEMMA LifecycleSpoken ==
    ASSUME NEW s \in Pushed, NEW w \in SteerState PROVE Line("lifecycle", s, w) \in Spoken
  BY DEF Line, Spoken, Lines, Pushed
LEMMA CancelledSpoken ==
    ASSUME NEW r \in Requests, NEW b \in BOOLEAN PROVE Line("cancelled", r, b) \in Spoken
  BY DEF Line, Lines, Spoken
LEMMA ResultSpoken ==
    ASSUME NEW r \in Turns \cup Pushed, NEW o \in {"completed", "failed"} PROVE Line("result", r, o) \in Spoken
  BY Distinct DEF Line, Spoken, Lines, Pushed

LEMMA CliTakesTurnTyped == ASSUME Typed, CliTakesTurn PROVE Typed' /\ Moves
<1>0. /\ UNCHANGED <<events, session, waiting, pipe, history>> /\ Takes("turn")
      /\ (run' = Head(stdin).id /\ later' = later) \/ (later' = Append(later, Head(stdin).id) /\ run' = run)
  BY DEF CliTakesTurn
<1>1. Head(stdin).id \in Turns /\ stdin' \in Seq(Written)
  BY <1>0, TakesMessage DEF Written
<1>2. later' \in Seq(Turns) /\ run' \in Turns \cup Pushed \cup {None}
  BY <1>0, <1>1, Added DEF Typed, Channels
<1>. QED
  BY <1>0, <1>1, <1>2, CliTyped DEF Typed, Channels, Calls, history

LEMMA CliTakesSteerTyped == ASSUME Typed, CliTakesSteer PROVE Typed' /\ Moves
<1>. DEFINE s == Head(stdin).id
<1>0. /\ UNCHANGED <<events, session, later, run, history>> /\ Takes("steer")
      /\ waiting' = Append(waiting, s) /\ pipe' = pipe \o <<Line("lifecycle", s, "queued")>>
  BY DEF CliTakesSteer, Says
<1>1. s \in Pushed /\ stdin' \in Seq(Written)
  BY <1>0, TakesMessage DEF Written
<1>2. <<Line("lifecycle", s, "queued")>> \in Seq(Spoken)
  BY <1>1, LifecycleSpoken, Single DEF SteerState
<1>3. waiting' \in Seq(Pushed) /\ pipe' \in Seq(Spoken)
  BY <1>0, <1>1, <1>2, Added, Joined DEF Typed, Channels
<1>. QED
  BY <1>0, <1>1, <1>3, CliTyped DEF Typed, Channels, Calls, history

LEMMA CliCancelsTyped == ASSUME Typed, CliCancels PROVE Typed' /\ Moves
<1>. DEFINE r == Head(stdin).id
            said == <<Line("cancelled", r, TRUE), Line("lifecycle", r[2], "cancelled")>>
<1>0. /\ UNCHANGED <<events, session, later, run, history>> /\ Takes("cancel")
      /\ \/ \E k \in DOMAIN waiting : waiting[k] = r[2] /\ waiting' = RemoveAt(waiting, k) /\ pipe' = pipe \o said
         \/ waiting' = waiting /\ pipe' = pipe \o <<Line("cancelled", r, FALSE)>>
  BY DEF CliCancels, Says
<1>1. r \in Requests /\ stdin' \in Seq(Written)
  BY <1>0, TakesMessage DEF Written
<1>2. waiting \in Seq(Pushed) /\ pipe \in Seq(Spoken)
  BY DEF Typed, Channels
<1>3. CASE \E k \in DOMAIN waiting : waiting[k] = r[2] /\ waiting' = RemoveAt(waiting, k) /\ pipe' = pipe \o said
  <2>1. PICK k \in 1..Len(waiting) : waiting[k] = r[2] /\ waiting' = RemoveAt(waiting, k) /\ pipe' = pipe \o said
    BY <1>2, <1>3
  <2>2. r[2] \in Pushed
    BY <1>2, <2>1
  <2>3. said \in Seq(Spoken)
    BY <1>1, <2>2, CancelledSpoken, LifecycleSpoken, Pair DEF SteerState
  <2>4. waiting' \in Seq(Pushed) /\ pipe' \in Seq(Spoken)
    BY <1>2, <2>1, <2>3, Removed, Joined
  <2>. QED
    BY <1>0, <1>1, <2>4, CliTyped DEF Typed, Channels, Calls, history
<1>4. CASE waiting' = waiting /\ pipe' = pipe \o <<Line("cancelled", r, FALSE)>>
  <2>1. <<Line("cancelled", r, FALSE)>> \in Seq(Spoken)
    BY <1>1, CancelledSpoken, Single
  <2>2. pipe' \in Seq(Spoken)
    BY <1>2, <1>4, <2>1, Joined
  <2>. QED
    BY <1>0, <1>1, <1>2, <1>4, <2>2, CliTyped DEF Typed, Channels, Calls, history
<1>. QED
  BY <1>0, <1>3, <1>4

\* The lines with which a run ends.
Closing(o, what) ==
    <<Line("result", run, o)>> \o IF run \in Steers THEN <<Line("lifecycle", run, what)>> ELSE <<>>

LEMMA ClosingSpoken ==
    ASSUME Typed, run # None, NEW o \in {"completed", "failed"}, NEW what \in SteerState
    PROVE  /\ Closing(o, what) \in Seq(Spoken) /\ run \in Turns \cup Pushed
           /\ Len(Closing(o, what)) = IF run \in Steers THEN 2 ELSE 1
           /\ Closing(o, what)[1] = Line("result", run, o)
           /\ run \in Steers => Closing(o, what)[2] = Line("lifecycle", run, what)
<1>1. run \in Turns \cup Pushed
  BY DEF Typed, Channels
<1>2. Line("result", run, o) \in Spoken
  BY <1>1, ResultSpoken
<1>3. CASE run \in Steers
  <2>1. run \in Pushed
    BY <1>1, <1>3, Distinct
  <2>2. Line("lifecycle", run, what) \in Spoken
    BY <2>1, LifecycleSpoken
  <2>3. Closing(o, what) = <<Line("result", run, o)>> \o <<Line("lifecycle", run, what)>>
    BY <1>3 DEF Closing
  <2>4. /\ Closing(o, what) \in Seq(Spoken) /\ Len(Closing(o, what)) = 2
        /\ Closing(o, what)[1] = Line("result", run, o) /\ Closing(o, what)[2] = Line("lifecycle", run, what)
    BY <1>2, <2>2, <2>3, Single, Joined
  <2>. QED
    BY <1>1, <1>3, <2>4
<1>4. CASE run \notin Steers
  <2>1. <<Line("result", run, o)>> \o <<>> = <<Line("result", run, o)>>
    BY <1>2
  <2>. QED
    BY <1>1, <1>2, <1>4, <2>1, Single DEF Closing
<1>. QED
  BY <1>3, <1>4

LEMMA CliInterruptedTyped == ASSUME Typed, CliInterrupted PROVE Typed' /\ Moves
<1>0. /\ UNCHANGED <<events, session, waiting, later, credited, asked>> /\ Takes("interrupt")
      /\ IF run = None THEN UNCHANGED <<run, pipe, hit>>
         ELSE run' = None /\ hit' = hit \cup {Owner(run)} /\ pipe' = pipe \o Closing("failed", "cancelled")
  BY DEF CliInterrupted, Says, Closing
<1>1. stdin' \in Seq(Written)
  BY <1>0, TakesMessage
<1>2. CASE run = None
  BY <1>0, <1>1, <1>2, CliTyped DEF Typed, Channels, Calls
<1>3. CASE run # None
  <2>1. Closing("failed", "cancelled") \in Seq(Spoken) /\ run \in Turns \cup Pushed
    BY <1>3, ClosingSpoken DEF SteerState
  <2>2. Owner(run) \in Turns
    BY <2>1 DEF Owner, Pushed
  <2>3. hit' \subseteq Turns
    BY <1>0, <1>3, <2>2 DEF Typed, Calls
  <2>4. pipe' \in Seq(Spoken)
    BY <1>0, <1>3, <2>1, Joined DEF Typed, Channels
  <2>. QED
    BY <1>0, <1>1, <1>3, <2>3, <2>4, CliTyped DEF Typed, Channels
<1>. QED
  BY <1>2, <1>3

LEMMA CliRunsTyped == ASSUME Typed, CliRuns PROVE Typed' /\ Moves
<1>0. UNCHANGED <<events, session, stdin, history>>
  BY DEF CliRuns
<1>1. CASE /\ waiting # <<>> /\ run' = Head(waiting) /\ waiting' = Tail(waiting) /\ later' = later
           /\ pipe' = pipe \o <<Line("lifecycle", Head(waiting), "started")>>
  <2>1. waiting' \in Seq(Pushed) /\ Head(waiting) \in Pushed
    BY <1>1, Popped DEF Typed, Channels
  <2>2. <<Line("lifecycle", Head(waiting), "started")>> \in Seq(Spoken)
    BY <2>1, LifecycleSpoken, Single DEF SteerState
  <2>3. pipe' \in Seq(Spoken)
    BY <1>1, <2>2, Joined DEF Typed, Channels
  <2>. QED
    BY <1>0, <1>1, <2>1, <2>3, CliTyped DEF Typed, Channels, Calls, history
<1>2. CASE later # <<>> /\ run' = Head(later) /\ later' = Tail(later) /\ UNCHANGED <<waiting, pipe>>
  <2>1. later' \in Seq(Turns) /\ run' \in Turns
    BY <1>2, Popped DEF Typed, Channels
  <2>. QED
    BY <1>0, <1>2, <2>1, CliTyped DEF Typed, Channels, Calls, history
<1>. QED
  BY <1>1, <1>2 DEF CliRuns, Says

LEMMA CliTakesInTyped == ASSUME Typed, CliTakesIn PROVE Typed' /\ Moves
<1>. DEFINE said == <<Line("lifecycle", Head(waiting), "started"), Line("lifecycle", Head(waiting), "completed")>>
<1>0. /\ UNCHANGED <<events, session, stdin, later, run, history>>
      /\ waiting # <<>> /\ waiting' = Tail(waiting) /\ pipe' = pipe \o said
  BY DEF CliTakesIn, Says
<1>1. waiting' \in Seq(Pushed) /\ Head(waiting) \in Pushed
  BY <1>0, Popped DEF Typed, Channels
<1>2. said \in Seq(Spoken)
  BY <1>1, LifecycleSpoken, Pair DEF SteerState
<1>3. pipe' \in Seq(Spoken)
  BY <1>0, <1>2, Joined DEF Typed, Channels
<1>. QED
  BY <1>0, <1>1, <1>3, CliTyped DEF Typed, Channels, Calls, history

LEMMA CliFinishesTyped == ASSUME Typed, CliFinishes PROVE Typed' /\ Moves
<1>1. PICK o \in {"completed", "failed"} : pipe' = pipe \o Closing(o, "completed")
  BY DEF CliFinishes, Says, Closing
<1>2. UNCHANGED <<events, session, stdin, waiting, later, history>> /\ run # None /\ run' = None
  BY DEF CliFinishes
<1>3. Closing(o, "completed") \in Seq(Spoken)
  BY <1>2, ClosingSpoken DEF SteerState
<1>4. pipe' \in Seq(Spoken)
  BY <1>1, <1>3, Joined DEF Typed, Channels
<1>. QED
  BY <1>2, <1>4, CliTyped DEF Typed, Channels, Calls, history

LEMMA StutterTyped == ASSUME Typed, UNCHANGED vars PROVE Typed' /\ Moves
<1>1. UNCHANGED <<session, cli, history, events>>
  BY DEF vars
<1>. QED
  BY <1>1, CliTyped DEF Typed, Channels, Calls, session, cli, history

LEMMA StepTyped == ASSUME Typed, [Next]_vars PROVE Typed' /\ Moves
<1>1. ASSUME NEW s \in Steers, Push(s) \/ PushTimesOut(s) PROVE Typed' /\ Moves
  BY <1>1, PushTyped, PushTimesOutTyped
<1>2. CASE Read
  BY <1>2, ReadLifecycleTyped, ReadCancelledTyped, ReadUnownedTyped, ReadHoldsTyped, ReadCompletesTyped,
     ReadFailsTyped DEF Read
<1>3. CASE Cli
  BY <1>3, CliTakesTurnTyped, CliTakesSteerTyped, CliCancelsTyped, CliInterruptedTyped, CliRunsTyped,
     CliTakesInTyped, CliFinishesTyped DEF Cli
<1>. QED
  BY <1>1, <1>2, <1>3, SendTyped, StopTyped, StopGoesOnTyped, CancelTimesOutTyped, StutterTyped DEF Next

LEMMA InitTyped == Init => Typed
<1>. SUFFICES ASSUME Init PROVE Typed
  OBVIOUS
<1>1. Pushed = {}
  BY Distinct DEF Init, Pushed
<1>2. IsFiniteSet(Pushed)
  BY <1>1, FS_EmptySet
<1>3. Owned
  BY Distinct DEF Init, Owned
<1>4. Known
  BY <1>1, <1>2 DEF Init, Known, SteerState
<1>5. Calls /\ Channels
  BY DEF Init, Calls, Channels
<1>. QED
  BY <1>3, <1>4, <1>5 DEF Typed

LEMMA TypedHolds == Spec => []Typed
<1>1. Typed /\ [Next]_vars => Typed'
  BY StepTyped
<1>. QED
  BY <1>1, InitTyped, PTL DEF Spec

\* Every variable keeps its type: steers, requests, lines and turns are told apart.
THEOREM TypeCorrect == Spec => []TypeOK
BY TypedHolds, TypedIsTypeOK, PTL

\* Steering never gives a second turn the CLI while one is unanswered, and settles
\* each turn once (push, _releaseHeld, _withdrawSteers, interruptNative).
THEOREM KeepsOwnership == Spec => ImplementsOwnership
<1>. USE DEF Typed
<1>1. Init => Ownership!Init
  BY Distinct DEF Init, Ownership!Init, ToSet
<1>2. Typed /\ [Next]_vars => [Ownership!Step]_(Ownership!vars)
  <2>. SUFFICES ASSUME Typed, Typed', Moves PROVE Ownership!Step
    BY StepTyped
  <2>0. \A t \in Turns : /\ Has(t) <=> t = inflight \/ t \in ToSet(queue)
                         /\ Has(t)' <=> t = inflight' \/ t \in ToSet(queue)'
    <3>1. DOMAIN queue = 1..Len(queue) /\ DOMAIN queue' = 1..Len(queue')
      BY DEF Owned
    <3>. QED
      BY <3>1 DEF Has, ToSet
  <2>1. \A t \in Turns : /\ native[t] \in {"idle", "unknown", "completed", "failed"}
                         /\ native'[t] \in {"idle", "unknown", "completed", "failed"}
                         /\ native[t] = "unknown" <=> t = inflight
                         /\ native'[t] = "unknown" <=> t = inflight'
    BY DEF Owned
  <2>2. ASSUME NEW t \in Turns
        PROVE  Ownership!LocalStep(t) /\ Ownership!DispatchStep(t) /\ Ownership!NativeStep(t)
    <3>1. CASE native'[t] = native[t] /\ (Has(t) => Has(t)')
      BY <2>0, <2>1, <3>1 DEF Ownership!LocalStep, Ownership!DispatchStep, Ownership!NativeStep
    <3>2. CASE native[t] = "idle" /\ native'[t] = "unknown"
      BY <2>0, <2>1, <3>2 DEF Ownership!LocalStep, Ownership!DispatchStep, Ownership!NativeStep
    <3>3. CASE native[t] = "unknown" /\ native'[t] \in {"completed", "failed"}
      BY <2>0, <2>1, <3>3 DEF Ownership!LocalStep, Ownership!DispatchStep, Ownership!NativeStep,
         Ownership!Unresolved
    <3>. QED
      BY <3>1, <3>2, <3>3 DEF Moves
  <2>3. Ownership!AtMostOneUnresolved'
    BY <2>1 DEF Ownership!AtMostOneUnresolved, Ownership!Unresolved
  <2>. QED
    BY <2>1, <2>2, <2>3 DEF Ownership!Step, Ownership!LocalOutcome, Ownership!Dispatch, Ownership!NativeOutcome
<1>. QED
  BY <1>1, <1>2, TypedHolds, PTL DEF Spec, ImplementsOwnership, Ownership!Spec

----------------------------------------------------------------------------
(* Turns that go well                                                       *)

\* Nothing failed, nothing is stopped, and push() knew every time.
Good ==
    /\ stop = "idle" /\ \A t \in Turns : native[t] # "failed"
    /\ \A s \in Steers : push[s] # "unknown"

\* Nothing was withdrawn or interrupted, and only steers of a turn that was written.
Quiet ==
    /\ cancels = {}
    /\ \A s \in Steers : steer[s] \notin {"cancelled", "unconfirmed"}
    /\ \A s \in Pushed : native[of[s]] # "idle"
    /\ \A k \in 1..Len(stdin) : stdin[k].op \in {"turn", "steer"}
    /\ \A i \in 1..Len(pipe) : pipe[i].kind \in {"lifecycle", "result"}
    /\ \A i \in 1..Len(pipe) : pipe[i].kind = "lifecycle" => pipe[i].what \in {"queued", "started", "completed"}

\* A line of the pipe.
At == 1..Len(pipe)
Said(i, s, w) == pipe[i].kind = "lifecycle" /\ pipe[i].id = s /\ pipe[i].what = w
Result(i)     == pipe[i].kind = "result"

\* The turn in flight, until it ran, is alone with the CLI: no result is on its way.
TurnAlone ==
    /\ later = <<>>
    /\ \A k \in 1..Len(stdin) : stdin[k].op = "turn" =>
         /\ k = 1 /\ stdin[k].id = inflight /\ ~held[inflight]
         /\ run = None /\ waiting = <<>> /\ \A i \in At : ~Result(i)
    /\ run \in Turns => run = inflight /\ ~held[run] /\ \A i \in At : ~Result(i)

\* A steer is in one place.
Placed ==
    /\ \A k, m \in 1..Len(stdin) :
         stdin[k].op = "steer" /\ stdin[m].op = "steer" /\ stdin[k].id = stdin[m].id => k = m
    /\ \A k \in 1..Len(stdin) : stdin[k].op = "steer" =>
         stdin[k].id # run /\ \A i \in 1..Len(waiting) : waiting[i] # stdin[k].id
    /\ \A i, j \in 1..Len(waiting) : waiting[i] = waiting[j] => i = j
    /\ \A i \in 1..Len(waiting) : waiting[i] # run

\* What the session may still read of a steer that was not read, waits, runs, or ran.
Unread ==
    \A k \in 1..Len(stdin) : stdin[k].op = "steer" =>
        LET s == stdin[k].id IN
        /\ of[s] = inflight /\ steer[s] = "written"
        /\ \A i \in At : pipe[i].id # s
Waits ==
    \A m \in 1..Len(waiting) :
        LET s == waiting[m] IN
        /\ of[s] = inflight /\ steer[s] \in {"written", "queued"}
        /\ \A i \in At : pipe[i].id = s => Said(i, s, "queued")
Runs ==
    run \in Steers =>
        /\ of[run] = inflight /\ steer[run] \in {"written", "queued", "started"}
        /\ steer[run] = "started" => \A i \in At : ~Result(i)
        /\ \A i \in At : pipe[i].id = run =>
             \/ Said(i, run, "queued")
             \/ Said(i, run, "started") /\ \A j \in At : Result(j) => j < i
Ran ==
    \A j \in At : Result(j) =>
        LET r == pipe[j].id IN
        /\ r \in Turns => r = inflight /\ ~held[r] /\ \A i \in At : Result(i) => j <= i
        /\ r \in Steers =>
             /\ of[r] = inflight /\ steer[r] \in {"written", "queued", "started"}
             /\ steer[r] = "started" => \A i \in At : Result(i) => j <= i
             /\ \A i \in At : pipe[i].id = r =>
                  \/ i = j
                  \/ Said(i, r, "queued") /\ i < j
                  \/ Said(i, r, "started") /\ i < j /\ \A k \in At : Result(k) => k < i \/ j <= k
                  \/ Said(i, r, "completed") /\ j < i

\* A steer is named once, before anything else is said of it.
NamedFirst ==
    \A i \in At : \A s \in Steers : Said(i, s, "queued") /\ of[s] = inflight =>
        /\ steer[s] = "written"
        /\ \A j \in At : pipe[j].id = s /\ j # i => i < j

Core == Quiet /\ TurnAlone /\ Placed /\ Unread /\ Waits /\ Runs /\ Ran /\ NamedFirst
GoodCore == Good => Core /\ SteersStayInTurn

\* The CLI has nothing to do and said no result.
Idle ==
    /\ waiting = <<>> /\ later = <<>> /\ run = None
    /\ \A i \in At : ~Result(i)

\* Who is written to an idle CLI, with no steer yet, is alone with it.
LEMMA AloneAtFirst ==
    ASSUME Typed', Quiet', Idle', NEW w, Starts(w), stdin' = w,
           inflight' \in Turns => ~held'[inflight'], \A s \in Pushed' : of'[s] # inflight'
    PROVE  Core'
<1>. USE DEF At, Result, Said
<1>1. \A k \in 1..Len(stdin') : k = 1 /\ inflight' \in Turns /\ stdin'[k] = Msg("turn", inflight')
  <2>1. CASE inflight' \in Turns
    <3>. DEFINE m == Msg("turn", inflight')
    <3>1. stdin' = <<m>>
      BY <2>1 DEF Starts
    <3>. HIDE DEF m
    <3>2. Len(<<m>>) = 1 /\ <<m>>[1] = m
      OBVIOUS
    <3>. QED
      BY <2>1, <3>1, <3>2 DEF m
  <2>2. CASE inflight' \notin Turns
    BY <2>2, Empty DEF Starts
  <2>. QED
    BY <2>1, <2>2
<1>2. \A k \in 1..Len(stdin') : stdin'[k].op = "turn" /\ stdin'[k].id = inflight'
  BY <1>1 DEF Msg
<1>3. TurnAlone'
  BY <1>1, <1>2, Distinct DEF TurnAlone, Idle
<1>4. Placed' /\ Unread' /\ Waits' /\ Runs' /\ Ran'
  BY <1>2, Distinct, Empty DEF Placed, Unread, Waits, Runs, Ran, Idle
<1>5. NamedFirst'
  <2>1. \A i \in 1..Len(pipe') : pipe'[i].kind = "lifecycle" => pipe'[i].id \in Pushed'
    BY DEF Typed, Channels, Spoken, Lines
  <2>. QED
    BY <2>1 DEF NamedFirst
<1>. QED
  BY <1>3, <1>4, <1>5 DEF Core

\* What good turns say: the line of a lifecycle is of a pushed steer, a result of a run.
LEMMA LineIds ==
    ASSUME Typed
    PROVE  /\ \A i \in At : pipe[i].kind = "lifecycle" => pipe[i].id \in Pushed
           /\ \A i \in At : pipe[i].kind = "result" => pipe[i].id \in Turns \cup Pushed
           /\ \A i \in At : pipe[i].kind # "cancelled" /\ pipe[i].id \in Steers => pipe[i].id \in Pushed
  BY DEF Typed, Channels, Spoken, Lines, At

LEMMA SendGood ==
    ASSUME Typed, Typed', Core, NEW t \in Turns, Send(t)
    PROVE  Core'
<1>. USE DEF At, Result, Said
<1>0. /\ UNCHANGED <<held, steer, of, push, cancels, stop, stopped, waiting, later, run, pipe, history, events>>
      /\ native[t] = "idle"
  BY DEF Send
<1>1. CASE inflight # None
  <2>1. UNCHANGED <<inflight, native, stdin>>
    BY <1>1 DEF Send
  <2>2. Pushed' = Pushed
    BY <1>0, SamePushed
  <2>. QED
    BY <1>0, <2>1, <2>2 DEF Core, Quiet, TurnAlone, Placed, Unread, Waits, Runs, Ran, NamedFirst
<1>2. CASE inflight = None
  <2>1. inflight' = t /\ native' = [native EXCEPT ![t] = "unknown"] /\ stdin' = Append(stdin, Msg("turn", t))
    BY <1>2 DEF Send
  <2>2. \A s \in Pushed : of[s] # inflight /\ s \in Steers
    BY <1>2, Distinct DEF Pushed
  <2>3. stdin = <<>>
    <3>1. \A k \in 1..Len(stdin) : FALSE
      <4>. SUFFICES ASSUME NEW k \in 1..Len(stdin) PROVE FALSE
        OBVIOUS
      <4>1. stdin[k] \in Written /\ stdin[k].op \in {"turn", "steer"}
        BY DEF Typed, Channels, Core, Quiet
      <4>2. CASE stdin[k].op = "turn"
        BY <1>2, <4>1, <4>2, Distinct DEF Written, Core, TurnAlone
      <4>3. CASE stdin[k].op = "steer"
        BY <2>2, <4>1, <4>3 DEF Written, Core, Unread
      <4>. QED
        BY <4>1, <4>2, <4>3
    <3>. QED
      BY <3>1 DEF Typed, Channels
  <2>4. waiting = <<>>
    <3>1. \A k \in 1..Len(waiting) : FALSE
      <4>1. \A k \in 1..Len(waiting) : waiting[k] \in Pushed
        BY DEF Typed, Channels
      <4>2. \A k \in 1..Len(waiting) : of[waiting[k]] = inflight
        BY DEF Core, Waits
      <4>. QED
        BY <2>2, <4>1, <4>2
    <3>. QED
      BY <3>1 DEF Typed, Channels
  <2>5. run = None /\ later = <<>>
    BY <1>2, <2>2, Distinct DEF Typed, Channels, Core, Runs, TurnAlone
  <2>6. \A i \in At : ~Result(i)
    BY <1>2, <2>2, LineIds, Distinct DEF Core, Ran
  <2>7. Idle'
    BY <1>0, <2>4, <2>5, <2>6 DEF Idle
  <2>8. stdin' = <<Msg("turn", t)>> /\ Starts(stdin')
    <3>1. stdin' = <<Msg("turn", t)>>
      BY <2>1, <2>3
    <3>. QED
      BY <2>1, <3>1 DEF Starts
  <2>9. Pushed' = Pushed /\ \A s \in Pushed : of[s] # t
    BY <1>0, SamePushed DEF Core, Quiet
  <2>10. Quiet'
    <3>1. \A s \in Pushed : native'[of[s]] # "idle"
      BY <2>1, <2>9 DEF Core, Quiet, Typed, Owned, Pushed
    <3>2. \A k \in 1..Len(stdin') : stdin'[k].op = "turn"
      BY <2>8, Single DEF Msg
    <3>. QED
      BY <1>0, <2>9, <3>1, <3>2 DEF Core, Quiet
  <2>11. ~held'[t]
    BY <1>0, <1>2, Distinct DEF Typed, Owned
  <2>. QED
    BY <1>0, <2>1, <2>7, <2>8, <2>9, <2>10, <2>11, AloneAtFirst
<1>. QED
  BY <1>1, <1>2

LEMMA PushGood ==
    ASSUME Typed, Typed', Core, NEW s \in Steers, Push(s)
    PROVE  Core'
<1>. USE DEF At, Result, Said
<1>0. /\ UNCHANGED <<inflight, queue, native, held, cancels, stop, stopped, waiting, later, run, pipe, history, events>>
      /\ push[s] = "idle"
  BY DEF Push
<1>1. CASE inflight = None
  <2>1. UNCHANGED <<steer, of, stdin>>
    BY <1>1 DEF Push
  <2>2. Pushed' = Pushed
    BY <2>1, SamePushed
  <2>. QED
    BY <1>0, <2>1, <2>2 DEF Core, Quiet, TurnAlone, Placed, Unread, Waits, Runs, Ran, NamedFirst
<1>2. CASE inflight # None
  <2>1. /\ steer' = [steer EXCEPT ![s] = "written"] /\ inflight \in Turns
        /\ of' = [of EXCEPT ![s] = inflight] /\ stdin' = Append(stdin, Msg("steer", s))
    BY <1>2 DEF Push, Typed, Owned
  <2>2. /\ \A x \in Steers : of'[x] = IF x = s THEN inflight ELSE of[x]
        /\ \A x \in Steers : steer'[x] = IF x = s THEN "written" ELSE steer[x]
    BY <2>1 DEF Typed, Known
  <2>3. s \notin Pushed /\ Pushed' = Pushed \cup {s}
    BY <1>0, <2>1, <2>2, Distinct DEF Typed, Known, Pushed
  <2>4. /\ \A i \in 1..Len(pipe) : pipe[i].id # s
        /\ \A i \in 1..Len(waiting) : waiting[i] # s /\ waiting[i] \in Steers
        /\ run # s
    <3>1. \A i \in 1..Len(pipe) : pipe[i].id # s
      BY <2>3, LineIds DEF Core, Quiet
    <3>2. run # s /\ \A i \in 1..Len(waiting) : waiting[i] # s /\ waiting[i] \in Steers
      BY <2>3, Distinct DEF Typed, Channels, Pushed
    <3>. QED
      BY <3>1, <3>2
  <2>5. \A k \in 1..Len(stdin) : stdin[k].op = "steer" => stdin[k].id # s /\ stdin[k].id \in Steers
    BY <2>3 DEF Typed, Channels, Written, Pushed
  <2>6. \A k \in 1..Len(stdin') : \/ k \in 1..Len(stdin) /\ stdin'[k] = stdin[k]
                                  \/ k = Len(stdin) + 1 /\ stdin'[k].op = "steer" /\ stdin'[k].id = s
    <3>1. Msg("steer", s) \in Written' /\ stdin \in Seq(Written')
      BY <2>3, Widened DEF Msg, Written, Messages, Typed, Channels
    <3>. QED
      BY <2>1, <3>1, Added DEF Msg
  <2>7. Quiet'
    <3>1. \A x \in Pushed' : native[of'[x]] # "idle"
      BY <2>1, <2>2, <2>3 DEF Core, Quiet, Typed, Owned, Pushed
    <3>. QED
      BY <1>0, <2>2, <2>6, <3>1 DEF Core, Quiet
  <2>8. TurnAlone'
    BY <1>0, <2>6 DEF Core, TurnAlone
  <2>9. Placed'
    BY <1>0, <2>4, <2>5, <2>6 DEF Core, Placed
  <2>10. Unread'
    BY <1>0, <2>2, <2>4, <2>5, <2>6 DEF Core, Unread
  <2>11. Waits' /\ Runs'
    BY <1>0, <2>2, <2>4 DEF Core, Waits, Runs
  <2>12. Ran' /\ NamedFirst'
    BY <1>0, <2>2, <2>4 DEF Core, Ran, NamedFirst
  <2>. QED
    BY <2>7, <2>8, <2>9, <2>10, <2>11, <2>12 DEF Core
<1>. QED
  BY <1>1, <1>2

\* A line is read and the pipe moves up.
LEMMA PipeMovesUp ==
    ASSUME Typed, NEW kind, Reads(kind)
    PROVE  /\ 1 \in 1..Len(pipe) /\ pipe[1].kind = kind /\ Head(pipe) = pipe[1]
           /\ \A i \in 1..Len(pipe') : /\ pipe'[i] = pipe[i + 1] /\ i + 1 \in 1..Len(pipe)
                                       /\ 1 < i + 1 /\ i \in Nat
           /\ \A i, j \in 1..Len(pipe') : (i < j <=> i + 1 < j + 1) /\ (i <= j <=> i + 1 <= j + 1)
  BY ReadsLine

LEMMA ReadLifecycleGood ==
    ASSUME Typed, Typed', Core, ReadLifecycle
    PROVE  Core'
<1>. USE DEF At, Result, Said
<1>. DEFINE s == Head(pipe).id
            w == Head(pipe).what
<1>0. /\ UNCHANGED <<events, of, cancels, stop, stopped, waiting, later, run, history>>
      /\ Reads("lifecycle")
  BY DEF ReadLifecycle
<1>1. /\ 1 \in 1..Len(pipe) /\ pipe[1].kind = "lifecycle" /\ Head(pipe) = pipe[1]
      /\ \A i \in 1..Len(pipe') : pipe'[i] = pipe[i + 1] /\ i + 1 \in 1..Len(pipe) /\ 1 < i + 1 /\ i \in Nat
      /\ \A i, j \in 1..Len(pipe') : (i < j <=> i + 1 < j + 1) /\ (i <= j <=> i + 1 <= j + 1)
  BY <1>0, PipeMovesUp
<1>2. s \in Pushed /\ s \in Steers /\ w \in {"queued", "started", "completed"} /\ Said(1, s, w)
  BY <1>1, LineIds DEF Core, Quiet, Pushed
<1>3. UNCHANGED <<held, inflight, queue, native, stdin>>
  BY <1>2 DEF ReadLifecycle
<1>4. steer' = IF of[s] = inflight THEN [steer EXCEPT ![s] = w] ELSE steer
  <2>1. of[s] # None
    BY <1>2, Distinct DEF Pushed
  <2>. QED
    BY <2>1 DEF ReadLifecycle
<1>5. \A x \in Steers : steer'[x] = IF x = s /\ of[s] = inflight THEN w ELSE steer[x]
  BY <1>4 DEF Typed, Known
<1>6. Pushed' = Pushed
  BY <1>0, SamePushed
<1>7. pipe[1].id = s /\ pipe[1].what = w
  BY <1>1
<1>. HIDE DEF s, w
<1>8. Quiet'
  BY <1>0, <1>1, <1>2, <1>3, <1>5, <1>6 DEF Core, Quiet
<1>9. TurnAlone' /\ Placed'
  BY <1>0, <1>1, <1>3 DEF Core, TurnAlone, Placed
<1>10. Unread'
  <2>1. \A k \in 1..Len(stdin) : stdin[k].op = "steer" => stdin[k].id # s /\ stdin[k].id \in Steers
    BY <1>1, <1>7 DEF Core, Unread, Typed, Channels, Written, Pushed
  <2>2. \A k \in 1..Len(stdin) : stdin[k].op = "steer" =>
          of[stdin[k].id] = inflight /\ steer[stdin[k].id] = "written" /\ \A i \in At : pipe[i].id # stdin[k].id
    BY DEF Core, Unread
  <2>3. \A k \in 1..Len(stdin) : stdin[k].op = "steer" =>
          steer'[stdin[k].id] = "written" /\ \A i \in At' : pipe'[i].id # stdin[k].id
    BY <1>1, <1>5, <2>1, <2>2
  <2>. QED
    BY <1>0, <1>3, <2>2, <2>3 DEF Unread
<1>11. Waits'
  <2>1. \A m \in 1..Len(waiting) : waiting[m] \in Steers /\ (waiting[m] = s => w = "queued")
    <3>. SUFFICES ASSUME NEW m \in 1..Len(waiting) PROVE waiting[m] \in Steers /\ (waiting[m] = s => w = "queued")
      OBVIOUS
    <3>1. waiting[m] \in Steers
      BY DEF Typed, Channels, Pushed
    <3>2. pipe[1].id = waiting[m] => Said(1, waiting[m], "queued")
      BY <1>1 DEF Core, Waits
    <3>. QED
      BY <1>7, <3>1, <3>2
  <2>. QED
    BY <1>0, <1>1, <1>3, <1>5, <2>1 DEF Core, Waits
<1>12. Runs'
  <2>1. run = s => w = "queued" \/ (w = "started" /\ \A j \in At : ~Result(j))
    <3>. SUFFICES ASSUME run = s PROVE w = "queued" \/ (w = "started" /\ \A j \in At : ~Result(j))
      OBVIOUS
    <3>1. \/ Said(1, run, "queued")
          \/ Said(1, run, "started") /\ \A j \in At : Result(j) => j < 1
      BY <1>1, <1>2, <1>7 DEF Core, Runs
    <3>2. \A j \in At : ~(j < 1)
      BY DEF Typed, Channels
    <3>. QED
      BY <1>7, <3>1, <3>2
  <2>. SUFFICES ASSUME run \in Steers
                PROVE  /\ steer'[run] \in {"written", "queued", "started"}
                       /\ steer'[run] = "started" => \A i \in At' : ~Result(i)'
                       /\ \A i \in At' : pipe'[i].id = run =>
                            \/ Said(i, run, "queued")'
                            \/ Said(i, run, "started")' /\ \A j \in At' : Result(j)' => j < i
    BY <1>0, <1>3 DEF Core, Runs
  <2>2. /\ steer[run] \in {"written", "queued", "started"}
        /\ steer[run] = "started" => \A i \in At : ~Result(i)
        /\ \A i \in At : pipe[i].id = run =>
             \/ Said(i, run, "queued")
             \/ Said(i, run, "started") /\ \A j \in At : Result(j) => j < i
    BY DEF Core, Runs
  <2>3. steer'[run] = "started" => \A i \in At : ~Result(i)
    BY <1>5, <2>1, <2>2
  <2>4. steer'[run] \in {"written", "queued", "started"}
    BY <1>5, <2>1, <2>2
  <2>5. \A i \in At' : i + 1 \in At /\ pipe'[i] = pipe[i + 1]
    BY <1>1
  <2>6. ASSUME NEW i \in At', pipe'[i].id = run
        PROVE  \/ Said(i, run, "queued")'
               \/ Said(i, run, "started")' /\ \A j \in At' : Result(j)' => j < i
    <3>1. \/ Said(i + 1, run, "queued")
          \/ Said(i + 1, run, "started") /\ \A j \in At : Result(j) => j < i + 1
      BY <2>2, <2>5, <2>6
    <3>2. ASSUME \A j \in At : Result(j) => j < i + 1 PROVE \A j \in At' : Result(j)' => j < i
      <4>. SUFFICES ASSUME NEW j \in At', Result(j)' PROVE j < i
        OBVIOUS
      <4>1. j + 1 < i + 1
        BY <2>5, <3>2
      <4>. QED
        BY <1>1, <4>1
    <3>0. pipe'[i] = pipe[i + 1]
      BY <2>5
    <3>3. Said(i + 1, run, "queued") = Said(i, run, "queued")' /\ Said(i + 1, run, "started") = Said(i, run, "started")'
      BY <1>0, <3>0
    <3>. HIDE DEF Said, Result
    <3>. QED
      BY <3>1, <3>2, <3>3
  <2>. QED
    BY <2>3, <2>4, <2>5, <2>6
<1>13. Ran'
  <2>. SUFFICES ASSUME NEW j \in 1..Len(pipe'), pipe'[j].kind = "result", NEW r, r = pipe'[j].id
                PROVE /\ r \in Turns => r = inflight /\ ~held[r] /\ \A i \in At' : Result(i)' => j <= i
                      /\ r \in Steers =>
                          /\ of[r] = inflight /\ steer'[r] \in {"written", "queued", "started"}
                          /\ steer'[r] = "started" => \A i \in At' : Result(i)' => j <= i
                          /\ \A i \in At' : pipe'[i].id = r =>
                                  \/ i = j
                                  \/ Said(i, r, "queued")' /\ i < j
                                  \/ Said(i, r, "started")' /\ i < j /\ \A k \in At' : Result(k)' => k < i \/ j <= k
                                  \/ Said(i, r, "completed")' /\ j < i
    BY <1>0, <1>3 DEF Ran
  <2>1. j + 1 \in At /\ Result(j + 1) /\ pipe[j + 1].id = r
    BY <1>1
  <2>2. ASSUME r \in Turns PROVE r = inflight /\ ~held[r] /\ \A i \in At' : Result(i)' => j <= i
    <3>1. r = inflight /\ ~held[r] /\ \A i \in At : Result(i) => j + 1 <= i
      BY <2>1, <2>2 DEF Core, Ran
    <3>. QED
      BY <1>1, <3>1
  <2>3. ASSUME r \in Steers
        PROVE /\ of[r] = inflight /\ steer[r] \in {"written", "queued", "started"}
              /\ steer[r] = "started" => \A i \in At : Result(i) => j + 1 <= i
              /\ \A i \in At : pipe[i].id = r =>
                                  \/ i = j + 1
                                  \/ Said(i, r, "queued") /\ i < j + 1
                                  \/ Said(i, r, "started") /\ i < j + 1 /\ \A k \in At : Result(k) => k < i \/ j + 1 <= k
                                  \/ Said(i, r, "completed") /\ j + 1 < i
    BY <2>1, <2>3 DEF Core, Ran
  <2>4. ASSUME r \in Steers, r = s
        PROVE  w = "queued" \/ (w = "started" /\ \A k \in At : Result(k) => j + 1 <= k)
    <3>1. \/ 1 = j + 1
          \/ w = "queued"
          \/ w = "started" /\ \A k \in At : Result(k) => k < 1 \/ j + 1 <= k
          \/ w = "completed" /\ j + 1 < 1
      BY <1>1, <1>2, <1>7, <2>3, <2>4
    <3>2. j # 0 /\ \A k \in At : ~(k < 1)
      BY DEF Typed, Channels
    <3>. QED
      BY <1>1, <3>1, <3>2
  <2>5. ASSUME r \in Steers
        PROVE  /\ of[r] = inflight /\ steer'[r] \in {"written", "queued", "started"}
               /\ steer'[r] = "started" => \A i \in At' : Result(i)' => j <= i
    <3>1. steer'[r] \in {"written", "queued", "started"}
      BY <1>5, <2>3, <2>4, <2>5
    <3>2. steer'[r] = "started" => \A k \in At : Result(k) => j + 1 <= k
      BY <1>5, <2>3, <2>4, <2>5
    <3>. QED
      BY <1>1, <2>3, <2>5, <3>1, <3>2
  <2>6. ASSUME r \in Steers, NEW i \in At', pipe'[i].id = r
        PROVE  \/ i = j
               \/ Said(i, r, "queued")' /\ i < j
               \/ Said(i, r, "started")' /\ i < j /\ \A k \in At' : Result(k)' => k < i \/ j <= k
               \/ Said(i, r, "completed")' /\ j < i
    <3>1. \/ i + 1 = j + 1
          \/ Said(i + 1, r, "queued") /\ i + 1 < j + 1
          \/ Said(i + 1, r, "started") /\ i + 1 < j + 1 /\ \A k \in At : Result(k) => k < i + 1 \/ j + 1 <= k
          \/ Said(i + 1, r, "completed") /\ j + 1 < i + 1
      BY <1>1, <2>3, <2>6
    <3>2. ASSUME \A k \in At : Result(k) => k < i + 1 \/ j + 1 <= k
          PROVE  \A k \in At' : Result(k)' => k < i \/ j <= k
      <4>. SUFFICES ASSUME NEW k \in At', Result(k)' PROVE k < i \/ j <= k
        OBVIOUS
      <4>1. k + 1 \in At /\ Result(k + 1)
        BY <1>1
      <4>. QED
        BY <1>1, <3>2, <4>1
    <3>3. Said(i + 1, r, "queued") = Said(i, r, "queued")' /\ Said(i + 1, r, "started") = Said(i, r, "started")'
          /\ Said(i + 1, r, "completed") = Said(i, r, "completed")'
      BY <1>1
    <3>. HIDE DEF Said, Result
    <3>4. (i + 1 = j + 1 => i = j) /\ (i + 1 < j + 1 => i < j) /\ (j + 1 < i + 1 => j < i)
      BY <1>1
    <3>. QED
      BY <3>1, <3>2, <3>3, <3>4
  <2>. QED
    BY <2>2, <2>5, <2>6
<1>14. NamedFirst'
  <2>. SUFFICES ASSUME NEW i \in At', NEW x \in Steers, Said(i, x, "queued")', of[x] = inflight
                PROVE  steer'[x] = "written" /\ \A j \in At' : pipe'[j].id = x /\ j # i => i < j
    BY <1>0, <1>3 DEF NamedFirst
  <2>1. i + 1 \in At /\ Said(i + 1, x, "queued")
    BY <1>1
  <2>2. steer[x] = "written" /\ \A j \in At : pipe[j].id = x /\ j # i + 1 => i + 1 < j
    BY <2>1 DEF Core, NamedFirst
  <2>3. x # s
    BY <1>1, <1>7, <2>2
  <2>4. ASSUME NEW j \in At', pipe'[j].id = x, j # i PROVE i < j
    <3>1. j + 1 \in At /\ pipe[j + 1].id = x /\ j + 1 # i + 1
      BY <1>1, <2>4
    <3>2. i + 1 < j + 1
      BY <2>2, <3>1
    <3>. QED
      BY <1>1, <3>2
  <2>. QED
    BY <1>5, <2>2, <2>3, <2>4
<1>. QED
  BY <1>8, <1>9, <1>10, <1>11, <1>12, <1>13, <1>14 DEF Core

\* A result that is read is of a run of the turn in flight: of the turn or one of its
\* steers, and no other turn's result is on its way.
LEMMA ResultIsOwn ==
    ASSUME Typed, Core, Reads("result")
    PROVE  /\ Owner(Head(pipe).id) = inflight /\ inflight \in Turns
           /\ \A k \in 1..Len(stdin) : stdin[k].op = "steer" /\ stdin[k].id \in Steers
           /\ run \notin Turns
           /\ \A i \in At : Result(i) /\ i # 1 => pipe[i].id \in Steers
<1>. USE DEF At, Result, Said
<1>1. 1 \in 1..Len(pipe) /\ pipe[1].kind = "result" /\ Head(pipe) = pipe[1]
  BY PipeMovesUp
<1>2. pipe[1].id \in Turns \cup Pushed
  BY <1>1, LineIds
<1>3. Owner(Head(pipe).id) = inflight /\ inflight \in Turns
  <2>1. CASE pipe[1].id \in Turns
    BY <1>1, <2>1 DEF Owner, Core, Ran
  <2>2. CASE pipe[1].id \in Pushed
    <3>1. pipe[1].id \in Steers /\ pipe[1].id \notin Turns /\ of[pipe[1].id] \in Turns
      BY <2>2, Distinct DEF Pushed
    <3>. QED
      BY <1>1, <3>1 DEF Owner, Core, Ran
  <2>. QED
    BY <1>2, <2>1, <2>2
<1>4. \A k \in 1..Len(stdin) : stdin[k].op # "turn"
  BY <1>1 DEF Core, TurnAlone
<1>5. \A k \in 1..Len(stdin) : stdin[k].op = "steer" /\ stdin[k].id \in Steers
  BY <1>4 DEF Core, Quiet, Typed, Channels, Written, Pushed
<1>6. run \notin Turns
  BY <1>1 DEF Core, TurnAlone
<1>7. \A i \in At : Result(i) /\ i # 1 => pipe[i].id \in Steers
  <2>. SUFFICES ASSUME NEW i \in At, Result(i), i # 1, pipe[i].id \in Turns PROVE FALSE
    BY LineIds DEF Pushed
  <2>1. i <= 1
    BY <1>1 DEF Core, Ran
  <2>. QED
    BY <2>1 DEF Typed, Channels
<1>. QED
  BY <1>3, <1>5, <1>6, <1>7

\* What a pipe still says of the steers, one line on.
LEMMA ResultPopped ==
    ASSUME Typed, Typed', Core, Reads("result"), UNCHANGED <<inflight, of, steer, run, waiting, stdin>>
    PROVE  Unread' /\ Waits' /\ Runs' /\ NamedFirst'
<1>. USE DEF At, Result, Said
<1>1. \A i \in 1..Len(pipe') : pipe'[i] = pipe[i + 1] /\ i + 1 \in 1..Len(pipe)
  BY PipeMovesUp
<1>2. Unread' /\ Waits'
  BY <1>1 DEF Core, Unread, Waits
<1>3. Runs'
  <2>. SUFFICES ASSUME run \in Steers PROVE Runs'
    BY DEF Runs
  <2>1. \A i \in 1..Len(pipe) : pipe[i].id = run =>
             \/ Said(i, run, "queued")
             \/ Said(i, run, "started") /\ \A j \in At : Result(j) => j < i
    BY DEF Core, Runs
  <2>2. \A i \in 1..Len(pipe') : pipe'[i].id = run =>
             \/ Said(i, run, "queued")'
             \/ Said(i, run, "started")' /\ \A j \in At' : Result(j)' => j < i
    <3>. SUFFICES ASSUME NEW i \in 1..Len(pipe'), pipe'[i].id = run, ~Said(i, run, "queued")'
                  PROVE  Said(i, run, "started")' /\ \A j \in At' : Result(j)' => j < i
      OBVIOUS
    <3>1. Said(i + 1, run, "started") /\ \A j \in At : Result(j) => j < i + 1
      BY <1>1, <2>1
    <3>2. ASSUME NEW j \in At', Result(j)' PROVE j < i
      <4>1. j + 1 \in At /\ Result(j + 1) /\ i \in Nat /\ j \in Nat
        BY <1>1, <3>2
      <4>2. j + 1 < i + 1
        BY <3>1, <4>1
      <4>. QED
        BY <4>1, <4>2
    <3>. QED
      BY <1>1, <3>1, <3>2
  <2>. QED
    BY <1>1, <2>2 DEF Core, Runs
<1>4. NamedFirst'
  <2>. SUFFICES ASSUME NEW i \in At', NEW x \in Steers, Said(i, x, "queued")', of[x] = inflight
                PROVE  steer[x] = "written" /\ \A j \in At' : pipe'[j].id = x /\ j # i => i < j
    BY DEF NamedFirst
  <2>1. i + 1 \in At /\ Said(i + 1, x, "queued")
    BY <1>1
  <2>2. steer[x] = "written" /\ \A j \in At : pipe[j].id = x /\ j # i + 1 => i + 1 < j
    BY <2>1 DEF Core, NamedFirst
  <2>. QED
    BY <1>1, <2>2
<1>. QED
  BY <1>2, <1>3, <1>4

LEMMA CreditOwn ==
    ASSUME Typed, Core, SteersStayInTurn, Reads("result"), inflight # None, Credit
    PROVE  SteersStayInTurn'
  BY ResultIsOwn, CreditTyped DEF SteersStayInTurn, Typed, Calls

LEMMA ReadHoldsGood ==
    ASSUME Typed, Typed', Core, SteersStayInTurn, ReadHolds
    PROVE  Core' /\ SteersStayInTurn'
<1>. USE DEF At, Result, Said
<1>0. /\ UNCHANGED <<events, inflight, queue, native, steer, of, push, cancels, stop, stopped, stdin, waiting, later,
                     run, hit, asked>>
      /\ Reads("result") /\ inflight # None /\ Credit /\ held' = [held EXCEPT ![inflight] = TRUE]
  BY DEF ReadHolds
<1>1. SteersStayInTurn'
  BY <1>0, CreditOwn
<1>2. /\ \A k \in 1..Len(stdin) : stdin[k].op = "steer"
      /\ run \notin Turns
      /\ \A i \in At : Result(i) /\ i # 1 => pipe[i].id \in Steers
  BY <1>0, ResultIsOwn
<1>3. \A i \in 1..Len(pipe') : pipe'[i] = pipe[i + 1] /\ i + 1 \in 1..Len(pipe) /\ i \in Nat
  BY <1>0, PipeMovesUp
<1>4. Pushed' = Pushed
  BY <1>0, SamePushed
<1>5. Quiet' /\ TurnAlone' /\ Placed'
  BY <1>0, <1>2, <1>3, <1>4 DEF Core, Quiet, TurnAlone, Placed
<1>6. Unread' /\ Waits' /\ Runs' /\ NamedFirst'
  BY <1>0, ResultPopped
<1>7. Ran'
  <2>. SUFFICES ASSUME NEW j \in 1..Len(pipe'), pipe'[j].kind = "result", NEW r, r = pipe'[j].id
                PROVE /\ r \notin Turns
                      /\ r \in Steers =>
                          /\ of[r] = inflight /\ steer[r] \in {"written", "queued", "started"}
                          /\ steer[r] = "started" => \A i \in At' : Result(i)' => j <= i
                          /\ \A i \in At' : pipe'[i].id = r =>
                                  \/ i = j
                                  \/ Said(i, r, "queued")' /\ i < j
                                  \/ Said(i, r, "started")' /\ i < j /\ \A k \in At' : Result(k)' => k < i \/ j <= k
                                  \/ Said(i, r, "completed")' /\ j < i
    BY <1>0 DEF Ran
  <2>1. j + 1 \in At /\ Result(j + 1) /\ pipe[j + 1].id = r /\ r \in Steers /\ r \notin Turns
    BY <1>2, <1>3, Distinct
  <2>2. /\ of[r] = inflight /\ steer[r] \in {"written", "queued", "started"}
        /\ steer[r] = "started" => \A i \in At : Result(i) => j + 1 <= i
        /\ \A i \in At : pipe[i].id = r =>
                                  \/ i = j + 1
                                  \/ Said(i, r, "queued") /\ i < j + 1
                                  \/ Said(i, r, "started") /\ i < j + 1 /\ \A k \in At : Result(k) => k < i \/ j + 1 <= k
                                  \/ Said(i, r, "completed") /\ j + 1 < i
    BY <2>1 DEF Core, Ran
  <2>3. steer[r] = "started" => \A i \in At' : Result(i)' => j <= i
    BY <1>3, <2>2
  <2>4. ASSUME NEW i \in At', pipe'[i].id = r
        PROVE  \/ i = j
               \/ Said(i, r, "queued")' /\ i < j
               \/ Said(i, r, "started")' /\ i < j /\ \A k \in At' : Result(k)' => k < i \/ j <= k
               \/ Said(i, r, "completed")' /\ j < i
    <3>1. \/ i + 1 = j + 1
          \/ Said(i + 1, r, "queued") /\ i + 1 < j + 1
          \/ Said(i + 1, r, "started") /\ i + 1 < j + 1 /\ \A k \in At : Result(k) => k < i + 1 \/ j + 1 <= k
          \/ Said(i + 1, r, "completed") /\ j + 1 < i + 1
      BY <1>3, <2>2, <2>4
    <3>2. ASSUME \A k \in At : Result(k) => k < i + 1 \/ j + 1 <= k
          PROVE  \A k \in At' : Result(k)' => k < i \/ j <= k
      <4>. SUFFICES ASSUME NEW k \in At', Result(k)' PROVE k < i \/ j <= k
        OBVIOUS
      <4>1. k + 1 \in At /\ Result(k + 1)
        BY <1>3
      <4>. QED
        BY <1>3, <3>2, <4>1
    <3>3. Said(i + 1, r, "queued") = Said(i, r, "queued")' /\ Said(i + 1, r, "started") = Said(i, r, "started")'
          /\ Said(i + 1, r, "completed") = Said(i, r, "completed")'
      BY <1>3
    <3>. HIDE DEF Said, Result
    <3>4. (i + 1 = j + 1 => i = j) /\ (i + 1 < j + 1 => i < j) /\ (j + 1 < i + 1 => j < i)
      BY <1>3
    <3>. QED
      BY <3>1, <3>2, <3>3, <3>4
  <2>. QED
    BY <2>1, <2>2, <2>3, <2>4
<1>. QED
  BY <1>1, <1>5, <1>6, <1>7 DEF Core

LEMMA ReadCompletesGood ==
    ASSUME Typed, Typed', Core, SteersStayInTurn, ReadCompletes
    PROVE  Core' /\ SteersStayInTurn'
<1>. USE DEF At, Result, Said
<1>0. /\ UNCHANGED <<events, steer, of, push, cancels, stop, stopped, waiting, later, run, hit, asked>>
      /\ Reads("result") /\ inflight # None /\ Waiting(inflight, steer) = {} /\ Credit
      /\ held' = [held EXCEPT ![inflight] = FALSE] /\ Ends("completed", <<>>) /\ Moves
      /\ native'[inflight] # "idle"
  BY ReadCompletesTyped DEF ReadCompletes, Ends
<1>1. SteersStayInTurn'
  BY <1>0, CreditOwn
<1>2. /\ \A k \in 1..Len(stdin) : stdin[k].op = "steer" /\ stdin[k].id \in Steers
      /\ run \notin Turns /\ inflight \in Turns
      /\ \A i \in At : Result(i) /\ i # 1 => pipe[i].id \in Steers
  BY <1>0, ResultIsOwn
<1>3. \A s \in Steers : of[s] = inflight => steer[s] \notin {"written", "queued"}
  BY <1>0 DEF Waiting
<1>4. 1 \in At /\ Result(1) /\ \A i \in 1..Len(pipe') : pipe'[i] = pipe[i + 1] /\ i + 1 \in 1..Len(pipe) /\ 1 < i + 1
  BY <1>0, PipeMovesUp
<1>5. stdin = <<>>
  <2>1. \A k \in 1..Len(stdin) : FALSE
    BY <1>2, <1>3 DEF Core, Unread
  <2>. QED
    BY <2>1 DEF Typed, Channels
<1>6. waiting = <<>>
  <2>1. \A m \in 1..Len(waiting) : waiting[m] \in Steers
    BY DEF Typed, Channels, Pushed
  <2>2. \A m \in 1..Len(waiting) : FALSE
    BY <1>3, <2>1 DEF Core, Waits
  <2>. QED
    BY <2>2 DEF Typed, Channels
<1>7. run = None
  <2>1. run \notin Steers
    BY <1>3, <1>4 DEF Core, Runs
  <2>. QED
    BY <1>2, <2>1 DEF Typed, Channels, Pushed
<1>8. \A i \in 1..Len(pipe') : pipe'[i].kind # "result"
  <2>. SUFFICES ASSUME NEW i \in 1..Len(pipe'), pipe'[i].kind = "result" PROVE FALSE
    OBVIOUS
  <2>1. i + 1 \in At /\ Result(i + 1) /\ pipe[i + 1].id \in Steers /\ 1 < i + 1
    BY <1>2, <1>4
  <2>2. \A j \in At : Result(j) => i + 1 <= j
    BY <1>3, <2>1 DEF Core, Ran
  <2>3. i + 1 <= 1
    BY <1>4, <2>2
  <2>. QED
    BY <2>1, <2>3
<1>9. later = <<>>
  BY DEF Core, TurnAlone
<1>10. Pushed' = Pushed
  BY <1>0, SamePushed
<1>11. PICK w \in Seq(Written) : Starts(w) /\ stdin' = stdin \o (<<>> \o w)
  BY <1>0 DEF Ends
<1>12. stdin' = w
  BY <1>5, <1>11
<1>13. \A s \in Pushed : native'[of[s]] # "idle" /\ of[s] # inflight'
  <2>. SUFFICES ASSUME NEW s \in Pushed PROVE native'[of[s]] # "idle" /\ of[s] # inflight'
    OBVIOUS
  <2>1. of[s] \in Turns /\ native[of[s]] # "idle"
    BY DEF Core, Quiet, Pushed
  <2>2. native'[of[s]] # "idle"
    BY <1>0, <2>1 DEF Moves
  <2>3. native'[of[s]] # "unknown"
    BY <1>0, <1>2, <2>1 DEF Moves, Ends, Typed, Owned
  <2>. QED
    BY <2>1, <2>2, <2>3 DEF Typed, Owned
<1>14. \A k \in 1..Len(stdin') : stdin'[k].op = "turn"
  <2>1. CASE inflight' \in Turns
    <3>1. w = <<Msg("turn", inflight')>>
      BY <1>11, <2>1 DEF Starts
    <3>. QED
      BY <1>12, <3>1, Single DEF Msg
  <2>2. CASE inflight' \notin Turns
    BY <1>11, <1>12, <2>2, Empty DEF Starts
  <2>. QED
    BY <2>1, <2>2
<1>15. Quiet'
  <2>1. \A i \in 1..Len(pipe') : /\ pipe'[i].kind \in {"lifecycle", "result"}
                                 /\ pipe'[i].kind = "lifecycle" => pipe'[i].what \in {"queued", "started", "completed"}
    BY <1>4 DEF Core, Quiet
  <2>. QED
    BY <1>0, <1>10, <1>13, <1>14, <2>1 DEF Core, Quiet
<1>16. inflight' \in Turns => ~held'[inflight']
  <2>1. inflight' # inflight
    BY <1>0, <1>2 DEF Ends, Typed, Owned
  <2>. QED
    BY <1>0, <1>2, <2>1 DEF Typed, Owned
<1>17. Idle'
  BY <1>0, <1>6, <1>7, <1>8, <1>9 DEF Idle
<1>. QED
  BY <1>0, <1>1, <1>10, <1>11, <1>12, <1>13, <1>15, <1>16, <1>17, AloneAtFirst

----------------------------------------------------------------------------
(* The CLI in good turns                                                    *)

LEMMA CliTakesTurnGood ==
    ASSUME Typed, Typed', Core, CliTakesTurn
    PROVE  Core'
<1>. USE DEF At, Result, Said
<1>0. UNCHANGED <<events, session, waiting, pipe, history>> /\ Takes("turn")
  BY DEF CliTakesTurn
<1>1. /\ stdin[1].op = "turn" /\ Head(stdin) = stdin[1] /\ 1 \in 1..Len(stdin)
      /\ \A k \in 1..Len(stdin') : stdin'[k] = stdin[k + 1] /\ k + 1 \in 1..Len(stdin) /\ k + 1 # 1
      /\ \A k, m \in 1..Len(stdin') : k + 1 = m + 1 => k = m
  BY <1>0, TakesMessage
<1>2. run = None /\ waiting = <<>> /\ later = <<>> /\ stdin[1].id = inflight /\ ~held[inflight]
      /\ \A i \in At : ~Result(i)
  BY <1>1 DEF Core, TurnAlone
<1>3. run' = inflight /\ later' = later /\ inflight \in Turns
  BY <1>1, <1>2, TakesMessage DEF CliTakesTurn, Written
<1>4. \A k \in 1..Len(stdin') : stdin'[k].op = "steer" /\ stdin'[k].id \in Steers
  <2>1. \A k \in 1..Len(stdin) : k # 1 => stdin[k].op = "steer"
    BY DEF Core, Quiet, TurnAlone
  <2>2. \A k \in 1..Len(stdin) : stdin[k].op = "steer" => stdin[k].id \in Steers
    BY DEF Typed, Channels, Written, Pushed
  <2>. QED
    BY <1>1, <2>1, <2>2
<1>5. Pushed' = Pushed
  BY <1>0, SamePushed DEF session
<1>6. Quiet'
  BY <1>0, <1>1, <1>5 DEF Core, Quiet, session
<1>7. TurnAlone'
  BY <1>0, <1>2, <1>3, <1>4 DEF Core, TurnAlone, session
<1>8. Placed'
  <2>1. waiting' = <<>> /\ Len(waiting') = 0
    BY <1>0, <1>2
  <2>2. ASSUME NEW k \in 1..Len(stdin'), NEW m \in 1..Len(stdin'), stdin'[k].id = stdin'[m].id PROVE k = m
    <3>1. /\ k + 1 \in 1..Len(stdin) /\ m + 1 \in 1..Len(stdin)
          /\ stdin[k + 1].op = "steer" /\ stdin[m + 1].op = "steer" /\ stdin[k + 1].id = stdin[m + 1].id
      BY <1>1, <1>4, <2>2
    <3>2. k + 1 = m + 1
      BY <3>1 DEF Core, Placed
    <3>. QED
      BY <1>1, <3>2
  <2>3. \A k \in 1..Len(stdin') : stdin'[k].id # run'
    BY <1>3, <1>4, Distinct
  <2>. QED
    BY <2>1, <2>2, <2>3 DEF Placed
<1>9. Unread'
  <2>1. \A k \in 1..Len(stdin') : /\ of[stdin'[k].id] = inflight /\ steer[stdin'[k].id] = "written"
                                  /\ \A i \in At : pipe[i].id # stdin'[k].id
    <3>. SUFFICES ASSUME NEW k \in 1..Len(stdin')
                  PROVE  /\ of[stdin'[k].id] = inflight /\ steer[stdin'[k].id] = "written"
                         /\ \A i \in At : pipe[i].id # stdin'[k].id
      OBVIOUS
    <3>1. stdin'[k] = stdin[k + 1] /\ k + 1 \in 1..Len(stdin) /\ stdin[k + 1].op = "steer"
      BY <1>1, <1>4
    <3>. QED
      BY <3>1 DEF Core, Unread
  <2>. QED
    BY <1>0, <2>1 DEF Unread, session, history
<1>10. Waits' /\ Runs' /\ Ran' /\ NamedFirst'
  BY <1>0, <1>2, <1>3, Distinct DEF Core, Waits, Runs, Ran, NamedFirst, session
<1>. QED
  BY <1>6, <1>7, <1>8, <1>9, <1>10 DEF Core

\* The lines that were there stay, and those of w come after them.
LEMMA PipeGrows ==
    ASSUME Typed, NEW w \in Seq(Spoken), pipe' = pipe \o w
    PROVE  /\ Len(pipe) \in Nat /\ Len(w) \in Nat /\ Len(pipe') = Len(pipe) + Len(w)
           /\ \A i \in 1..Len(pipe) : i \in 1..Len(pipe') /\ pipe'[i] = pipe[i]
           /\ \A i \in 1..Len(pipe') : \/ i \in 1..Len(pipe) /\ pipe'[i] = pipe[i]
                                       \/ /\ Len(pipe) < i /\ i - Len(pipe) \in 1..Len(w)
                                          /\ pipe'[i] = w[i - Len(pipe)]
<1>1. pipe \in Seq(Spoken)
  BY DEF Typed, Channels
<1>2. /\ Len(pipe) \in Nat /\ Len(w) \in Nat /\ Len(pipe') = Len(pipe) + Len(w)
      /\ \A i \in 1..Len(pipe) : pipe'[i] = pipe[i]
      /\ \A i \in 1..Len(w) : pipe'[Len(pipe) + i] = w[i]
      /\ \A i \in 1..Len(pipe') : i \notin 1..Len(pipe) => i - Len(pipe) \in 1..Len(w)
  BY <1>1, Joined
<1>3. \A i \in 1..Len(pipe) : i \in 1..Len(pipe')
  BY <1>2
<1>4. ASSUME NEW i \in 1..Len(pipe'), i \notin 1..Len(pipe)
      PROVE  Len(pipe) < i /\ i - Len(pipe) \in 1..Len(w) /\ pipe'[i] = w[i - Len(pipe)]
  <2>1. i - Len(pipe) \in 1..Len(w) /\ Len(pipe) + (i - Len(pipe)) = i
    BY <1>2, <1>4
  <2>. QED
    BY <1>2, <1>4, <2>1
<1>. QED
  BY <1>2, <1>3, <1>4

LEMMA CliTakesSteerGood ==
    ASSUME Typed, Typed', Core, CliTakesSteer
    PROVE  Core'
<1>. USE DEF At, Result, Said
<1>. DEFINE s == Head(stdin).id
            n == Len(pipe)
            line == Line("lifecycle", s, "queued")
<1>0. /\ UNCHANGED <<events, session, later, run, history>> /\ Takes("steer")
      /\ waiting' = Append(waiting, s) /\ pipe' = pipe \o <<line>>
  BY DEF CliTakesSteer, Says
<1>1. /\ stdin[1].op = "steer" /\ Head(stdin) = stdin[1] /\ 1 \in 1..Len(stdin)
      /\ \A k \in 1..Len(stdin') : stdin'[k] = stdin[k + 1] /\ k + 1 \in 1..Len(stdin) /\ k + 1 # 1
      /\ \A k, m \in 1..Len(stdin') : k + 1 = m + 1 => k = m
  BY <1>0, TakesMessage
<1>2. s \in Pushed /\ s \in Steers /\ of[s] = inflight /\ steer[s] = "written" /\ \A i \in At : pipe[i].id # s
  <2>1. s \in Pushed
    BY <1>0, TakesMessage DEF Written
  <2>. QED
    BY <1>1, <2>1 DEF Core, Unread, Pushed
<1>3. line.kind = "lifecycle" /\ line.id = s /\ line.what = "queued"
  BY DEF Line
<1>4. <<line>> \in Seq(Spoken) /\ Len(<<line>>) = 1 /\ <<line>>[1] = line
  BY <1>2, LifecycleSpoken, Single DEF SteerState
<1>5. s = stdin[1].id
  BY <1>1
<1>. HIDE DEF line, s
<1>6. /\ n \in Nat /\ n + 1 \in 1..Len(pipe') /\ pipe'[n + 1] = line
      /\ \A i \in 1..n : i \in 1..Len(pipe') /\ pipe'[i] = pipe[i] /\ i < n + 1
      /\ \A i \in 1..Len(pipe') : (i \in 1..n /\ pipe'[i] = pipe[i]) \/ (i = n + 1 /\ pipe'[i] = line)
  BY <1>0, <1>4, PipeGrows
<1>7. /\ Len(waiting) \in Nat
      /\ \A m \in 1..Len(waiting') : (m \in 1..Len(waiting) /\ waiting'[m] = waiting[m])
                                     \/ (m = Len(waiting) + 1 /\ waiting'[m] = s)
      /\ \A m \in 1..Len(waiting) : waiting[m] \in Steers
  <2>1. waiting \in Seq(Steers)
    BY Widened DEF Typed, Channels, Pushed
  <2>. QED
    BY <1>0, <1>2, <2>1, Added
<1>. HIDE DEF n
<1>8. Pushed' = Pushed
  BY <1>0, SamePushed DEF session
<1>9. \A k \in 1..Len(stdin') : stdin'[k].op = "steer" /\ stdin'[k].id # s /\ stdin'[k].id \in Steers
  <2>1. \A k \in 1..Len(stdin') : stdin'[k].op = "steer"
    BY <1>1 DEF Core, Quiet, TurnAlone
  <2>2. \A k \in 1..Len(stdin') : stdin'[k].id # s
    BY <1>1, <1>5, <2>1 DEF Core, Placed
  <2>3. \A k \in 1..Len(stdin) : stdin[k].op = "steer" => stdin[k].id \in Steers
    BY DEF Typed, Channels, Written, Pushed
  <2>. QED
    BY <1>1, <2>1, <2>2, <2>3
<1>10. s # run /\ \A m \in 1..Len(waiting) : waiting[m] # s
  BY <1>1, <1>5 DEF Core, Placed
<1>11. Quiet'
  BY <1>0, <1>3, <1>6, <1>8, <1>9 DEF Core, Quiet, session, n
<1>12. \A i \in At' : Result(i)' => i \in At /\ Result(i)
  BY <1>3, <1>6 DEF n
<1>13. TurnAlone'
  BY <1>0, <1>9, <1>12 DEF Core, TurnAlone, session
<1>14. Placed'
  <2>1. \A k \in 1..Len(stdin') : \A m \in 1..Len(waiting) : waiting[m] # stdin'[k].id
    BY <1>1, <1>9 DEF Core, Placed
  <2>2. \A k \in 1..Len(stdin') : stdin'[k].id # run
    BY <1>1, <1>9 DEF Core, Placed
  <2>3. \A k, m \in 1..Len(stdin') : stdin'[k].id = stdin'[m].id => k = m
    <3>. SUFFICES ASSUME NEW k \in 1..Len(stdin'), NEW m \in 1..Len(stdin'), stdin'[k].id = stdin'[m].id
                  PROVE  k = m
      OBVIOUS
    <3>1. k + 1 \in 1..Len(stdin) /\ m + 1 \in 1..Len(stdin) /\ stdin[k + 1].op = "steer" /\ stdin[m + 1].op = "steer"
          /\ stdin[k + 1].id = stdin[m + 1].id
      BY <1>1, <1>9
    <3>2. k + 1 = m + 1
      BY <3>1 DEF Core, Placed
    <3>. QED
      BY <1>1, <3>2
  <2>. QED
    BY <1>0, <1>7, <1>9, <1>10, <2>1, <2>2, <2>3 DEF Core, Placed
<1>15. Unread'
  <2>1. \A k \in 1..Len(stdin') : /\ of[stdin'[k].id] = inflight /\ steer[stdin'[k].id] = "written"
                                  /\ \A i \in At : pipe[i].id # stdin'[k].id
    <3>. SUFFICES ASSUME NEW k \in 1..Len(stdin')
                  PROVE  /\ of[stdin'[k].id] = inflight /\ steer[stdin'[k].id] = "written"
                         /\ \A i \in At : pipe[i].id # stdin'[k].id
      OBVIOUS
    <3>1. stdin'[k] = stdin[k + 1] /\ k + 1 \in 1..Len(stdin) /\ stdin[k + 1].op = "steer"
      BY <1>1, <1>9
    <3>. QED
      BY <3>1 DEF Core, Unread
  <2>2. \A k \in 1..Len(stdin') : \A i \in At' : pipe'[i].id # stdin'[k].id
    <3>. SUFFICES ASSUME NEW k \in 1..Len(stdin'), NEW i \in At' PROVE pipe'[i].id # stdin'[k].id
      OBVIOUS
    <3>1. CASE i \in 1..n /\ pipe'[i] = pipe[i]
      BY <2>1, <3>1 DEF n
    <3>2. CASE pipe'[i] = line
      BY <1>3, <1>9, <3>2
    <3>. QED
      BY <1>6, <3>1, <3>2
  <2>. QED
    BY <1>0, <2>1, <2>2 DEF Unread, session
<1>16. Waits'
  BY <1>0, <1>2, <1>3, <1>6, <1>7, <1>10 DEF Core, Waits, session, n
<1>17. Runs'
  <2>. SUFFICES ASSUME run \in Steers PROVE Runs'
    BY <1>0 DEF Runs
  <2>1. \A i \in At' : pipe'[i].id = run => i \in At /\ pipe'[i] = pipe[i]
    BY <1>3, <1>6, <1>10 DEF n
  <2>. QED
    BY <1>0, <1>12, <2>1 DEF Core, Runs, session
<1>18. Ran'
  <2>. SUFFICES ASSUME NEW j \in At', Result(j)', NEW r, r = pipe'[j].id
                PROVE /\ r \in Turns => r = inflight /\ ~held[r] /\ \A i \in At' : Result(i)' => j <= i
                      /\ r \in Steers =>
                          /\ of[r] = inflight /\ steer[r] \in {"written", "queued", "started"}
                          /\ steer[r] = "started" => \A i \in At' : Result(i)' => j <= i
                          /\ \A i \in At' : pipe'[i].id = r =>
                                  \/ i = j
                                  \/ Said(i, r, "queued")' /\ i < j
                                  \/ Said(i, r, "started")' /\ i < j /\ \A k \in At' : Result(k)' => k < i \/ j <= k
                                  \/ Said(i, r, "completed")' /\ j < i
    BY <1>0 DEF Ran, session
  <2>1. j \in At /\ Result(j) /\ pipe'[j] = pipe[j] /\ r = pipe[j].id /\ r # s
    BY <1>2, <1>6, <1>12 DEF n
  <2>2. \A i \in At' : pipe'[i].id = r => i \in At /\ pipe'[i] = pipe[i]
    BY <1>3, <1>6, <2>1 DEF n
  <2>. QED
    BY <1>12, <2>1, <2>2 DEF Core, Ran
<1>19. NamedFirst'
  <2>. SUFFICES ASSUME NEW i \in At', NEW x \in Steers, Said(i, x, "queued")', of[x] = inflight
                PROVE  steer[x] = "written" /\ \A j \in At' : pipe'[j].id = x /\ j # i => i < j
    BY <1>0 DEF NamedFirst, session
  <2>1. CASE x = s
    BY <1>2, <1>6, <2>1 DEF n
  <2>2. CASE x # s
    <3>1. i \in At /\ Said(i, x, "queued")
      BY <1>3, <1>6, <2>2 DEF n
    <3>2. \A j \in At' : pipe'[j].id = x => j \in At /\ pipe'[j] = pipe[j]
      BY <1>3, <1>6, <2>2 DEF n
    <3>. QED
      BY <3>1, <3>2 DEF Core, NamedFirst
  <2>. QED
    BY <2>1, <2>2
<1>. QED
  BY <1>11, <1>13, <1>14, <1>15, <1>16, <1>17, <1>18, <1>19 DEF Core

LEMMA CliRunsGood ==
    ASSUME Typed, Typed', Core, CliRuns
    PROVE  Core'
<1>. USE DEF At, Result, Said
<1>. DEFINE s == waiting[1]
            n == Len(pipe)
            line == Line("lifecycle", s, "started")
<1>0. /\ UNCHANGED <<events, session, stdin, history, later>> /\ run = None
      /\ waiting # <<>> /\ run' = s /\ waiting' = Tail(waiting) /\ pipe' = pipe \o <<line>>
  <2>1. later = <<>>
    BY DEF Core, TurnAlone
  <2>. QED
    BY <2>1, Popped DEF CliRuns, Says, Typed, Channels
<1>1. /\ 1 \in 1..Len(waiting) /\ s \in Pushed /\ s \in Steers /\ s \notin Turns
      /\ \A m \in 1..Len(waiting') : waiting'[m] = waiting[m + 1] /\ m + 1 \in 1..Len(waiting) /\ m + 1 # 1
      /\ \A k, m \in 1..Len(waiting') : k + 1 = m + 1 => k = m
  <2>1. waiting \in Seq(Pushed)
    BY DEF Typed, Channels
  <2>2. /\ 1 \in 1..Len(waiting) /\ s \in Pushed
        /\ \A m \in 1..Len(waiting') : waiting'[m] = waiting[m + 1] /\ m + 1 \in 1..Len(waiting)
    BY <1>0, <2>1, Popped
  <2>. QED
    BY <2>2, Distinct DEF Pushed
<1>2. of[s] = inflight /\ steer[s] \in {"written", "queued"} /\ \A i \in At : pipe[i].id = s => Said(i, s, "queued")
  BY <1>1 DEF Core, Waits
<1>3. line.kind = "lifecycle" /\ line.id = s /\ line.what = "started"
  BY DEF Line
<1>4. <<line>> \in Seq(Spoken) /\ Len(<<line>>) = 1 /\ <<line>>[1] = line
  BY <1>1, LifecycleSpoken, Single DEF SteerState
<1>5. \A m \in 1..Len(waiting') : waiting'[m] # s /\ waiting'[m] \in Steers
  BY <1>1 DEF Core, Placed, Typed, Channels, Pushed
<1>6. \A k \in 1..Len(stdin) : stdin[k].op = "steer" /\ stdin[k].id # s
  <2>1. Len(waiting) # 0
    BY <1>1
  <2>2. \A k \in 1..Len(stdin) : stdin[k].op = "steer"
    BY <1>0 DEF Core, Quiet, TurnAlone
  <2>. QED
    BY <1>1, <2>2 DEF Core, Placed
<1>. HIDE DEF line, s
<1>7. /\ n \in Nat /\ n + 1 \in 1..Len(pipe') /\ pipe'[n + 1] = line
      /\ \A i \in 1..n : i \in 1..Len(pipe') /\ pipe'[i] = pipe[i] /\ i < n + 1
      /\ \A i \in 1..Len(pipe') : (i \in 1..n /\ pipe'[i] = pipe[i]) \/ (i = n + 1 /\ pipe'[i] = line)
  BY <1>0, <1>4, PipeGrows
<1>8. \A i \in At' : Result(i)' => i \in At /\ Result(i)
  BY <1>3, <1>7
<1>9. \A i \in At' : pipe'[i].id # s => i \in At /\ pipe'[i] = pipe[i]
  BY <1>3, <1>7
<1>10. Pushed' = Pushed
  BY <1>0, SamePushed DEF session
<1>11. Quiet'
  BY <1>0, <1>3, <1>7, <1>10 DEF Core, Quiet, session
<1>12. TurnAlone'
  BY <1>0, <1>1, <1>6 DEF Core, TurnAlone, session
<1>13. Placed'
  <2>1. \A k \in 1..Len(stdin) : \A m \in 1..Len(waiting') : waiting'[m] # stdin[k].id
    BY <1>1, <1>6 DEF Core, Placed
  <2>2. ASSUME NEW k \in 1..Len(waiting'), NEW m \in 1..Len(waiting'), waiting'[k] = waiting'[m] PROVE k = m
    <3>1. k + 1 = m + 1
      BY <1>1, <2>2 DEF Core, Placed
    <3>. QED
      BY <1>1, <3>1
  <2>. QED
    BY <1>0, <1>5, <1>6, <2>1, <2>2 DEF Core, Placed
<1>14. Unread'
  BY <1>0, <1>6, <1>9, <1>3, <1>7 DEF Core, Unread, session
<1>15. Waits'
  <2>1. \A m \in 1..Len(waiting') : /\ of[waiting'[m]] = inflight /\ steer[waiting'[m]] \in {"written", "queued"}
                                    /\ \A i \in At : pipe[i].id = waiting'[m] => Said(i, waiting'[m], "queued")
    BY <1>1 DEF Core, Waits
  <2>. QED
    BY <1>0, <1>5, <1>9, <2>1 DEF Waits, session
<1>16. Runs'
  <2>. PICK x : x = s
    OBVIOUS
  <2>1. \A i \in At' : pipe'[i].id = x =>
             \/ Said(i, x, "queued")'
             \/ Said(i, x, "started")' /\ \A j \in At' : Result(j)' => j < i
    <3>. SUFFICES ASSUME NEW i \in At', pipe'[i].id = x
                  PROVE  \/ Said(i, x, "queued")'
                         \/ Said(i, x, "started")' /\ \A j \in At' : Result(j)' => j < i
      OBVIOUS
    <3>1. CASE i \in 1..n /\ pipe'[i] = pipe[i]
      BY <1>2, <3>1
    <3>2. CASE i = n + 1 /\ pipe'[i] = line
      BY <1>3, <1>7, <1>8, <3>2
    <3>. QED
      BY <1>7, <3>1, <3>2
  <2>2. run' = x
    BY <1>0
  <2>. QED
    BY <1>0, <1>2, <2>1, <2>2 DEF Runs, session
<1>17. Ran'
  <2>. SUFFICES ASSUME NEW j \in At', Result(j)', NEW r, r = pipe'[j].id
                PROVE /\ r \in Turns => r = inflight /\ ~held[r] /\ \A i \in At' : Result(i)' => j <= i
                      /\ r \in Steers =>
                          /\ of[r] = inflight /\ steer[r] \in {"written", "queued", "started"}
                          /\ steer[r] = "started" => \A i \in At' : Result(i)' => j <= i
                          /\ \A i \in At' : pipe'[i].id = r =>
                                  \/ i = j
                                  \/ Said(i, r, "queued")' /\ i < j
                                  \/ Said(i, r, "started")' /\ i < j /\ \A k \in At' : Result(k)' => k < i \/ j <= k
                                  \/ Said(i, r, "completed")' /\ j < i
    BY <1>0 DEF Ran, session
  <2>1. j \in At /\ Result(j) /\ r = pipe[j].id /\ r # s
    BY <1>2, <1>7, <1>8
  <2>2. \A i \in At' : pipe'[i].id = r => i \in At /\ pipe'[i] = pipe[i]
    BY <1>9, <2>1
  <2>. QED
    BY <1>8, <2>1, <2>2 DEF Core, Ran
<1>18. NamedFirst'
  <2>. SUFFICES ASSUME NEW i \in At', NEW x \in Steers, Said(i, x, "queued")', of[x] = inflight
                PROVE  steer[x] = "written" /\ \A j \in At' : pipe'[j].id = x /\ j # i => i < j
    BY <1>0 DEF NamedFirst, session
  <2>1. i \in At /\ Said(i, x, "queued")
    BY <1>3, <1>7
  <2>2. steer[x] = "written" /\ \A j \in At : pipe[j].id = x /\ j # i => i < j
    BY <2>1 DEF Core, NamedFirst
  <2>. QED
    BY <1>7, <2>1, <2>2
<1>. QED
  BY <1>11, <1>12, <1>13, <1>14, <1>15, <1>16, <1>17, <1>18 DEF Core

LEMMA CliTakesInGood ==
    ASSUME Typed, Typed', Core, CliTakesIn
    PROVE  Core'
<1>. USE DEF At, Result, Said
<1>. DEFINE s == waiting[1]
            n == Len(pipe)
            first == Line("lifecycle", s, "started")
            last == Line("lifecycle", s, "completed")
<1>0. /\ UNCHANGED <<events, session, stdin, history, later, run>> /\ run # None
      /\ waiting # <<>> /\ waiting' = Tail(waiting) /\ pipe' = pipe \o <<first, last>>
  BY Popped DEF CliTakesIn, Says, Typed, Channels
<1>1. /\ 1 \in 1..Len(waiting) /\ s \in Pushed /\ s \in Steers /\ s \notin Turns
      /\ \A m \in 1..Len(waiting') : waiting'[m] = waiting[m + 1] /\ m + 1 \in 1..Len(waiting) /\ m + 1 # 1
      /\ \A k, m \in 1..Len(waiting') : k + 1 = m + 1 => k = m
  <2>1. waiting \in Seq(Pushed)
    BY DEF Typed, Channels
  <2>2. /\ 1 \in 1..Len(waiting) /\ s \in Pushed
        /\ \A m \in 1..Len(waiting') : waiting'[m] = waiting[m + 1] /\ m + 1 \in 1..Len(waiting)
    BY <1>0, <2>1, Popped
  <2>. QED
    BY <2>2, Distinct DEF Pushed
<1>2. \A i \in At : pipe[i].id = s => Said(i, s, "queued")
  BY <1>1 DEF Core, Waits
<1>3. /\ first.kind = "lifecycle" /\ first.id = s /\ first.what = "started"
      /\ last.kind = "lifecycle" /\ last.id = s /\ last.what = "completed"
  BY DEF Line
<1>4. <<first, last>> \in Seq(Spoken) /\ Len(<<first, last>>) = 2 /\ <<first, last>>[1] = first /\ <<first, last>>[2] = last
  BY <1>1, LifecycleSpoken, Pair DEF SteerState
<1>5. \A m \in 1..Len(waiting') : waiting'[m] # s /\ waiting'[m] \in Steers
  BY <1>1 DEF Core, Placed, Typed, Channels, Pushed
<1>6. s # run /\ \A k \in 1..Len(stdin) : stdin[k].op = "steer" /\ stdin[k].id # s
  <2>1. \A k \in 1..Len(stdin) : stdin[k].op = "steer"
    BY <1>0 DEF Core, Quiet, TurnAlone
  <2>. QED
    BY <1>1, <2>1 DEF Core, Placed
<1>. HIDE DEF first, last, s
<1>7. /\ n \in Nat /\ \A i \in 1..n : i \in 1..Len(pipe') /\ pipe'[i] = pipe[i]
      /\ \A i \in 1..Len(pipe') : \/ i \in 1..n /\ pipe'[i] = pipe[i]
                                  \/ n < i /\ pipe'[i] \in {first, last}
  <2>1. /\ n \in Nat /\ \A i \in 1..n : i \in 1..Len(pipe') /\ pipe'[i] = pipe[i]
        /\ \A i \in 1..Len(pipe') : \/ i \in 1..n /\ pipe'[i] = pipe[i]
                                    \/ n < i /\ i - n \in 1..2 /\ pipe'[i] = <<first, last>>[i - n]
    BY <1>0, <1>4, PipeGrows
  <2>. QED
    BY <1>4, <2>1
<1>8. \A i \in At' : Result(i)' => i \in At /\ Result(i)
  BY <1>3, <1>7
<1>9. \A i \in At' : pipe'[i].id # s => i \in At /\ pipe'[i] = pipe[i]
  BY <1>3, <1>7
<1>10. Pushed' = Pushed
  BY <1>0, SamePushed DEF session
<1>11. Quiet'
  BY <1>0, <1>3, <1>7, <1>10 DEF Core, Quiet, session
<1>12. TurnAlone'
  BY <1>0, <1>6, <1>8 DEF Core, TurnAlone, session
<1>13. Placed'
  <2>1. \A k \in 1..Len(stdin) : \A m \in 1..Len(waiting') : waiting'[m] # stdin[k].id
    BY <1>1, <1>6 DEF Core, Placed
  <2>2. ASSUME NEW k \in 1..Len(waiting'), NEW m \in 1..Len(waiting'), waiting'[k] = waiting'[m] PROVE k = m
    <3>1. k + 1 = m + 1
      BY <1>1, <2>2 DEF Core, Placed
    <3>. QED
      BY <1>1, <3>1
  <2>3. \A m \in 1..Len(waiting') : waiting'[m] # run
    BY <1>1 DEF Core, Placed
  <2>. QED
    BY <1>0, <1>5, <1>6, <2>1, <2>2, <2>3 DEF Core, Placed
<1>14. Unread'
  BY <1>0, <1>6, <1>9, <1>3, <1>7 DEF Core, Unread, session
<1>15. Waits'
  <2>1. \A m \in 1..Len(waiting') : /\ of[waiting'[m]] = inflight /\ steer[waiting'[m]] \in {"written", "queued"}
                                    /\ \A i \in At : pipe[i].id = waiting'[m] => Said(i, waiting'[m], "queued")
    BY <1>1 DEF Core, Waits
  <2>. QED
    BY <1>0, <1>5, <1>9, <2>1 DEF Waits, session
<1>16. Runs'
  <2>. SUFFICES ASSUME run \in Steers PROVE Runs'
    BY <1>0 DEF Runs
  <2>1. \A i \in At' : pipe'[i].id = run => i \in At /\ pipe'[i] = pipe[i]
    BY <1>6, <1>9
  <2>2. /\ of[run] = inflight /\ steer[run] \in {"written", "queued", "started"}
        /\ steer[run] = "started" => \A i \in At : ~Result(i)
        /\ \A i \in At : pipe[i].id = run =>
             \/ Said(i, run, "queued")
             \/ Said(i, run, "started") /\ \A j \in At : Result(j) => j < i
    BY DEF Core, Runs
  <2>3. UNCHANGED <<run, of, inflight, steer>>
    BY <1>0 DEF session
  <2>4. ASSUME NEW i \in At', pipe'[i].id = run
        PROVE  \/ Said(i, run, "queued")'
               \/ Said(i, run, "started")' /\ \A j \in At' : Result(j)' => j < i
    <3>1. i \in At /\ pipe'[i] = pipe[i] /\ pipe[i].id = run
      BY <2>1, <2>4
    <3>2. \/ Said(i, run, "queued")
          \/ Said(i, run, "started") /\ \A j \in At : Result(j) => j < i
      BY <2>2, <3>1
    <3>3. Said(i, run, "queued") = Said(i, run, "queued")' /\ Said(i, run, "started") = Said(i, run, "started")'
      BY <2>3, <3>1
    <3>. HIDE DEF Said, At, Result
    <3>. QED
      BY <1>8, <3>2, <3>3
  <2>. QED
    BY <1>8, <2>2, <2>3, <2>4 DEF Runs
<1>17. Ran'
  <2>. SUFFICES ASSUME NEW j \in At', Result(j)', NEW r, r = pipe'[j].id
                PROVE /\ r \in Turns => r = inflight /\ ~held[r] /\ \A i \in At' : Result(i)' => j <= i
                      /\ r \in Steers =>
                          /\ of[r] = inflight /\ steer[r] \in {"written", "queued", "started"}
                          /\ steer[r] = "started" => \A i \in At' : Result(i)' => j <= i
                          /\ \A i \in At' : pipe'[i].id = r =>
                                  \/ i = j
                                  \/ Said(i, r, "queued")' /\ i < j
                                  \/ Said(i, r, "started")' /\ i < j /\ \A k \in At' : Result(k)' => k < i \/ j <= k
                                  \/ Said(i, r, "completed")' /\ j < i
    <3>1. UNCHANGED <<inflight, held, of, steer>>
      BY <1>0 DEF session
    <3>. QED
      BY <3>1 DEF Ran
  <2>1. j \in At /\ Result(j) /\ r = pipe[j].id /\ r # s
    BY <1>2, <1>7, <1>8
  <2>2. \A i \in At' : pipe'[i].id = r => i \in At /\ pipe'[i] = pipe[i]
    BY <1>9, <2>1
  <2>. QED
    BY <1>8, <2>1, <2>2 DEF Core, Ran
<1>18. NamedFirst'
  <2>. SUFFICES ASSUME NEW i \in At', NEW x \in Steers, Said(i, x, "queued")', of[x] = inflight
                PROVE  steer[x] = "written" /\ \A j \in At' : pipe'[j].id = x /\ j # i => i < j
    BY <1>0 DEF NamedFirst, session
  <2>1. i \in At /\ Said(i, x, "queued")
    BY <1>3, <1>7
  <2>2. steer[x] = "written" /\ \A j \in At : pipe[j].id = x /\ j # i => i < j
    BY <2>1 DEF Core, NamedFirst
  <2>3. \A j \in At' : j \notin At => i < j
    BY <1>7, <2>1
  <2>. QED
    BY <1>7, <2>1, <2>2, <2>3
<1>. QED
  BY <1>11, <1>12, <1>13, <1>14, <1>15, <1>16, <1>17, <1>18 DEF Core

LEMMA CliFinishesGood ==
    ASSUME Typed, Typed', Core, CliFinishes
    PROVE  Core'
<1>. USE DEF At, Result, Said
<1>. DEFINE n == Len(pipe)
<1>1. PICK o \in {"completed", "failed"} : pipe' = pipe \o Closing(o, "completed")
  BY DEF CliFinishes, Says, Closing
<1>. DEFINE first == Line("result", run, o)
            last == Line("lifecycle", run, "completed")
<1>0. UNCHANGED <<events, session, stdin, waiting, later, history>> /\ run # None /\ run' = None
  BY DEF CliFinishes
<1>2. /\ Closing(o, "completed") \in Seq(Spoken) /\ run \in Turns \cup Pushed
      /\ Len(Closing(o, "completed")) = IF run \in Steers THEN 2 ELSE 1
      /\ Closing(o, "completed")[1] = first /\ (run \in Steers => Closing(o, "completed")[2] = last)
  BY <1>0, ClosingSpoken DEF SteerState
<1>3. /\ first.kind = "result" /\ first.id = run
      /\ last.kind = "lifecycle" /\ last.id = run /\ last.what = "completed"
  BY DEF Line
<1>. HIDE DEF first, last
<1>7. /\ n \in Nat /\ \A i \in 1..n : i \in 1..Len(pipe') /\ pipe'[i] = pipe[i]
      /\ \A i \in 1..Len(pipe') : \/ i \in 1..n /\ pipe'[i] = pipe[i] /\ i < n + 1
                                  \/ i = n + 1 /\ pipe'[i] = first
                                  \/ i = n + 2 /\ n + 1 < i /\ pipe'[i] = last /\ run \in Steers
      /\ n + 1 \in 1..Len(pipe') /\ pipe'[n + 1] = first
  <2>. DEFINE c == Closing(o, "completed")
  <2>1. c \in Seq(Spoken) /\ pipe' = pipe \o c /\ c[1] = first /\ (run \in Steers => c[2] = last)
        /\ Len(c) = IF run \in Steers THEN 2 ELSE 1
    BY <1>1, <1>2
  <2>. HIDE DEF c
  <2>2. /\ n \in Nat /\ \A i \in 1..n : i \in 1..Len(pipe') /\ pipe'[i] = pipe[i]
        /\ Len(pipe') = n + Len(c)
        /\ \A i \in 1..Len(pipe') : \/ i \in 1..n /\ pipe'[i] = pipe[i]
                                    \/ n < i /\ i - n \in 1..Len(c) /\ pipe'[i] = c[i - n]
    BY <2>1, PipeGrows
  <2>3. \A i \in 1..Len(pipe') : \/ i \in 1..n /\ pipe'[i] = pipe[i] /\ i < n + 1
                                 \/ i = n + 1 /\ pipe'[i] = first
                                 \/ i = n + 2 /\ n + 1 < i /\ pipe'[i] = last /\ run \in Steers
    <3>. SUFFICES ASSUME NEW i \in 1..Len(pipe'), n < i, i - n \in 1..Len(c), pipe'[i] = c[i - n]
                  PROVE  \/ i = n + 1 /\ pipe'[i] = first
                         \/ i = n + 2 /\ n + 1 < i /\ pipe'[i] = last /\ run \in Steers
      BY <2>2
    <3>1. i - n = 1 \/ (i - n = 2 /\ run \in Steers)
      BY <2>1
    <3>. QED
      BY <2>1, <2>2, <3>1
  <2>4. n + 1 \in 1..Len(pipe')
    BY <2>1, <2>2
  <2>. QED
    BY <2>2, <2>3, <2>4
<1>8. \A i \in At' : Result(i)' => (i \in At /\ Result(i) /\ pipe'[i] = pipe[i]) \/ i = n + 1
  BY <1>3, <1>7
<1>9. \A i \in At' : pipe'[i].id # run => i \in At /\ pipe'[i] = pipe[i]
  BY <1>3, <1>7
<1>10. Pushed' = Pushed
  BY <1>0, SamePushed DEF session
<1>5. \A m \in 1..Len(waiting) : waiting[m] # run /\ waiting[m] \in Steers
  BY DEF Core, Placed, Typed, Channels, Pushed
<1>6. \A k \in 1..Len(stdin) : stdin[k].op = "steer" /\ stdin[k].id # run
  BY <1>0 DEF Core, Quiet, TurnAlone, Placed
<1>11. Quiet'
  BY <1>0, <1>3, <1>7, <1>10 DEF Core, Quiet, session
<1>12. TurnAlone'
  BY <1>0, <1>6, Distinct DEF Core, TurnAlone, session
<1>13. Placed'
  <2>1. \A k \in 1..Len(stdin) : stdin[k].id # None
    <3>1. \A k \in 1..Len(stdin) : stdin[k] \in Written
      BY DEF Typed, Channels
    <3>2. \A k \in 1..Len(stdin) : stdin[k].id \in Steers
      BY <1>6, <3>1 DEF Written, Pushed
    <3>. QED
      BY <3>2, Distinct
  <2>. QED
    BY <1>0, <1>5, <1>6, <2>1, Distinct DEF Core, Placed
<1>14. Unread'
  BY <1>0, <1>6, <1>9, <1>3, <1>7 DEF Core, Unread, session
<1>15. Waits'
  BY <1>0, <1>5, <1>9 DEF Core, Waits, session
<1>16. Runs'
  BY <1>0, Distinct DEF Runs
<1>17. Ran'
  <2>. SUFFICES ASSUME NEW j \in At', Result(j)', NEW r, r = pipe'[j].id
                PROVE /\ r \in Turns => r = inflight /\ ~held[r] /\ \A i \in At' : Result(i)' => j <= i
                      /\ r \in Steers =>
                          /\ of[r] = inflight /\ steer[r] \in {"written", "queued", "started"}
                          /\ steer[r] = "started" => \A i \in At' : Result(i)' => j <= i
                          /\ \A i \in At' : pipe'[i].id = r =>
                                  \/ i = j
                                  \/ Said(i, r, "queued")' /\ i < j
                                  \/ Said(i, r, "started")' /\ i < j /\ \A k \in At' : Result(k)' => k < i \/ j <= k
                                  \/ Said(i, r, "completed")' /\ j < i
    BY <1>0 DEF Ran, session
  <2>1. CASE j \in At /\ Result(j) /\ pipe'[j] = pipe[j]
    <3>1. r # run
      <4>1. run \notin Turns
        BY <2>1 DEF Core, TurnAlone
      <4>2. run \in Steers
        BY <1>2, <4>1 DEF Pushed
      <4>3. pipe[j].id # run
        BY <2>1, <4>2 DEF Core, Runs
      <4>. QED
        BY <2>1, <4>3
    <3>2. \A i \in At' : pipe'[i].id = r => i \in At /\ pipe'[i] = pipe[i]
      BY <1>9, <3>1
    <3>3. \A i \in At : Result(i) => i < n + 1
      BY <1>7
    <3>4. j <= n + 1 /\ j < n + 1
      BY <1>7, <2>1
    <3>. QED
      BY <1>8, <2>1, <3>2, <3>4 DEF Core, Ran
  <2>2. CASE j = n + 1
    <3>1. r = run
      BY <1>3, <1>7, <2>2
    <3>2. r \in Turns => r = inflight /\ ~held[r] /\ \A i \in At' : Result(i)' => j <= i
      BY <1>8, <2>2, <3>1 DEF Core, TurnAlone
    <3>3. ASSUME r \in Steers
          PROVE  /\ of[r] = inflight /\ steer[r] \in {"written", "queued", "started"}
                 /\ steer[r] = "started" => \A i \in At' : Result(i)' => j <= i
      BY <1>8, <2>2, <3>1, <3>3 DEF Core, Runs
    <3>4. ASSUME r \in Steers, NEW i \in At', pipe'[i].id = r
          PROVE  \/ i = j
                 \/ Said(i, r, "queued")' /\ i < j
                 \/ Said(i, r, "started")' /\ i < j /\ \A k \in At' : Result(k)' => k < i \/ j <= k
                 \/ Said(i, r, "completed")' /\ j < i
      <4>1. CASE i \in At /\ pipe'[i] = pipe[i] /\ i < n + 1
        <5>1. \/ Said(i, r, "queued")
              \/ Said(i, r, "started") /\ \A k \in At : Result(k) => k < i
          BY <3>1, <3>4, <4>1 DEF Core, Runs
        <5>. QED
          BY <1>8, <2>2, <4>1, <5>1
      <4>2. CASE i = n + 2 /\ n + 1 < i /\ pipe'[i] = last
        BY <1>3, <2>2, <3>1, <4>2
      <4>. QED
        BY <1>7, <2>2, <4>1, <4>2
    <3>. QED
      BY <3>2, <3>3, <3>4
  <2>. QED
    BY <1>8, <2>1, <2>2
<1>18. NamedFirst'
  <2>. SUFFICES ASSUME NEW i \in At', NEW x \in Steers, Said(i, x, "queued")', of[x] = inflight
                PROVE  steer[x] = "written" /\ \A j \in At' : pipe'[j].id = x /\ j # i => i < j
    BY <1>0 DEF NamedFirst, session
  <2>1. i \in At /\ Said(i, x, "queued")
    BY <1>3, <1>7
  <2>2. steer[x] = "written" /\ \A j \in At : pipe[j].id = x /\ j # i => i < j
    BY <2>1 DEF Core, NamedFirst
  <2>3. \A j \in At' : j \notin At => i < j
    BY <1>7, <2>1
  <2>. QED
    BY <1>7, <2>1, <2>2, <2>3
<1>. QED
  BY <1>11, <1>12, <1>13, <1>14, <1>15, <1>16, <1>17, <1>18 DEF Core

----------------------------------------------------------------------------
(* Steers stay in turns that go well                                        *)

\* What went wrong stays wrong.
LEMMA GoodBefore == ASSUME Typed, [Next]_vars, Good' PROVE Good
<1>. USE DEF Good
<1>1. \A t \in Turns : native[t] # "failed"
  BY StepTyped DEF Moves
<1>2. stop = "idle" /\ \A s \in Steers : push[s] # "unknown"
  <2>1. CASE UNCHANGED <<stop, push>>
    BY <2>1
  <2>2. CASE stop' # "idle"
    BY <2>2
  <2>3. ASSUME NEW s \in Steers, Push(s) \/ PushTimesOut(s) PROVE stop = "idle" /\ \A x \in Steers : push[x] # "unknown"
    <3>1. stop' = stop /\ \E how \in {"ignored", "waiting", "unknown"} : push' = [push EXCEPT ![s] = how]
      BY <2>3 DEF Push, PushTimesOut
    <3>2. push[s] # "unknown"
      BY <2>3 DEF Push, PushTimesOut
    <3>. QED
      BY <3>1, <3>2 DEF Typed, Known
  <2>4. CASE ReadLifecycle
    <3>. PICK s : s = Head(pipe).id
      OBVIOUS
    <3>1. stop' = stop /\ \/ push' = push
                          \/ push' = [push EXCEPT ![s] = IF @ # "waiting" THEN @
                                        ELSE IF Head(pipe).what = "cancelled" THEN "ignored" ELSE "steered"]
      BY <2>4 DEF ReadLifecycle
    <3>2. \A x \in Steers : push[x] = "unknown" => push'[x] = "unknown"
      BY <3>1 DEF Typed, Known
    <3>. QED
      BY <3>1, <3>2
  <2>5. [Next]_vars => \/ UNCHANGED <<stop, push>> \/ stop' # "idle" \/ ReadLifecycle
                       \/ \E s \in Steers : Push(s) \/ PushTimesOut(s)
    BY DEF Next, Read, Cli, Send, Stop, StopGoesOn, CancelTimesOut, ReadCancelled, ReadUnowned, ReadHolds,
       ReadCompletes, ReadFails, CliTakesTurn, CliTakesSteer, CliCancels, CliInterrupted, CliRuns, CliTakesIn,
       CliFinishes, vars, session
  <2>. QED
    BY <2>1, <2>2, <2>3, <2>4, <2>5
<1>. QED
  BY <1>1, <1>2

\* Nothing is withdrawn or interrupted in good turns.
LEMMA NeverInGood ==
    ASSUME Typed, Core
    PROVE  /\ \A r \in Requests : ~CancelTimesOut(r)
           /\ ~ReadCancelled /\ ~ReadUnowned /\ ~CliCancels /\ ~CliInterrupted
<1>1. \A r \in Requests : ~CancelTimesOut(r)
  BY DEF CancelTimesOut, Core, Quiet
<1>2. ~ReadCancelled
  BY PipeMovesUp DEF ReadCancelled, Core, Quiet
<1>3. ~ReadUnowned
  BY ResultIsOwn, Distinct DEF ReadUnowned
<1>4. ASSUME NEW op, Takes(op) PROVE op \in {"turn", "steer"}
  BY <1>4, TakesMessage DEF Core, Quiet
<1>5. ~CliCancels /\ ~CliInterrupted
  BY <1>4 DEF CliCancels, CliInterrupted
<1>. QED
  BY <1>1, <1>2, <1>3, <1>5

LEMMA GoodStep == ASSUME Typed, GoodCore, [Next]_vars PROVE GoodCore'
<1>. SUFFICES ASSUME Good' PROVE Core' /\ SteersStayInTurn'
  BY DEF GoodCore
<1>1. Typed' /\ Good /\ Core /\ SteersStayInTurn
  BY StepTyped, GoodBefore DEF GoodCore
<1>2. credited' = credited => SteersStayInTurn'
  BY <1>1 DEF SteersStayInTurn
<1>3. ASSUME NEW t \in Turns, Send(t) PROVE Core' /\ SteersStayInTurn'
  BY <1>1, <1>2, <1>3, SendGood DEF Send, history
<1>4. ASSUME NEW s \in Steers, Push(s) PROVE Core' /\ SteersStayInTurn'
  BY <1>1, <1>2, <1>4, PushGood DEF Push, history
<1>5. ASSUME NEW s \in Steers, PushTimesOut(s) PROVE FALSE
  <2>1. push' = [push EXCEPT ![s] = "unknown"]
    BY <1>5 DEF PushTimesOut
  <2>2. push'[s] = "unknown"
    BY <1>1, <2>1 DEF Typed, Known
  <2>. QED
    BY <2>2 DEF Good
<1>6. ~Stop /\ ~StopGoesOn
  BY DEF Stop, StopGoesOn, Good
<1>7. ~ReadFails
  <2>1. ReadFails => inflight \in Turns /\ native'[inflight] = "failed"
    BY <1>1, ReadFailsTyped DEF ReadFails, Typed, Owned
  <2>. QED
    BY <2>1 DEF Good
<1>8. CASE Read
  <2>1. CASE ReadLifecycle
    BY <1>1, <1>2, <2>1, ReadLifecycleGood DEF ReadLifecycle, history
  <2>. QED
    BY <1>1, <1>7, <1>8, <2>1, NeverInGood, ReadHoldsGood, ReadCompletesGood DEF Read
<1>9. CASE Cli
  <2>1. CliTakesTurn \/ CliTakesSteer \/ CliRuns \/ CliTakesIn \/ CliFinishes
    BY <1>1, <1>9, NeverInGood DEF Cli
  <2>2. Core'
    BY <1>1, <2>1, CliTakesTurnGood, CliTakesSteerGood, CliRunsGood, CliTakesInGood, CliFinishesGood
  <2>3. credited' = credited
    BY <2>1 DEF CliTakesTurn, CliTakesSteer, CliRuns, CliTakesIn, CliFinishes, history
  <2>. QED
    BY <1>2, <2>2, <2>3
<1>10. CASE UNCHANGED vars
  <2>1. UNCHANGED <<session, cli, history>>
    BY <1>10 DEF vars
  <2>2. Pushed' = Pushed
    BY <2>1, SamePushed DEF session
  <2>. QED
    BY <1>1, <1>2, <2>1, <2>2 DEF session, cli, history, Core, Quiet, TurnAlone, Placed, Unread, Waits, Runs, Ran,
       NamedFirst, At, Said, Result
<1>. QED
  BY <1>1, <1>3, <1>4, <1>5, <1>6, <1>8, <1>9, <1>10, NeverInGood DEF Next

LEMMA GoodInit == Init => GoodCore
<1>. SUFFICES ASSUME Init PROVE Core /\ SteersStayInTurn
  BY DEF GoodCore
<1>1. Pushed = {}
  BY Distinct DEF Init, Pushed
<1>2. Quiet /\ TurnAlone
  BY <1>1, Distinct, Empty DEF Init, Quiet, TurnAlone
<1>3. Placed /\ Unread /\ Waits /\ Runs /\ Ran /\ NamedFirst
  BY Distinct, Empty DEF Init, Placed, Unread, Waits, Runs, Ran, NamedFirst, At, Said, Result
<1>4. SteersStayInTurn
  BY DEF Init, SteersStayInTurn
<1>. QED
  BY <1>2, <1>3, <1>4 DEF Core

LEMMA GoodHolds == Spec => []GoodCore
<1>1. Typed /\ GoodCore /\ [Next]_vars => GoodCore'
  BY GoodStep
<1>. QED
  BY <1>1, GoodInit, TypedHolds, PTL DEF Spec

\* However pushes, lifecycle lines and results interleave: while no turn failed, none
\* was stopped and push() told no caller that it does not know, every result of a
\* steer is recorded in the turn it was pushed into (_steerWaiting, _releaseHeld).
THEOREM SteersAnsweredInTurn == Spec => []SteersStayInGoodTurn
<1>1. GoodCore => SteersStayInGoodTurn
  BY DEF GoodCore, Good, SteersStayInGoodTurn
<1>. QED
  BY <1>1, GoodHolds, PTL

----------------------------------------------------------------------------
(* A stop, when nothing else goes wrong                                     *)

\* Where a stop may be called nothing is slow and no run fails by itself.
StopsAlone == \A e \in Events : "stop" \in e => e = {"stop"}

\* The turns and steers whose messages the CLI has taken, and those still written.
Within == {waiting[m] : m \in 1..Len(waiting)} \cup {later[m] : m \in 1..Len(later)} \cup ({run} \ {None})
InStdin(s) == \E k \in 1..Len(stdin) : stdin[k].op = "steer" /\ stdin[k].id = s

\* Nothing failed or was interrupted before the stop was done.
Unharmed ==
    /\ hit = {} /\ \A t \in Turns : native[t] # "failed"
    /\ \A k \in 1..Len(stdin) : stdin[k].op # "interrupt"
    /\ \A i \in At : Result(i) => pipe[i].what = "completed"
Calm ==
    /\ \A s \in Steers : push[s] # "unknown"
    /\ stop # "done" => Unharmed

\* Whatever the CLI has, and reads up to the n-th message, is of the stopped turn.
OwnUpTo(n) ==
    /\ \A k \in 1..n : stdin[k].op \in {"turn", "steer"} => Owner(stdin[k].id) = stopped
    /\ \A x \in Within : Owner(x) = stopped
Aimed ==
    /\ stop # "idle" => native[stopped] # "idle"
    /\ stop = "withdrawing" /\ inflight = stopped => OwnUpTo(Len(stdin))
    /\ stop = "done" => \A k \in 1..Len(stdin) : stdin[k].op = "interrupt" => OwnUpTo(k)
    /\ hit \subseteq {stopped}

\* What is said of a steer: its lines, its results, and that it was withdrawn.
About(l, s) == \/ l.kind # "cancelled" /\ l.id = s
               \/ l.kind = "cancelled" /\ l.what = TRUE /\ l.id[2] = s

\* What the session knows, and will read, of a steer that was not read, waits, or runs.
Mute(s)  == steer[s] = "written" /\ \A i \in At : ~About(pipe[i], s)
Named(s) == /\ steer[s] \in {"written", "queued"}
            /\ \A i \in At : About(pipe[i], s) => Said(i, s, "queued")
Begun(s) == /\ steer[s] \in {"written", "queued", "started"}
            /\ steer[s] = "started" => \A i \in At : ~Result(i)
            /\ \A i \in At : About(pipe[i], s) =>
                 \/ Said(i, s, "queued")
                 \/ Said(i, s, "started") /\ \A j \in At : Result(j) => j < i

\* Until a steer was withdrawn or ran, it keeps its turn open.
Live ==
    /\ Placed
    /\ \A k \in 1..Len(stdin) : stdin[k].op = "steer" => of[stdin[k].id] = inflight /\ Mute(stdin[k].id)
    /\ \A m \in 1..Len(waiting) : of[waiting[m]] = inflight /\ Named(waiting[m])
    /\ run \in Steers => of[run] = inflight /\ Begun(run)

\* A withdrawal that was answered, or was carried out, leaves nothing of its steer.
Gone(s) == ~InStdin(s) /\ \A m \in 1..Len(waiting) : waiting[m] # s
Withdrawn ==
    /\ \A s \in asked : s \in Pushed /\ of[s] = stopped
    /\ \A k \in 1..Len(stdin) : stdin[k].op = "cancel" =>
         /\ stdin[k].id[2] \in asked
         /\ \A m \in 1..Len(stdin) : stdin[m].op = "steer" /\ stdin[m].id = stdin[k].id[2] => m < k
    /\ \A i \in At : pipe[i].kind = "cancelled" => pipe[i].id[2] \in asked /\ Gone(pipe[i].id[2])
    /\ \A s \in asked : <<"stop", s>> \notin cancels => Gone(s)

\* Once the stop is done, a steer it found waiting can only be running still.
Ended ==
    \A s \in asked : /\ s \in Pushed /\ Gone(s)
                     /\ run = s => \E k \in 1..Len(stdin) : stdin[k].op = "interrupt"

StopRight ==
    /\ Calm /\ Aimed
    /\ stop = "withdrawing" => Live /\ Withdrawn
    /\ stop = "done" => Ended
NoStop == stop = "idle" /\ hit = {} /\ \A k \in 1..Len(stdin) : stdin[k].op # "interrupt"
Stopping == IF "stop" \in events THEN StopRight ELSE NoStop

----------------------------------------------------------------------------
(* What a step writes, takes and leaves                                     *)

\* The messages that a step of the session writes, pushes aside: the next turn's, a
\* withdrawal, or the one interrupt.
Begins(m) == m.op = "turn" /\ m.id = inflight' /\ inflight' \in Turns /\ inflight' # inflight
Interrupts(m) ==
    /\ m.op = "interrupt" /\ StopGoesOn /\ ~Releasable(stopped, steer)
    /\ inflight = stopped /\ UNCHANGED <<inflight, steer>>
Withdraws(m) == m.op = "cancel" /\ (Stop \/ ReadFails)
Writes(w) == \A i \in 1..Len(w) : Begins(w[i]) \/ Withdraws(w[i]) \/ Interrupts(w[i])

LEMMA NothingWritten == ASSUME Typed, stdin' = stdin PROVE \E w \in Seq(Written) : stdin' = stdin \o w /\ Writes(w)
<1>1. <<>> \in Seq(Written) /\ Len(<<>>) = 0 /\ stdin \o <<>> = stdin
  BY DEF Typed, Channels
<1>2. PICK e : e = <<>>
  OBVIOUS
<1>3. e \in Seq(Written) /\ stdin' = stdin \o e /\ \A i \in 1..Len(e) : FALSE
  BY <1>1, <1>2
<1>. QED
  BY <1>3 DEF Writes

LEMMA EndsWrites ==
    ASSUME Typed, Owned', inflight \in Turns, NEW outcome \in {"completed", "failed"},
           NEW written \in Seq(Written), Ends(outcome, written), \A i \in 1..Len(written) : Withdraws(written[i])
    PROVE  \E w \in Seq(Written) : stdin' = stdin \o w /\ Writes(w)
<1>1. PICK w \in Seq(Written) : Starts(w) /\ stdin' = stdin \o (written \o w)
  BY DEF Ends
<1>2. inflight' # inflight
  BY DEF Ends, Owned
<1>3. \A i \in 1..Len(w) : Begins(w[i])
  <2>1. CASE inflight' \in Turns
    <3>. DEFINE m == Msg("turn", inflight')
    <3>1. w = <<m>> /\ Begins(m)
      BY <1>1, <1>2, <2>1 DEF Starts, Begins, Msg
    <3>. HIDE DEF m
    <3>. QED
      BY <3>1
  <2>2. CASE inflight' \notin Turns
    BY <1>1, <2>2, Empty DEF Starts
  <2>. QED
    BY <2>1, <2>2
<1>4. /\ written \o w \in Seq(Written)
      /\ \A i \in 1..Len(written \o w) : \/ \E j \in 1..Len(written) : (written \o w)[i] = written[j]
                                         \/ \E j \in 1..Len(w) : (written \o w)[i] = w[j]
  <2>1. /\ written \o w \in Seq(Written) /\ Len(written) \in Nat
        /\ \A i \in 1..Len(written) : (written \o w)[i] = written[i]
        /\ \A i \in 1..Len(w) : (written \o w)[Len(written) + i] = w[i]
        /\ \A i \in 1..Len(written \o w) : i \notin 1..Len(written) => i - Len(written) \in 1..Len(w)
    BY Joined
  <2>2. ASSUME NEW i \in 1..Len(written \o w), i \notin 1..Len(written)
        PROVE  \E j \in 1..Len(w) : (written \o w)[i] = w[j]
    <3>1. i - Len(written) \in 1..Len(w) /\ Len(written) + (i - Len(written)) = i
      BY <2>1, <2>2
    <3>. QED
      BY <2>1, <3>1
  <2>. QED
    BY <2>1, <2>2
<1>5. Writes(written \o w)
  <2>. SUFFICES ASSUME NEW i \in 1..Len(written \o w)
                PROVE  Begins((written \o w)[i]) \/ Withdraws((written \o w)[i])
    BY DEF Writes
  <2>1. CASE \E j \in 1..Len(written) : (written \o w)[i] = written[j]
    BY <2>1
  <2>2. CASE \E j \in 1..Len(w) : (written \o w)[i] = w[j]
    BY <1>3, <2>2
  <2>. QED
    BY <1>4, <2>1, <2>2
<1>. QED
  BY <1>1, <1>4, <1>5

LEMMA EndsAlone ==
    ASSUME Typed, Owned', inflight \in Turns, Ends("completed", <<>>)
    PROVE  \E w \in Seq(Written) : stdin' = stdin \o w /\ Writes(w)
<1>1. PICK e : e = <<>>
  OBVIOUS
<1>2. e \in Seq(Written) /\ Ends("completed", e) /\ \A i \in 1..Len(e) : Withdraws(e[i])
  BY <1>1, Empty
<1>. QED
  BY <1>2, EndsWrites

LEMMA ReleaseWrites ==
    ASSUME Typed, NEW t \in Turns, NEW st, ReleaseHeld(t, st)
    PROVE  \E w \in Seq(Written) : stdin' = stdin \o w /\ Writes(w)
<1>1. Owned' /\ (Released(t, st) \/ Untouched)
  BY ReleaseMoves
<1>3. CASE Released(t, st)
  BY <1>1, <1>3, EndsAlone DEF Released
<1>. QED
  BY <1>1, <1>3, NothingWritten DEF Untouched

LEMMA CancelsCancel ==
    ASSUME Typed, NEW who \in {"stop", "failed"}, inflight \in Turns,
           NEW w, w = CancelMsgs(who, Waiting(inflight, steer))
    PROVE  w \in Seq(Written) /\ \A i \in 1..Len(w) : w[i].op = "cancel" /\ w[i].id[2] \in Waiting(inflight, steer)
<1>1. PICK ss : ss = Waiting(inflight, steer)
  OBVIOUS
<1>2. ss \subseteq Pushed /\ w = CancelMsgs(who, ss)
  BY <1>1, WaitingPushed
<1>3. w \in Seq(Written)
  BY <1>2, CancelsWritten
<1>4. \A i \in 1..Len(w) : w[i].op = "cancel" /\ w[i].id[2] \in ss
  BY <1>2, CancelsWritten
<1>. QED
  BY <1>1, <1>3, <1>4

SessionStep ==
    \/ \E t \in Turns : Send(t)
    \/ \E s \in Steers : PushTimesOut(s)
    \/ Stop \/ StopGoesOn
    \/ \E r \in Requests : CancelTimesOut(r)
    \/ Read

LEMMA SessionWrites ==
    ASSUME Typed, SessionStep
    PROVE  /\ UNCHANGED <<events, of, waiting, later, run>>
           /\ \E w \in Seq(Written) : stdin' = stdin \o w /\ Writes(w)
<1>. DEFINE Wrote == \E w \in Seq(Written) : stdin' = stdin \o w /\ Writes(w)
<1>1. UNCHANGED <<events, of, waiting, later, run>>
  BY DEF SessionStep, Read, Send, PushTimesOut, Stop, StopGoesOn, CancelTimesOut, ReadLifecycle, ReadCancelled,
     ReadUnowned, ReadHolds, ReadCompletes, ReadFails, session, cli, history
<1>. SUFFICES Wrote
  BY <1>1
<1>2. inflight # None => inflight \in Turns
  BY DEF Typed, Owned
<1>3. ASSUME NEW t \in Turns, Send(t) PROVE Wrote
  <2>1. CASE inflight = None
    <3>. DEFINE m == Msg("turn", t)
    <3>1. stdin' = Append(stdin, m) /\ inflight' = t
      BY <1>3, <2>1 DEF Send
    <3>2. m \in Written /\ m.op = "turn" /\ m.id = t
      BY TurnWritten DEF Msg
    <3>. HIDE DEF m
    <3>3. <<m>> \in Seq(Written) /\ Len(<<m>>) = 1 /\ <<m>>[1] = m /\ Append(stdin, m) = stdin \o <<m>>
      BY <3>2, Single, Added DEF Typed, Channels
    <3>4. Writes(<<m>>)
      BY <2>1, <3>1, <3>2, <3>3, Distinct DEF Writes, Begins
    <3>. QED
      BY <3>1, <3>3, <3>4
  <2>2. CASE inflight # None
    BY <1>3, <2>2, NothingWritten DEF Send
  <2>. QED
    BY <2>1, <2>2
<1>4. ASSUME NEW s \in Steers, PushTimesOut(s) PROVE Wrote
  <2>1. of[s] \in Turns
    BY <1>4 DEF PushTimesOut, Typed, Known, Pushed
  <2>. QED
    BY <1>4, <2>1, ReleaseWrites DEF PushTimesOut
<1>5. CASE Stop
  <2>1. PICK w : w = CancelMsgs("stop", Waiting(inflight, steer))
    OBVIOUS
  <2>2. inflight \in Turns /\ stdin' = stdin \o w
    BY <1>2, <1>5, <2>1 DEF Stop
  <2>3. w \in Seq(Written) /\ \A i \in 1..Len(w) : w[i].op = "cancel"
    BY <2>1, <2>2, CancelsCancel
  <2>. QED
    BY <1>5, <2>2, <2>3 DEF Writes, Withdraws
<1>6. CASE StopGoesOn
  <2>1. stopped \in Turns
    BY <1>6 DEF StopGoesOn, Typed, Calls
  <2>2. CASE Releasable(stopped, steer)
    BY <1>6, <2>1, <2>2, ReleaseWrites DEF StopGoesOn
  <2>3. CASE ~Releasable(stopped, steer) /\ native[stopped] = "unknown"
    <3>0. PICK m : m = Msg("interrupt", None)
      OBVIOUS
    <3>1. stdin' = Append(stdin, m) /\ UNCHANGED <<inflight, steer>> /\ inflight = stopped
      BY <1>6, <2>1, <2>3, <3>0 DEF StopGoesOn, Typed, Owned
    <3>2. m \in Written /\ m.op = "interrupt"
      BY <3>0, InterruptWritten DEF Msg
    <3>3. <<m>> \in Seq(Written) /\ Len(<<m>>) = 1 /\ <<m>>[1] = m /\ Append(stdin, m) = stdin \o <<m>>
      BY <3>2, Single, Added DEF Typed, Channels
    <3>4. Writes(<<m>>)
      BY <1>6, <2>3, <3>1, <3>2, <3>3 DEF Writes, Interrupts
    <3>. QED
      BY <3>1, <3>3, <3>4
  <2>4. CASE ~Releasable(stopped, steer) /\ native[stopped] # "unknown"
    BY <1>6, <2>4, NothingWritten DEF StopGoesOn
  <2>. QED
    BY <2>2, <2>3, <2>4
<1>7. ASSUME NEW r \in Requests, CancelTimesOut(r) PROVE Wrote
  BY <1>7, NothingWritten DEF CancelTimesOut, cli
<1>8. CASE Read
  <2>1. CASE ReadLifecycle
    BY <1>2, <2>1, NothingWritten, ReleaseWrites DEF ReadLifecycle
  <2>2. CASE ReadCancelled \/ ReadUnowned \/ ReadHolds
    BY <2>2, NothingWritten DEF ReadCancelled, ReadUnowned, ReadHolds, session
  <2>3. CASE ReadCompletes
    <3>1. Owned' /\ Ends("completed", <<>>) /\ inflight \in Turns
      BY <1>2, <2>3, ReadCompletesTyped DEF ReadCompletes, Typed
    <3>. QED
      BY <3>1, EndsAlone
  <2>4. CASE ReadFails
    <3>0. PICK w : w = CancelMsgs("failed", Waiting(inflight, steer))
      OBVIOUS
    <3>1. inflight \in Turns
      BY <1>2, <2>4 DEF ReadFails
    <3>2. w \in Seq(Written) /\ \A i \in 1..Len(w) : Withdraws(w[i])
      BY <2>4, <3>0, <3>1, CancelsCancel DEF Withdraws
    <3>3. SettleAs("failed", w) /\ held' = [held EXCEPT ![inflight] = FALSE]
      BY <2>4, <3>0 DEF ReadFails
    <3>4. Owned' /\ Ends("failed", w)
      BY <3>1, <3>2, <3>3, SettleMoves
    <3>. QED
      BY <3>1, <3>2, <3>4, EndsWrites
  <2>. QED
    BY <1>8, <2>1, <2>2, <2>3, <2>4 DEF Read
<1>. QED
  BY <1>1, <1>3, <1>4, <1>5, <1>6, <1>7, <1>8 DEF SessionStep

\* What the CLI does with its input: it takes the first message, or none.
Shifts == stdin # <<>> /\ stdin' = Tail(stdin)
LEMMA CliTakes ==
    ASSUME Typed, Cli
    PROVE  /\ UNCHANGED <<events, session, credited, asked>>
           /\ \/ stdin' = stdin /\ (CliRuns \/ CliTakesIn \/ CliFinishes)
              \/ Shifts /\ (CliTakesTurn \/ CliTakesSteer \/ CliCancels \/ CliInterrupted)
  BY DEF Shifts, Cli, CliTakesTurn, CliTakesSteer, CliCancels, CliInterrupted, CliRuns, CliTakesIn, CliFinishes, Takes, history

\* Messages that are left.
LEMMA StdinKept ==
    ASSUME Typed, NEW w, w \in Seq(Messages), stdin' = stdin \o w
    PROVE  /\ Len(stdin) \in Nat /\ \A k \in 1..Len(stdin) : k \in 1..Len(stdin') /\ stdin'[k] = stdin[k]
           /\ \A k \in 1..Len(stdin') : \/ k \in 1..Len(stdin) /\ stdin'[k] = stdin[k]
                                        \/ /\ Len(stdin) < k /\ k - Len(stdin) \in 1..Len(w)
                                           /\ stdin'[k] = w[k - Len(stdin)]
<1>1. stdin \in Seq(Messages)
  BY Widened DEF Typed, Channels, Written
<1>2. /\ Len(stdin) \in Nat /\ Len(w) \in Nat /\ Len(stdin') = Len(stdin) + Len(w)
      /\ \A i \in 1..Len(stdin) : stdin'[i] = stdin[i]
      /\ \A i \in 1..Len(w) : stdin'[Len(stdin) + i] = w[i]
      /\ \A i \in 1..Len(stdin') : i \notin 1..Len(stdin) => i - Len(stdin) \in 1..Len(w)
  BY <1>1, Joined
<1>3. \A k \in 1..Len(stdin) : k \in 1..Len(stdin')
  BY <1>2
<1>4. ASSUME NEW k \in 1..Len(stdin'), k \notin 1..Len(stdin)
      PROVE  Len(stdin) < k /\ k - Len(stdin) \in 1..Len(w) /\ stdin'[k] = w[k - Len(stdin)]
  <2>1. k - Len(stdin) \in 1..Len(w) /\ Len(stdin) + (k - Len(stdin)) = k
    BY <1>2, <1>4
  <2>. QED
    BY <1>2, <1>4, <2>1
<1>. QED
  BY <1>2, <1>3, <1>4

\* A push that is heard: one steer is written, and was not before.
Pushes(s) ==
    /\ inflight \in Turns /\ s \notin Pushed /\ stdin' = stdin \o <<Msg("steer", s)>>
    /\ steer' = [steer EXCEPT ![s] = "written"] /\ of' = [of EXCEPT ![s] = inflight]
LEMMA PushWrites ==
    ASSUME Typed, NEW s \in Steers, Push(s)
    PROVE  /\ UNCHANGED <<events, inflight, stop, stopped, waiting, later, run, pipe, native, cancels, history>>
           /\ UNCHANGED <<steer, of, stdin>> \/ Pushes(s)
<1>1. UNCHANGED <<events, inflight, stop, stopped, waiting, later, run, pipe, native, cancels, history>>
  BY DEF Push
<1>2. s \notin Pushed
  BY Distinct DEF Push, Typed, Known, Pushed
<1>3. CASE inflight = None
  BY <1>1, <1>3 DEF Push
<1>4. CASE inflight # None
  <2>1. PICK m : m = Msg("steer", s)
    OBVIOUS
  <2>2. m \in Messages
    BY <2>1 DEF Msg, Messages
  <2>3. stdin' = Append(stdin, m) /\ stdin \in Seq(Messages)
    BY <1>4, <2>1, Widened DEF Push, Typed, Channels, Written
  <2>4. stdin' = stdin \o <<m>>
    BY <2>2, <2>3, Added
  <2>. QED
    BY <1>1, <1>2, <1>4, <2>1, <2>4 DEF Push, Pushes, Typed, Owned
<1>. QED
  BY <1>3, <1>4

LEMMA PushedLast ==
    ASSUME Typed, NEW s \in Steers, stdin' = stdin \o <<Msg("steer", s)>>
    PROVE  /\ Len(stdin) \in Nat /\ \A k \in 1..Len(stdin) : k \in 1..Len(stdin') /\ stdin'[k] = stdin[k]
           /\ \A k \in 1..Len(stdin') : \/ k \in 1..Len(stdin) /\ stdin'[k] = stdin[k]
                                        \/ Len(stdin) < k /\ k = Len(stdin) + 1
                                           /\ stdin'[k].op = "steer" /\ stdin'[k].id = s
<1>1. PICK m : m = Msg("steer", s)
  OBVIOUS
<1>2. m \in Messages /\ m.op = "steer" /\ m.id = s
  BY <1>1 DEF Msg, Messages
<1>3. <<m>> \in Seq(Messages) /\ Len(<<m>>) = 1 /\ <<m>>[1] = m /\ stdin' = stdin \o <<m>>
  BY <1>1, <1>2, Single
<1>. QED
  BY <1>2, <1>3, StdinKept

\* What the session writes, steers aside, comes after what was written.
LEMMA SessionWritesLast ==
    ASSUME Typed, SessionStep
    PROVE  /\ Len(stdin) \in Nat /\ \A k \in 1..Len(stdin) : k \in 1..Len(stdin') /\ stdin'[k] = stdin[k]
           /\ \A k \in 1..Len(stdin') : \/ k \in 1..Len(stdin) /\ stdin'[k] = stdin[k]
                                        \/ /\ Len(stdin) < k
                                           /\ Begins(stdin'[k]) \/ Withdraws(stdin'[k]) \/ Interrupts(stdin'[k])
<1>1. PICK w \in Seq(Written) : stdin' = stdin \o w /\ Writes(w)
  BY SessionWrites
<1>2. w \in Seq(Messages)
  BY Widened DEF Written
<1>. QED
  BY <1>1, <1>2, StdinKept DEF Writes

\* A message that is left after one was taken.
LEMMA StdinLeft ==
    ASSUME Typed, Shifts
    PROVE  /\ 1 \in 1..Len(stdin) /\ Len(stdin) \in Nat /\ Len(stdin') = Len(stdin) - 1 /\ Head(stdin) = stdin[1]
           /\ \A k \in 1..Len(stdin') : stdin'[k] = stdin[k + 1] /\ k + 1 \in 1..Len(stdin) /\ k \in Nat
           /\ \A k \in 1..Len(stdin) : k # 1 => k - 1 \in 1..Len(stdin') /\ stdin'[k - 1] = stdin[k]
<1>1. /\ Len(stdin) \in Nat /\ Len(stdin') = Len(stdin) - 1 /\ Head(stdin) = stdin[1] /\ 1 \in 1..Len(stdin)
      /\ \A k \in 1..Len(stdin') : stdin'[k] = stdin[k + 1] /\ k + 1 \in 1..Len(stdin)
  BY Popped DEF Shifts, Typed, Channels
<1>2. ASSUME NEW k \in 1..Len(stdin), k # 1 PROVE k - 1 \in 1..Len(stdin') /\ stdin'[k - 1] = stdin[k]
  <2>1. k - 1 \in 1..Len(stdin') /\ (k - 1) + 1 = k
    BY <1>1, <1>2
  <2>. QED
    BY <1>1, <2>1
<1>. QED
  BY <1>1, <1>2

\* What the CLI has comes from its input or from what it had, and no run goes back.
Taken(op, x) == Shifts /\ stdin[1].op = op /\ stdin[1].id = x
LEMMA CliMoves ==
    ASSUME Typed, Cli
    PROVE  /\ \A m \in 1..Len(waiting') : \/ \E j \in 1..Len(waiting) : waiting'[m] = waiting[j]
                                          \/ Taken("steer", waiting'[m])
           /\ \A m \in 1..Len(later') : \/ \E j \in 1..Len(later) : later'[m] = later[j]
                                        \/ Taken("turn", later'[m])
           /\ \/ run' \in {None, run} \/ Taken("turn", run')
              \/ \E j \in 1..Len(waiting) : run' = waiting[j]
              \/ \E j \in 1..Len(later) : run' = later[j]
<1>0. waiting \in Seq(Pushed) /\ later \in Seq(Turns)
  BY DEF Typed, Channels
<1>1. CASE CliTakesTurn
  <2>1. waiting' = waiting /\ Taken("turn", Head(stdin).id) /\ Head(stdin).id \in Turns
    BY <1>1, TakesMessage DEF CliTakesTurn, Takes, Shifts, Taken, Written
  <2>2. CASE run' = Head(stdin).id /\ later' = later
    BY <2>1, <2>2
  <2>3. CASE later' = Append(later, Head(stdin).id) /\ run' = run
    <3>1. \A m \in 1..Len(later') : (m \in 1..Len(later) /\ later'[m] = later[m]) \/ later'[m] = Head(stdin).id
      BY <1>0, <2>1, <2>3, Added
    <3>. QED
      BY <2>1, <2>3, <3>1
  <2>. QED
    BY <1>1, <2>2, <2>3 DEF CliTakesTurn
<1>2. CASE CliTakesSteer
  <2>1. waiting' = Append(waiting, Head(stdin).id) /\ later' = later /\ run' = run
    BY <1>2 DEF CliTakesSteer
  <2>2. Taken("steer", Head(stdin).id) /\ Head(stdin).id \in Pushed
    BY <1>2, TakesMessage DEF CliTakesSteer, Takes, Shifts, Taken, Written
  <2>3. \A m \in 1..Len(waiting') : (m \in 1..Len(waiting) /\ waiting'[m] = waiting[m]) \/ waiting'[m] = Head(stdin).id
    BY <1>0, <2>1, <2>2, Added
  <2>. QED
    BY <2>1, <2>2, <2>3
<1>3. CASE CliCancels
  <2>1. later' = later /\ run' = run
    BY <1>3 DEF CliCancels
  <2>2. CASE waiting' = waiting
    BY <2>1, <2>2
  <2>3. CASE \E k \in DOMAIN waiting : waiting' = RemoveAt(waiting, k)
    <3>1. PICK k \in 1..Len(waiting) : waiting' = RemoveAt(waiting, k)
      BY <1>0, <2>3
    <3>2. \A m \in 1..Len(waiting') : m \in 1..Len(waiting) /\ m + 1 \in 1..Len(waiting)
                                     /\ waiting'[m] \in {waiting[m], waiting[m + 1]}
      BY <1>0, <3>1, Removed
    <3>. QED
      BY <2>1, <3>2
  <2>. QED
    BY <1>3, <2>2, <2>3 DEF CliCancels
<1>4. CASE CliInterrupted
  <2>1. waiting' = waiting /\ later' = later /\ run' \in {run, None}
    BY <1>4 DEF CliInterrupted
  <2>. QED
    BY <2>1
<1>5. CASE CliRuns
  <2>1. CASE waiting # <<>> /\ run' = Head(waiting) /\ waiting' = Tail(waiting) /\ later' = later
    <3>1. /\ \A m \in 1..Len(waiting') : m + 1 \in 1..Len(waiting) /\ waiting'[m] = waiting[m + 1]
          /\ run' = waiting[1] /\ 1 \in 1..Len(waiting)
      BY <1>0, <2>1, Popped
    <3>. QED
      BY <2>1, <3>1
  <2>2. CASE later # <<>> /\ run' = Head(later) /\ later' = Tail(later) /\ waiting' = waiting
    <3>1. /\ \A m \in 1..Len(later') : m + 1 \in 1..Len(later) /\ later'[m] = later[m + 1]
          /\ run' = later[1] /\ 1 \in 1..Len(later)
      BY <1>0, <2>2, Popped
    <3>. QED
      BY <2>2, <3>1
  <2>. QED
    BY <1>5, <2>1, <2>2 DEF CliRuns
<1>6. CASE CliTakesIn
  <2>1. waiting # <<>> /\ waiting' = Tail(waiting) /\ later' = later /\ run' = run
    BY <1>6 DEF CliTakesIn
  <2>2. \A m \in 1..Len(waiting') : m + 1 \in 1..Len(waiting) /\ waiting'[m] = waiting[m + 1]
    BY <1>0, <2>1, Popped
  <2>. QED
    BY <2>1, <2>2
<1>7. CASE CliFinishes
  BY <1>7 DEF CliFinishes
<1>. QED
  BY <1>1, <1>2, <1>3, <1>4, <1>5, <1>6, <1>7 DEF Cli

\* Whom a stop withdrew stays gone: a steer is written once.
LEMMA GoneStays ==
    ASSUME Typed, [Next]_vars, NEW s \in Pushed, Gone(s)
    PROVE  Gone(s)' /\ (run' = s => run = s)
<1>. USE DEF Gone, InStdin
<1>0. s \in Steers /\ s \notin Turns /\ s # None
  BY Distinct DEF Pushed
<1>1. CASE SessionStep
  BY <1>1, SessionWrites, SessionWritesLast DEF Begins, Withdraws, Interrupts
<1>2. ASSUME NEW x \in Steers, Push(x) PROVE Gone(s)' /\ (run' = s => run = s)
  BY <1>2, PushWrites, PushedLast DEF Pushes
<1>3. CASE Cli
  <2>1. \A k \in 1..Len(stdin') : \E j \in 1..Len(stdin) : stdin'[k] = stdin[j]
    BY <1>3, CliTakes, StdinLeft
  <2>2. ~InStdin(s)'
    BY <2>1
  <2>3. /\ ~Taken("steer", s) /\ ~Taken("turn", s) /\ \A m \in 1..Len(later) : later[m] # s
    <3>1. stdin # <<>> => 1 \in 1..Len(stdin) /\ (stdin[1].op = "turn" => stdin[1].id \in Turns)
      BY Popped DEF Typed, Channels, Written
    <3>2. \A m \in 1..Len(later) : later[m] \in Turns
      BY DEF Typed, Channels
    <3>. QED
      BY <1>0, <3>1, <3>2 DEF Taken, Shifts
  <2>4. \A m \in 1..Len(waiting') : waiting'[m] # s
    BY <1>3, <2>3, CliMoves
  <2>5. run' = s => run = s
    BY <1>0, <1>3, <2>3, CliMoves
  <2>. QED
    BY <2>2, <2>4, <2>5
<1>4. CASE UNCHANGED vars
  BY <1>4 DEF vars, session, cli
<1>. QED
  BY <1>1, <1>2, <1>3, <1>4 DEF Next, SessionStep

----------------------------------------------------------------------------
(* The stop ends its own turn                                               *)

\* A turn fails by its own failed result alone.
LEMMA OnlyFailsFail ==
    ASSUME Typed, [Next]_vars, ~ReadFails, NEW t \in Turns, native'[t] = "failed"
    PROVE  native[t] = "failed"
<1>. SUFFICES ASSUME native[t] # "failed" PROVE FALSE
  OBVIOUS
<1>1. t = inflight /\ native[t] # native'[t] /\ inflight \in Turns
  BY StepTyped DEF Moves, Typed, Owned
<1>2. ASSUME NEW u \in Turns, NEW st, ReleaseHeld(u, st) PROVE native'[inflight] = "completed" \/ native' = native
  BY <1>2, ReleaseMoves DEF Released, Untouched, Rest, Ends
<1>3. native' # native
  BY <1>1
<1>4. \A u \in Turns : ~Send(u)
  BY <1>1, <1>3, Distinct DEF Send
<1>5. \A s \in Steers : ~PushTimesOut(s)
  <2>. SUFFICES ASSUME NEW s \in Steers, PushTimesOut(s) PROVE FALSE
    OBVIOUS
  <2>1. of[s] \in Turns
    BY DEF PushTimesOut, Typed, Known, Pushed
  <2>. QED
    BY <1>1, <1>2, <1>3, <2>1 DEF PushTimesOut
<1>6. ~StopGoesOn
  <2>. SUFFICES ASSUME StopGoesOn PROVE FALSE
    OBVIOUS
  <2>1. stopped \in Turns
    BY DEF StopGoesOn, Typed, Calls
  <2>. QED
    BY <1>1, <1>2, <1>3, <2>1 DEF StopGoesOn
<1>7. ~ReadLifecycle
  BY <1>1, <1>2, <1>3 DEF ReadLifecycle
<1>8. ~ReadCompletes
  BY <1>1, ReadCompletesTyped DEF Ends
<1>. QED
  BY <1>3, <1>4, <1>5, <1>6, <1>7, <1>8 DEF Next, Push, Stop, CancelTimesOut, Read, ReadCancelled, ReadUnowned, ReadHolds,
     Cli, CliTakesTurn, CliTakesSteer, CliCancels, CliInterrupted, CliRuns, CliTakesIn, CliFinishes, vars, session

\* What each step of the CLI says.
LEMMA TakesSteerSays ==
    ASSUME Typed, CliTakesSteer
    PROVE  \E l \in Spoken : /\ pipe' = pipe \o <<l>> /\ l.kind = "lifecycle" /\ l.what = "queued"
                             /\ l.id = stdin[1].id /\ l.id \in Pushed
<1>1. PICK l : l = Line("lifecycle", Head(stdin).id, "queued")
  OBVIOUS
<1>2. Head(stdin).id \in Pushed /\ Head(stdin) = stdin[1]
  BY TakesMessage DEF CliTakesSteer, Written
<1>3. pipe' = pipe \o <<l>>
  BY <1>1 DEF CliTakesSteer, Says
<1>. QED
  BY <1>1, <1>2, <1>3, LifecycleSpoken DEF SteerState, Line

Cancels(r) == \E k \in 1..Len(waiting) : waiting[k] = r[2] /\ waiting' = RemoveAt(waiting, k)
LEMMA CancelSays ==
    ASSUME Typed, CliCancels
    PROVE  \/ \E l, m \in Spoken :
                /\ pipe' = pipe \o <<l, m>> /\ Cancels(stdin[1].id)
                /\ l.kind = "cancelled" /\ l.id = stdin[1].id
                /\ m.kind = "lifecycle" /\ m.id = stdin[1].id[2]
           \/ /\ waiting' = waiting /\ \A k \in 1..Len(waiting) : waiting[k] # stdin[1].id[2]
              /\ \E l \in Spoken : /\ pipe' = pipe \o <<l>> /\ l.kind = "cancelled"
                                   /\ l.id = stdin[1].id /\ l.what = FALSE
<1>0. PICK r : r = stdin[1].id
  OBVIOUS
<1>1. r \in Requests /\ Head(stdin).id = r
  BY <1>0, TakesMessage DEF CliCancels, Written
<1>2. waiting \in Seq(Pushed)
  BY DEF Typed, Channels
<1>3. CASE /\ \E k \in DOMAIN waiting : waiting[k] = r[2] /\ waiting' = RemoveAt(waiting, k)
           /\ pipe' = pipe \o <<Line("cancelled", r, TRUE), Line("lifecycle", r[2], "cancelled")>>
  <2>1. PICK l, m : l = Line("cancelled", r, TRUE) /\ m = Line("lifecycle", r[2], "cancelled")
    OBVIOUS
  <2>2. r[2] \in Pushed /\ Cancels(r)
    BY <1>2, <1>3 DEF Cancels
  <2>3. /\ l \in Spoken /\ l.kind = "cancelled" /\ l.id = r
        /\ m \in Spoken /\ m.kind = "lifecycle" /\ m.id = r[2]
    BY <1>1, <2>1, <2>2, CancelledSpoken, LifecycleSpoken DEF Line, SteerState
  <2>4. pipe' = pipe \o <<l, m>>
    BY <1>3, <2>1
  <2>. QED
    BY <1>0, <2>2, <2>3, <2>4
<1>4. CASE r[2] \notin ToSet(waiting) /\ pipe' = pipe \o <<Line("cancelled", r, FALSE)>> /\ waiting' = waiting
  <2>1. PICK l : l = Line("cancelled", r, FALSE)
    OBVIOUS
  <2>2. l \in Spoken /\ l.kind = "cancelled" /\ l.id = r /\ l.what = FALSE
    BY <1>1, <2>1, CancelledSpoken DEF Line
  <2>3. \A k \in 1..Len(waiting) : waiting[k] # r[2]
    BY <1>2, <1>4 DEF ToSet
  <2>4. pipe' = pipe \o <<l>>
    BY <1>4, <2>1
  <2>. QED
    BY <1>0, <1>4, <2>2, <2>3, <2>4
<1>. QED
  BY <1>1, <1>3, <1>4 DEF CliCancels, Says

LEMMA RunsSays ==
    ASSUME Typed, CliRuns
    PROVE  \/ /\ waiting' = waiting /\ pipe' = pipe /\ run' \in Turns
           \/ /\ waiting # <<>> /\ waiting' = Tail(waiting) /\ run' = waiting[1]
              /\ \E l \in Spoken : /\ pipe' = pipe \o <<l>> /\ l.kind = "lifecycle"
                                   /\ l.id = waiting[1] /\ l.what = "started"
<1>1. CASE waiting # <<>> /\ run' = Head(waiting) /\ waiting' = Tail(waiting)
           /\ pipe' = pipe \o <<Line("lifecycle", Head(waiting), "started")>>
  <2>1. PICK l : l = Line("lifecycle", Head(waiting), "started")
    OBVIOUS
  <2>2. Head(waiting) \in Pushed /\ Head(waiting) = waiting[1]
    BY <1>1, Popped DEF Typed, Channels
  <2>3. l \in Spoken /\ l.kind = "lifecycle" /\ l.id = waiting[1] /\ l.what = "started"
    BY <2>1, <2>2, LifecycleSpoken DEF SteerState, Line
  <2>4. pipe' = pipe \o <<l>>
    BY <1>1, <2>1
  <2>. QED
    BY <1>1, <2>2, <2>3, <2>4
<1>2. CASE later # <<>> /\ run' = Head(later) /\ UNCHANGED <<waiting, pipe>>
  BY <1>2, Popped DEF Typed, Channels
<1>. QED
  BY <1>1, <1>2 DEF CliRuns, Says

LEMMA TakesInSays ==
    ASSUME Typed, CliTakesIn
    PROVE  /\ waiting # <<>> /\ waiting' = Tail(waiting) /\ run' = run
           /\ \E l, m \in Spoken : /\ pipe' = pipe \o <<l, m>> /\ l.kind = "lifecycle" /\ m.kind = "lifecycle"
                                   /\ l.id = waiting[1] /\ m.id = waiting[1]
<1>1. PICK l, m : /\ l = Line("lifecycle", Head(waiting), "started")
                  /\ m = Line("lifecycle", Head(waiting), "completed")
  OBVIOUS
<1>2. waiting # <<>> /\ waiting' = Tail(waiting) /\ run' = run /\ pipe' = pipe \o <<l, m>>
  BY <1>1 DEF CliTakesIn, Says
<1>3. Head(waiting) \in Pushed /\ Head(waiting) = waiting[1]
  BY <1>2, Popped DEF Typed, Channels
<1>4. l \in Spoken /\ m \in Spoken
  BY <1>1, <1>3, LifecycleSpoken DEF SteerState
<1>5. l.kind = "lifecycle" /\ m.kind = "lifecycle" /\ l.id = waiting[1] /\ m.id = waiting[1]
  BY <1>1, <1>3 DEF Line
<1>. QED
  BY <1>2, <1>4, <1>5

LEMMA FinishSays ==
    ASSUME Typed, CliFinishes
    PROVE  /\ waiting' = waiting /\ run # None /\ run' = None
           /\ \E w \in Seq(Spoken) :
                /\ pipe' = pipe \o w
                /\ \A i \in 1..Len(w) :
                     /\ w[i].kind \in {"lifecycle", "result"} /\ w[i].id = run
                     /\ w[i].kind = "result" /\ "fails" \notin events => w[i].what = "completed"
<1>1. PICK o \in {"completed", "failed"} : (o = "failed" => "fails" \in events) /\ pipe' = pipe \o Closing(o, "completed")
  BY DEF CliFinishes, Says, Closing
<1>2. PICK w : w = Closing(o, "completed")
  OBVIOUS
<1>3. run # None /\ run' = None /\ waiting' = waiting
  BY DEF CliFinishes
<1>4. /\ w \in Seq(Spoken) /\ Len(w) = (IF run \in Steers THEN 2 ELSE 1) /\ w[1] = Line("result", run, o)
      /\ run \in Steers => w[2] = Line("lifecycle", run, "completed")
  BY <1>2, <1>3, ClosingSpoken DEF SteerState
<1>5. ASSUME NEW i \in 1..Len(w)
      PROVE  /\ w[i].kind \in {"lifecycle", "result"} /\ w[i].id = run
             /\ w[i].kind = "result" /\ "fails" \notin events => w[i].what = "completed"
  <2>1. i = 1 \/ (i = 2 /\ run \in Steers)
    BY <1>4
  <2>. QED
    BY <1>1, <1>4, <2>1 DEF Line
<1>. QED
  BY <1>1, <1>2, <1>3, <1>4, <1>5

\* A withdrawal is answered when it was read, and a result is a failed one by itself or by a stop.
Honest(l) ==
    /\ l.kind = "cancelled" => CliCancels /\ l.id = stdin[1].id
    /\ l.kind = "result" => l.what = "completed"
LEMMA CliSays ==
    ASSUME Typed, Cli, ~CliInterrupted, "fails" \notin events
    PROVE  \A i \in 1..Len(pipe') : (i \in 1..Len(pipe) /\ pipe'[i] = pipe[i]) \/ Honest(pipe'[i])
<1>. DEFINE Told == \A i \in 1..Len(pipe') : (i \in 1..Len(pipe) /\ pipe'[i] = pipe[i]) \/ Honest(pipe'[i])
<1>1. CASE pipe' = pipe
  BY <1>1
<1>2. ASSUME NEW w \in Seq(Spoken), pipe' = pipe \o w, \A i \in 1..Len(w) : Honest(w[i])
      PROVE  Told
  BY <1>2, PipeGrows
<1>3. ASSUME NEW l \in Spoken, pipe' = pipe \o <<l>>, Honest(l) PROVE Told
  BY <1>2, <1>3, Single
<1>4. ASSUME NEW l \in Spoken, NEW m \in Spoken, pipe' = pipe \o <<l, m>>, Honest(l), Honest(m) PROVE Told
  BY <1>2, <1>4, Pair
<1>. HIDE DEF Told
<1>5. CASE CliTakesSteer
  <2>1. PICK l \in Spoken : pipe' = pipe \o <<l>> /\ l.kind = "lifecycle"
    BY <1>5, TakesSteerSays
  <2>. QED
    BY <1>3, <2>1 DEF Honest
<1>6. CASE CliCancels
  <2>1. CASE \E l \in Spoken : pipe' = pipe \o <<l>> /\ l.kind = "cancelled" /\ l.id = stdin[1].id
    <3>1. PICK l \in Spoken : pipe' = pipe \o <<l>> /\ l.kind = "cancelled" /\ l.id = stdin[1].id
      BY <2>1
    <3>. QED
      BY <1>3, <1>6, <3>1 DEF Honest
  <2>2. CASE \E l, m \in Spoken : /\ pipe' = pipe \o <<l, m>> /\ l.kind = "cancelled" /\ l.id = stdin[1].id
                                  /\ m.kind = "lifecycle"
    <3>1. PICK l, m \in Spoken : /\ pipe' = pipe \o <<l, m>> /\ l.kind = "cancelled" /\ l.id = stdin[1].id
                                 /\ m.kind = "lifecycle"
      BY <2>2
    <3>. QED
      BY <1>4, <1>6, <3>1 DEF Honest
  <2>. QED
    BY <1>6, <2>1, <2>2, CancelSays
<1>7. CASE CliRuns
  <2>1. CASE \E l \in Spoken : pipe' = pipe \o <<l>> /\ l.kind = "lifecycle"
    <3>1. PICK l \in Spoken : pipe' = pipe \o <<l>> /\ l.kind = "lifecycle"
      BY <2>1
    <3>. QED
      BY <1>3, <3>1 DEF Honest
  <2>. QED
    BY <1>1, <1>7, <2>1, RunsSays DEF Told
<1>8. CASE CliTakesIn
  <2>1. PICK l, m \in Spoken : pipe' = pipe \o <<l, m>> /\ l.kind = "lifecycle" /\ m.kind = "lifecycle"
    BY <1>8, TakesInSays
  <2>. QED
    BY <1>4, <2>1 DEF Honest
<1>9. CASE CliFinishes
  <2>1. PICK w \in Seq(Spoken) : /\ pipe' = pipe \o w
                                 /\ \A i \in 1..Len(w) : /\ w[i].kind \in {"lifecycle", "result"}
                                                         /\ w[i].kind = "result" => w[i].what = "completed"
    BY <1>9, FinishSays
  <2>. QED
    BY <1>2, <2>1 DEF Honest
<1>10. CASE CliTakesTurn
  BY <1>1, <1>10 DEF CliTakesTurn, Told
<1>. QED
  BY <1>5, <1>6, <1>7, <1>8, <1>9, <1>10 DEF Cli, Told

\* Nothing is said but by the CLI, and read but by the session.
LEMMA PipeBy ==
    ASSUME [Next]_vars
    PROVE  pipe' = pipe \/ Cli \/ \E kind \in {"lifecycle", "cancelled", "result"} : Reads(kind)
  BY DEF Next, Send, Push, PushTimesOut, Stop, StopGoesOn, CancelTimesOut, cli, vars, Read, ReadLifecycle, ReadCancelled,
     ReadUnowned, ReadHolds, ReadCompletes, ReadFails

LEMMA OnlyCompleted ==
    ASSUME Typed, [Next]_vars, ~CliInterrupted, "fails" \notin events,
           \A i \in At : Result(i) => pipe[i].what = "completed"
    PROVE  \A i \in At' : Result(i)' => pipe'[i].what = "completed"
<1>. USE DEF At, Result
<1>1. ASSUME NEW kind, Reads(kind) PROVE \A i \in At' : Result(i)' => pipe'[i].what = "completed"
  BY <1>1, PipeMovesUp
<1>2. CASE Cli
  BY <1>2, CliSays DEF Honest
<1>. QED
  BY <1>1, <1>2, PipeBy

\* push() loses track of a steer only when the CLI is slow.
LEMMA PushesKnown ==
    ASSUME Typed, [Next]_vars, "slow" \notin events, \A s \in Steers : push[s] # "unknown"
    PROVE  \A s \in Steers : push'[s] # "unknown"
<1>1. CASE push' = push
  BY <1>1
<1>2. ASSUME NEW s \in Steers, Push(s) PROVE \A x \in Steers : push'[x] # "unknown"
  <2>1. \E how \in {"ignored", "waiting"} : push' = [push EXCEPT ![s] = how]
    BY <1>2 DEF Push
  <2>. QED
    BY <2>1 DEF Typed, Known
<1>3. CASE ReadLifecycle
  <2>. PICK s : s = Head(pipe).id
    OBVIOUS
  <2>1. \/ push' = push
        \/ push' = [push EXCEPT ![s] = IF @ # "waiting" THEN @
                                       ELSE IF Head(pipe).what = "cancelled" THEN "ignored" ELSE "steered"]
    BY <1>3 DEF ReadLifecycle
  <2>. QED
    BY <2>1 DEF Typed, Known
<1>4. \A s \in Steers : ~PushTimesOut(s)
  BY DEF PushTimesOut
<1>. QED
  BY <1>1, <1>2, <1>3, <1>4 DEF Next, Read, Cli, Send, Stop, StopGoesOn, CancelTimesOut, ReadCancelled, ReadUnowned,
     ReadHolds, ReadCompletes, ReadFails, CliTakesTurn, CliTakesSteer, CliCancels, CliInterrupted, CliRuns, CliTakesIn,
     CliFinishes, vars, session

\* The one interrupt is that of the stop.
LEMMA OnlyStopInterrupts ==
    ASSUME Typed, [Next]_vars, ~StopGoesOn, \A k \in 1..Len(stdin) : stdin[k].op # "interrupt"
    PROVE  \A k \in 1..Len(stdin') : stdin'[k].op # "interrupt"
<1>1. CASE SessionStep
  BY <1>1, SessionWritesLast DEF Begins, Withdraws, Interrupts
<1>2. ASSUME NEW s \in Steers, Push(s) PROVE \A k \in 1..Len(stdin') : stdin'[k].op # "interrupt"
  BY <1>2, PushWrites, PushedLast DEF Pushes
<1>3. CASE Cli
  BY <1>3, CliTakes, StdinLeft
<1>4. CASE UNCHANGED vars
  BY <1>4 DEF vars, cli
<1>. QED
  BY <1>1, <1>2, <1>3, <1>4 DEF Next, SessionStep

\* The stop is called once.
LEMMA StopGoes ==
    ASSUME [Next]_vars
    PROVE  \/ UNCHANGED <<stop, stopped, asked>>
           \/ Stop /\ stop = "idle" /\ stop' = "withdrawing"
           \/ StopGoesOn /\ stop = "withdrawing" /\ stop' = "done" /\ UNCHANGED <<stopped, asked>>
<1>. DEFINE Same == UNCHANGED <<stop, stopped, asked>>
<1>1. CASE Stop
  BY <1>1 DEF Stop
<1>2. CASE StopGoesOn
  BY <1>2 DEF StopGoesOn, history
<1>3. ASSUME NEW t \in Turns, Send(t) PROVE Same
  BY <1>3 DEF Send, history
<1>4. ASSUME NEW s \in Steers, Push(s) \/ PushTimesOut(s) PROVE Same
  BY <1>4 DEF Push, PushTimesOut, history
<1>5. ASSUME NEW r \in Requests, CancelTimesOut(r) PROVE Same
  BY <1>5 DEF CancelTimesOut, history
<1>6. CASE Read
  BY <1>6 DEF Read, ReadLifecycle, ReadCancelled, ReadUnowned, ReadHolds, ReadCompletes, ReadFails, session, history
<1>7. CASE Cli
  BY <1>7 DEF Cli, CliTakesTurn, CliTakesSteer, CliCancels, CliInterrupted, CliRuns, CliTakesIn, CliFinishes,
     session, history
<1>8. CASE UNCHANGED vars
  BY <1>8 DEF vars, session, history
<1>. QED
  BY <1>1, <1>2, <1>3, <1>4, <1>5, <1>6, <1>7, <1>8 DEF Next

\* Who is hit was hit by an interrupt.
LEMMA Hits ==
    ASSUME Typed, [Next]_vars
    PROVE  hit' = hit \/ /\ CliInterrupted /\ run # None /\ hit' = hit \cup {Owner(run)}
                         /\ stdin[1].op = "interrupt" /\ 1 \in 1..Len(stdin)
<1>1. CliInterrupted => stdin[1].op = "interrupt" /\ 1 \in 1..Len(stdin)
  BY TakesMessage DEF CliInterrupted
<1>. QED
  BY <1>1 DEF Next, Stop, StopGoesOn, Push, Send, PushTimesOut, CancelTimesOut, Read, ReadLifecycle, ReadCancelled, ReadUnowned,
     ReadHolds, ReadCompletes, ReadFails, Cli, CliTakesTurn, CliTakesSteer, CliCancels, CliInterrupted, CliRuns, CliTakesIn,
     CliFinishes, vars, session, history

LEMMA CalmStep ==
    ASSUME Typed, events = {"stop"}, Calm, [Next]_vars
    PROVE  Calm'
<1>1. \A s \in Steers : push'[s] # "unknown"
  BY PushesKnown DEF Calm
<1>2. ASSUME stop' # "done" PROVE Unharmed'
  <2>1. stop # "done" /\ ~StopGoesOn
    BY <1>2, StopGoes DEF StopGoesOn
  <2>2. Unharmed
    BY <2>1 DEF Calm
  <2>3. ~CliInterrupted /\ hit' = {}
    BY <2>2, Hits, TakesMessage DEF Unharmed, CliInterrupted
  <2>4. ~ReadFails
    BY <2>2, PipeMovesUp DEF ReadFails, Unharmed, At, Result
  <2>5. \A t \in Turns : native'[t] # "failed"
    BY <2>2, <2>4, OnlyFailsFail DEF Unharmed
  <2>6. \A k \in 1..Len(stdin') : stdin'[k].op # "interrupt"
    BY <2>1, <2>2, OnlyStopInterrupts DEF Unharmed
  <2>7. \A i \in At' : Result(i)' => pipe'[i].what = "completed"
    BY <2>2, <2>3, OnlyCompleted DEF Unharmed
  <2>. QED
    BY <2>3, <2>5, <2>6, <2>7 DEF Unharmed
<1>. QED
  BY <1>1, <1>2 DEF Calm

\* Whom a message or a run is of does not change.
LEMMA OwnerKept ==
    ASSUME Typed, [Next]_vars
    PROVE  \A x \in Turns \cup Pushed : Owner(x)' = Owner(x)
<1>1. CASE of' = of
  BY <1>1 DEF Owner
<1>2. ASSUME NEW s \in Steers, Push(s) PROVE \A x \in Turns \cup Pushed : Owner(x)' = Owner(x)
  BY <1>2, PushWrites DEF Pushes, Owner, Typed, Known, Pushed
<1>3. CASE Cli
  BY <1>1, <1>3, CliTakes DEF session
<1>4. CASE SessionStep
  BY <1>1, <1>4, SessionWrites
<1>5. CASE UNCHANGED vars
  BY <1>1, <1>5 DEF vars, session
<1>. QED
  BY <1>2, <1>3, <1>4, <1>5 DEF Next, SessionStep

\* Whatever is written, waits or runs is a turn or a steer that was pushed.
LEMMA WithinKnown ==
    ASSUME Typed
    PROVE  /\ Within \subseteq Turns \cup Pushed
           /\ \A k \in 1..Len(stdin) : stdin[k].op \in {"turn", "steer"} => stdin[k].id \in Turns \cup Pushed
<1>1. \A k \in 1..Len(stdin) : stdin[k] \in Written
  BY DEF Typed, Channels
<1>2. /\ \A m \in 1..Len(waiting) : waiting[m] \in Pushed
      /\ \A m \in 1..Len(later) : later[m] \in Turns
      /\ run \in Turns \cup Pushed \cup {None}
  BY DEF Typed, Channels
<1>. QED
  BY <1>1, <1>2 DEF Within, Written

LEMMA Took == ASSUME Typed, Shifts PROVE stdin' # stdin
<1>1. Len(stdin) \in Nat /\ Len(stdin') = Len(stdin) - 1
  BY StdinLeft
<1>2. Len(stdin') # Len(stdin)
  BY <1>1
<1>. QED
  BY <1>2

\* What the CLI has stays of the stopped turn as it reads on.
LEMMA OwnCli ==
    ASSUME Typed, Cli, NEW n \in 0..Len(stdin), OwnUpTo(n), NEW m \in Nat,
           (stdin' = stdin /\ m = n) \/ (Shifts /\ m + 1 = n)
    PROVE  OwnUpTo(m)'
<1>1. UNCHANGED <<stopped, of>>
  BY CliTakes DEF session
<1>2. \A x : Owner(x)' = Owner(x)
  BY <1>1 DEF Owner
<1>3. \A k \in 1..m : \E j \in 1..n : stdin'[k] = stdin[j]
  <2>1. CASE stdin' = stdin /\ m = n
    BY <2>1
  <2>2. CASE Shifts /\ m + 1 = n
    <3>0. /\ Len(stdin) \in Nat /\ Len(stdin') = Len(stdin) - 1
          /\ \A k \in 1..Len(stdin') : stdin'[k] = stdin[k + 1]
      BY <2>2, StdinLeft
    <3>1. \A k \in 1..m : k \in 1..Len(stdin') /\ k + 1 \in 1..n
      BY <2>2, <3>0
    <3>. QED
      BY <3>0, <3>1
  <2>. QED
    BY <2>1, <2>2
<1>4. \A op, x : op \in {"turn", "steer"} /\ Taken(op, x) => Owner(x) = stopped
  <2>. SUFFICES ASSUME NEW op \in {"turn", "steer"}, NEW x, Taken(op, x) PROVE Owner(x) = stopped
    OBVIOUS
  <2>1. m + 1 = n
    BY Took DEF Taken
  <2>2. 1 \in 1..n
    BY <2>1
  <2>. QED
    BY <2>2 DEF Taken, OwnUpTo
<1>5. /\ \A j \in 1..Len(waiting) : Owner(waiting[j]) = stopped
      /\ \A j \in 1..Len(later) : Owner(later[j]) = stopped
      /\ run # None => Owner(run) = stopped
  BY DEF OwnUpTo, Within
<1>6. /\ \A j \in 1..Len(waiting') : Owner(waiting'[j]) = stopped
      /\ \A j \in 1..Len(later') : Owner(later'[j]) = stopped
      /\ run' # None => Owner(run') = stopped
  BY <1>4, <1>5, CliMoves
<1>7. \A k \in 1..m : stdin'[k].op \in {"turn", "steer"} => Owner(stdin'[k].id) = stopped
  BY <1>3 DEF OwnUpTo
<1>. QED
  BY <1>1, <1>2, <1>6, <1>7 DEF OwnUpTo, Within

LEMMA OwnCliAll == ASSUME Typed, Cli, OwnUpTo(Len(stdin)) PROVE OwnUpTo(Len(stdin))'
<1>1. CASE Shifts
  <2>1. Len(stdin) \in 0..Len(stdin) /\ Len(stdin') \in Nat /\ Len(stdin') + 1 = Len(stdin)
    BY <1>1, StdinLeft
  <2>2. PICK m \in Nat : m = Len(stdin')
    BY <2>1
  <2>3. OwnUpTo(m)'
    BY <1>1, <2>1, <2>2, OwnCli
  <2>. QED
    BY <2>2, <2>3
<1>2. CASE stdin' = stdin
  <2>1. Len(stdin) \in Nat
    BY DEF Typed, Channels
  <2>2. PICK m \in Nat : m = Len(stdin)
    BY <2>1
  <2>3. m \in 0..Len(stdin) /\ OwnUpTo(m)
    BY <2>1, <2>2
  <2>4. OwnUpTo(m)'
    BY <1>2, <2>3, OwnCli
  <2>. QED
    BY <1>2, <2>2, <2>4
<1>. QED
  BY <1>1, <1>2, CliTakes

LEMMA OwnCliOne ==
    ASSUME Typed, Cli, \A j \in 1..Len(stdin) : stdin[j].op = "interrupt" => OwnUpTo(j),
           NEW k \in 1..Len(stdin'), stdin'[k].op = "interrupt"
    PROVE  OwnUpTo(k)'
<1>1. CASE Shifts
  <2>1. k \in Nat /\ k + 1 \in 1..Len(stdin) /\ stdin[k + 1].op = "interrupt" /\ k + 1 \in 0..Len(stdin)
    BY <1>1, StdinLeft
  <2>. QED
    BY <1>1, <2>1, OwnCli
<1>2. CASE stdin' = stdin
  <2>1. k \in Nat /\ k \in 0..Len(stdin)
    BY <1>2 DEF Typed, Channels
  <2>. QED
    BY <1>2, <2>1, OwnCli
<1>. QED
  BY <1>1, <1>2, CliTakes

\* The CLI is not given another turn as long as the stopped one is in flight.
LEMMA StillStopped ==
    ASSUME Typed, [Next]_vars, stopped' = stopped, stopped \in Turns, native[stopped] # "idle", inflight' = stopped
    PROVE  inflight = stopped
<1>1. Moves /\ Owned /\ Owned'
  BY StepTyped DEF Typed
<1>. QED
  BY <1>1 DEF Moves, Owned

\* What a stop finds is of the turn in flight.
LEMMA StopFindsOwn ==
    ASSUME Typed, Core, Stop
    PROVE  OwnUpTo(Len(stdin))'
<1>1. UNCHANGED <<inflight, of, waiting, later, run>> /\ stopped' = inflight
  BY DEF Stop
<1>2. \A x : Owner(x)' = Owner(x)
  BY <1>1 DEF Owner
<1>3. \A k \in 1..Len(stdin) : stdin[k].op \in {"turn", "steer"} => Owner(stdin[k].id) = inflight
  <2>. SUFFICES ASSUME NEW k \in 1..Len(stdin), stdin[k].op \in {"turn", "steer"} PROVE Owner(stdin[k].id) = inflight
    OBVIOUS
  <2>1. stdin[k] \in Written
    BY DEF Typed, Channels
  <2>2. CASE stdin[k].op = "turn"
    BY <2>1, <2>2 DEF Core, TurnAlone, Owner, Written
  <2>3. CASE stdin[k].op = "steer"
    BY <2>1, <2>3, Distinct DEF Core, Unread, Owner, Written, Pushed
  <2>. QED
    BY <2>2, <2>3
<1>4. \A k \in 1..Len(stdin)' : stdin'[k].op \in {"turn", "steer"} => Owner(stdin'[k].id) = inflight
  <2>1. SessionStep /\ ~StopGoesOn /\ inflight' = inflight
    BY <1>1 DEF SessionStep, Stop, StopGoesOn
  <2>. QED
    BY <1>3, <2>1, SessionWritesLast DEF Begins, Withdraws, Interrupts
<1>5. \A x \in Within : Owner(x) = inflight
  <2>1. \A m \in 1..Len(waiting) : waiting[m] \in Pushed
    BY DEF Typed, Channels
  <2>2. \A m \in 1..Len(waiting) : Owner(waiting[m]) = inflight
    BY <2>1, Distinct DEF Core, Waits, Owner, Pushed
  <2>3. Len(later) = 0
    BY Empty DEF Core, TurnAlone
  <2>4. run # None => Owner(run) = inflight
    BY Distinct DEF Core, TurnAlone, Runs, Owner, Typed, Channels, Pushed
  <2>. QED
    BY <2>2, <2>3, <2>4 DEF Within
<1>. QED
  BY <1>1, <1>2, <1>4, <1>5 DEF OwnUpTo, Within

\* What the CLI has, and a message that was written meanwhile.
LEMMA OwnMore ==
    ASSUME Typed, [Next]_vars, UNCHANGED <<stopped, waiting, later, run>>,
           NEW n \in 0..Len(stdin), OwnUpTo(n), NEW m \in Nat,
           \A k \in 1..m : \/ k \in 1..n /\ stdin'[k] = stdin[k]
                           \/ (stdin[k].op \in {"turn", "steer"} => Owner(stdin[k].id) = stopped)'
    PROVE  OwnUpTo(m)'
<1>1. \A x \in Turns \cup Pushed : Owner(x)' = Owner(x)
  BY OwnerKept
<1>2. \A x \in Within : x \in Turns \cup Pushed /\ Owner(x)' = stopped
  BY <1>1, WithinKnown DEF OwnUpTo
<1>3. \A k \in 1..n : stdin[k].op \in {"turn", "steer"} =>
        stdin[k].id \in Turns \cup Pushed /\ Owner(stdin[k].id) = stopped
  <2>1. \A k \in 1..n : k \in 1..Len(stdin)
    BY DEF Typed, Channels
  <2>. QED
    BY <2>1, WithinKnown DEF OwnUpTo
<1>4. ASSUME NEW k \in 1..m PROVE (stdin[k].op \in {"turn", "steer"} => Owner(stdin[k].id) = stopped)'
  <2>1. CASE k \in 1..n /\ stdin'[k] = stdin[k] /\ stdin[k].op \in {"turn", "steer"}
    <3>1. PICK x \in Turns \cup Pushed : x = stdin[k].id /\ Owner(x) = stopped
      BY <1>3, <2>1
    <3>2. x = stdin'[k].id /\ Owner(x)' = stopped'
      BY <1>1, <2>1, <3>1
    <3>. QED
      BY <3>2
  <2>. QED
    BY <2>1
<1>. QED
  BY <1>2, <1>4 DEF OwnUpTo, Within

LEMMA OwnSession ==
    ASSUME Typed, SessionStep, stopped' = stopped, inflight' = inflight, OwnUpTo(Len(stdin))
    PROVE  OwnUpTo(Len(stdin))'
<1>1. UNCHANGED <<waiting, later, run>>
  BY SessionWrites
<1>2. Len(stdin) \in Nat /\ Len(stdin) \in 0..Len(stdin) /\ Len(stdin)' \in Nat
  BY StepTyped DEF Next, SessionStep, Typed, Channels
<1>3. \A k \in 1..Len(stdin)' : \/ k \in 1..Len(stdin) /\ stdin'[k] = stdin[k]
                                \/ stdin'[k].op \notin {"turn", "steer"}
  BY SessionWritesLast DEF Begins, Withdraws, Interrupts
<1>4. PICK n \in Nat : n = Len(stdin)'
  BY <1>2
<1>5. OwnUpTo(n)'
  BY <1>1, <1>2, <1>3, <1>4, OwnMore DEF Next, SessionStep
<1>. QED
  BY <1>4, <1>5

LEMMA OwnPush ==
    ASSUME Typed, NEW s \in Steers, Push(s), inflight = stopped, OwnUpTo(Len(stdin))
    PROVE  OwnUpTo(Len(stdin))'
<1>1. UNCHANGED <<stopped, waiting, later, run>> /\ [Next]_vars
  BY PushWrites DEF Next
<1>2. Len(stdin) \in Nat /\ Len(stdin) \in 0..Len(stdin) /\ Len(stdin)' \in Nat
  BY StepTyped DEF Next, Typed, Channels
<1>3. \A k \in 1..Len(stdin)' : \/ k \in 1..Len(stdin) /\ stdin'[k] = stdin[k]
                                \/ (Owner(stdin[k].id) = stopped)'
  <2>1. CASE Pushes(s)
    <3>1. \A k \in 1..Len(stdin)' : \/ k \in 1..Len(stdin) /\ stdin'[k] = stdin[k]
                                    \/ stdin'[k].id = s
      BY <2>1, PushedLast DEF Pushes
    <3>2. (Owner(s) = stopped)'
      BY <1>1, <2>1, Distinct DEF Pushes, Typed, Known, Owner
    <3>. QED
      BY <3>1, <3>2
  <2>. QED
    BY <2>1, PushWrites
<1>4. PICK n \in Nat : n = Len(stdin)'
  BY <1>2
<1>5. OwnUpTo(n)'
  BY <1>1, <1>2, <1>3, <1>4, OwnMore
<1>. QED
  BY <1>4, <1>5

\* Whoever is hit is of the stopped turn.
LEMMA HitOwn ==
    ASSUME Typed, Calm, Aimed, [Next]_vars
    PROVE  hit' \subseteq {stopped'}
<1>1. CASE hit' = hit
  <2>1. stop = "idle" => hit = {}
    BY DEF Calm, Unharmed
  <2>2. stop # "idle" => stopped' = stopped
    BY StopGoes DEF Stop
  <2>. QED
    BY <1>1, <2>1, <2>2 DEF Aimed
<1>2. CASE /\ CliInterrupted /\ run # None /\ hit' = hit \cup {Owner(run)}
           /\ stdin[1].op = "interrupt" /\ 1 \in 1..Len(stdin)
  <2>1. stop = "done"
    BY <1>2 DEF Calm, Unharmed
  <2>2. OwnUpTo(1)
    BY <1>2, <2>1 DEF Aimed
  <2>3. Owner(run) = stopped
    BY <1>2, <2>2 DEF OwnUpTo, Within
  <2>4. stopped' = stopped
    BY <2>1, StopGoes DEF Stop
  <2>. QED
    BY <1>2, <2>3, <2>4 DEF Aimed
<1>. QED
  BY <1>1, <1>2, Hits

\* What the CLI has is of the stopped turn until the stop is carried out.
LEMMA AimedStep ==
    ASSUME Typed, events = {"stop"}, Calm, Aimed, stop = "idle" => Core, [Next]_vars
    PROVE  Aimed'
<1>. USE StopGoes
<1>0. Typed' /\ Moves /\ Owned
  BY StepTyped DEF Typed
<1>1. stop' # "idle" => native'[stopped'] # "idle"
  <2>1. CASE Stop
    BY <1>0, <2>1 DEF Stop, Owned
  <2>2. CASE stop # "idle" /\ stopped' = stopped
    <3>1. native[stopped] # "idle" /\ stopped \in Turns
      BY <2>2 DEF Aimed, Typed, Calls
    <3>2. native'[stopped] # "idle"
      BY <1>0, <3>1 DEF Moves
    <3>. QED
      BY <2>2, <3>2
  <2>. QED
    BY <2>1, <2>2 DEF Stop
<1>2. ASSUME stop' = "withdrawing", inflight' = stopped' PROVE OwnUpTo(Len(stdin))'
  <2>1. CASE Stop
    BY <2>1, StopFindsOwn DEF Stop
  <2>2. CASE stop = "withdrawing" /\ stopped' = stopped
    <3>1. inflight = stopped /\ stopped \in Turns /\ native[stopped] # "idle"
      BY <1>2, <2>2, StillStopped DEF Aimed, Typed, Calls
    <3>2. OwnUpTo(Len(stdin))
      BY <2>2, <3>1 DEF Aimed
    <3>3. CASE SessionStep
      BY <1>2, <2>2, <3>1, <3>2, <3>3, OwnSession
    <3>4. ASSUME NEW s \in Steers, Push(s) PROVE OwnUpTo(Len(stdin))'
      BY <3>1, <3>2, <3>4, OwnPush
    <3>5. CASE Cli
      BY <3>2, <3>5, OwnCliAll
    <3>6. CASE UNCHANGED vars
      BY <3>2, <3>6 DEF OwnUpTo, Within, Owner, vars, session, cli
    <3>. QED
      BY <3>3, <3>4, <3>5, <3>6 DEF Next, SessionStep
  <2>. QED
    BY <1>2, <2>1, <2>2
<1>3. ASSUME stop' = "done", NEW k \in 1..Len(stdin'), stdin'[k].op = "interrupt" PROVE OwnUpTo(k)'
  <2>1. CASE StopGoesOn
    <3>1. Len(stdin) \in Nat /\ Len(stdin) < k /\ Interrupts(stdin'[k])
      BY <1>3, <2>1, SessionWritesLast DEF SessionStep, Begins, Withdraws, Calm, Unharmed, StopGoesOn
    <3>2. OwnUpTo(Len(stdin))
      BY <2>1, <3>1 DEF Aimed, Interrupts, StopGoesOn
    <3>3. k \in Nat /\ Len(stdin) \in 0..Len(stdin) /\ UNCHANGED <<stopped, waiting, later, run>>
      BY <2>1, <3>1, SessionWrites DEF SessionStep, StopGoesOn
    <3>4. \A j \in 1..k : \/ j \in 1..Len(stdin) /\ stdin'[j] = stdin[j]
                          \/ stdin'[j].op \notin {"turn", "steer"}
      <4>1. \A j \in 1..k : j \in 1..Len(stdin')
        BY <1>0, <1>3 DEF Typed, Channels
      <4>. QED
        BY <2>1, <3>1, <4>1, SessionWritesLast DEF SessionStep, Begins, Withdraws, Interrupts
    <3>. QED
      BY <3>2, <3>3, <3>4, OwnMore
  <2>2. CASE stop = "done" /\ stopped' = stopped /\ ~StopGoesOn
    <3>1. \A j \in 1..Len(stdin) : stdin[j].op = "interrupt" => OwnUpTo(j)
      BY <2>2 DEF Aimed
    <3>2. ASSUME k \in 1..Len(stdin), \A j \in 1..Len(stdin) : stdin'[j] = stdin[j], UNCHANGED <<waiting, later, run>>
          PROVE  OwnUpTo(k)'
      <4>1. Len(stdin) \in Nat /\ k \in Nat /\ k \in 0..Len(stdin) /\ \A j \in 1..k : j \in 1..Len(stdin)
        BY <3>2 DEF Typed, Channels
      <4>2. OwnUpTo(k)
        BY <1>3, <3>1, <3>2
      <4>. QED
        BY <2>2, <3>2, <4>1, <4>2, OwnMore
    <3>3. CASE SessionStep
      BY <1>3, <2>2, <3>2, <3>3, SessionWrites, SessionWritesLast DEF Begins, Withdraws, Interrupts
    <3>4. ASSUME NEW s \in Steers, Push(s) PROVE OwnUpTo(k)'
      <4>1. CASE UNCHANGED <<steer, of, stdin>>
        BY <1>3, <3>2, <3>4, <4>1, PushWrites
      <4>2. CASE Pushes(s)
        BY <1>3, <3>2, <3>4, <4>2, PushWrites, PushedLast DEF Pushes
      <4>. QED
        BY <3>4, <4>1, <4>2, PushWrites
    <3>5. CASE Cli
      BY <1>3, <3>1, <3>5, OwnCliOne
    <3>6. CASE UNCHANGED vars
      BY <1>3, <3>1, <3>6 DEF OwnUpTo, Within, Owner, vars, session, cli
    <3>. QED
      BY <3>3, <3>4, <3>5, <3>6 DEF Next, SessionStep
  <2>. QED
    BY <1>3, <2>1, <2>2
<1>. QED
  BY <1>1, <1>2, <1>3, HitOwn DEF Aimed

----------------------------------------------------------------------------
(* A steer is in one place                                                  *)

\* The steers the CLI has not read stay apart, and are those it had not read.
LEMMA StdinDown ==
    ASSUME Typed, Cli, Placed
    PROVE  /\ \A k \in 1..Len(stdin') : \E j \in 1..Len(stdin) : stdin'[k] = stdin[j] /\ (Shifts => j # 1)
           /\ \A k, m \in 1..Len(stdin') :
                stdin'[k].op = "steer" /\ stdin'[m].op = "steer" /\ stdin'[k].id = stdin'[m].id => k = m
<1>1. CASE Shifts
  <2>1. \A k \in 1..Len(stdin') : stdin'[k] = stdin[k + 1] /\ k + 1 \in 1..Len(stdin) /\ k \in Nat
    BY <1>1, StdinLeft
  <2>2. \A k \in 1..Len(stdin') : k + 1 # 1
    BY <2>1
  <2>3. ASSUME NEW k \in 1..Len(stdin'), NEW m \in 1..Len(stdin'),
               stdin'[k].op = "steer", stdin'[m].op = "steer", stdin'[k].id = stdin'[m].id
        PROVE  k = m
    <3>1. k + 1 = m + 1
      BY <2>1, <2>3 DEF Placed
    <3>. QED
      BY <2>1, <3>1
  <2>. QED
    BY <2>1, <2>2, <2>3
<1>2. CASE stdin' = stdin /\ ~Shifts
  BY <1>2 DEF Placed
<1>. QED
  BY <1>1, <1>2, CliTakes, Took

LEMMA PlacedWithin ==
    ASSUME Typed, Cli, Placed,
           \A m \in 1..Len(waiting') : \E j \in 1..Len(waiting) : waiting'[m] = waiting[j],
           \A i, j \in 1..Len(waiting') : waiting'[i] = waiting'[j] => i = j,
           run' \in Steers => /\ run' = run \/ \E j \in 1..Len(waiting) : run' = waiting[j]
                              /\ \A m \in 1..Len(waiting') : waiting'[m] # run'
    PROVE  Placed'
<1>1. \A k \in 1..Len(stdin') : \E j \in 1..Len(stdin) : stdin'[k] = stdin[j]
  BY StdinDown
<1>2. /\ \A k \in 1..Len(stdin) : stdin[k].op = "steer" => stdin[k].id \in Steers
      /\ \A j \in 1..Len(waiting) : waiting[j] \in Steers
  BY DEF Typed, Channels, Written, Pushed
<1>3. \A k \in 1..Len(stdin') : stdin'[k].op = "steer" =>
        stdin'[k].id # run' /\ \A i \in 1..Len(waiting') : waiting'[i] # stdin'[k].id
  BY <1>1, <1>2 DEF Placed
<1>4. \A m \in 1..Len(waiting') : waiting'[m] # run'
  BY <1>2
<1>. QED
  BY <1>3, <1>4, StdinDown DEF Placed

LEMMA PlacedCli == ASSUME Typed, Cli, Placed PROVE Placed'
<1>0. /\ waiting \in Seq(Pushed) /\ \A j \in 1..Len(waiting) : waiting[j] \in Steers
      /\ \A i, j \in 1..Len(waiting) : waiting[i] = waiting[j] => i = j
      /\ \A i \in 1..Len(waiting) : waiting[i] # run
  <2>1. waiting \in Seq(Pushed) /\ \A j \in 1..Len(waiting) : waiting[j] \in Steers
    BY DEF Typed, Channels, Pushed
  <2>. QED
    BY <2>1 DEF Placed
<1>1. ASSUME waiting' = waiting, run' = run \/ run' \notin Steers PROVE Placed'
  BY <1>0, <1>1, PlacedWithin
<1>2. ASSUME waiting # <<>>, waiting' = Tail(waiting), run' = run \/ run' = waiting[1] PROVE Placed'
  <2>1. /\ 1 \in 1..Len(waiting)
        /\ \A m \in 1..Len(waiting') : waiting'[m] = waiting[m + 1] /\ m + 1 \in 1..Len(waiting)
    BY <1>0, <1>2, Popped
  <2>2. \A m \in 1..Len(waiting') : m + 1 # 1
    OBVIOUS
  <2>3. \A m \in 1..Len(waiting') : waiting'[m] # run'
    BY <1>0, <1>2, <2>1, <2>2
  <2>4. ASSUME NEW i \in 1..Len(waiting'), NEW j \in 1..Len(waiting'), waiting'[i] = waiting'[j] PROVE i = j
    <3>1. i + 1 = j + 1
      BY <1>0, <2>1, <2>4
    <3>. QED
      BY <3>1
  <2>. QED
    BY <1>2, <2>1, <2>3, <2>4, PlacedWithin
<1>3. CASE CliTakesTurn
  <2>1. waiting' = waiting /\ (run' = run \/ run' = Head(stdin).id) /\ Head(stdin).id \in Turns
    BY <1>3, TakesMessage DEF CliTakesTurn, Written
  <2>. QED
    BY <1>1, <2>1, Distinct
<1>4. CASE CliTakesSteer
  <2>. PICK s : s = stdin[1].id
    OBVIOUS
  <2>1. /\ waiting' = Append(waiting, s) /\ run' = run /\ stdin[1].op = "steer" /\ 1 \in 1..Len(stdin)
        /\ s \in Pushed /\ Shifts
    BY <1>4, TakesMessage DEF CliTakesSteer, Takes, Shifts, Written
  <2>2. \A m \in 1..Len(waiting') : \/ m \in 1..Len(waiting) /\ waiting'[m] = waiting[m]
                                    \/ m = Len(waiting) + 1 /\ waiting'[m] = s
    <3>1. /\ Len(waiting) \in Nat /\ Len(waiting') = Len(waiting) + 1 /\ waiting'[Len(waiting) + 1] = s
          /\ \A i \in 1..Len(waiting) : waiting'[i] = waiting[i]
      BY <1>0, <2>1, Added
    <3>. QED
      BY <3>1
  <2>3. s # run /\ \A m \in 1..Len(waiting) : waiting[m] # s
    BY <2>1 DEF Placed
  <2>4. \A i, j \in 1..Len(waiting') : waiting'[i] = waiting'[j] => i = j
    BY <1>0, <2>2, <2>3
  <2>5. \A i \in 1..Len(waiting') : waiting'[i] # run'
    BY <1>0, <2>1, <2>2, <2>3
  <2>6. \A k \in 1..Len(stdin') : stdin'[k].op = "steer" =>
          stdin'[k].id # s /\ stdin'[k].id # run /\ \A i \in 1..Len(waiting) : waiting[i] # stdin'[k].id
    <3>. SUFFICES ASSUME NEW k \in 1..Len(stdin'), stdin'[k].op = "steer"
                  PROVE  stdin'[k].id # s /\ stdin'[k].id # run /\ \A i \in 1..Len(waiting) : waiting[i] # stdin'[k].id
      OBVIOUS
    <3>1. PICK j \in 1..Len(stdin) : stdin'[k] = stdin[j] /\ j # 1
      BY <2>1, StdinDown
    <3>. QED
      BY <2>1, <3>1 DEF Placed
  <2>7. \A k \in 1..Len(stdin') : stdin'[k].op = "steer" =>
          stdin'[k].id # run' /\ \A i \in 1..Len(waiting') : waiting'[i] # stdin'[k].id
    BY <2>1, <2>2, <2>6
  <2>. QED
    BY <2>4, <2>5, <2>7, StdinDown DEF Placed
<1>5. CASE CliCancels
  <2>0. run' = run
    BY <1>5 DEF CliCancels
  <2>1. CASE \E k \in 1..Len(waiting) : waiting' = RemoveAt(waiting, k)
    <3>1. PICK k \in 1..Len(waiting) : waiting' = RemoveAt(waiting, k)
      BY <2>1
    <3>2. /\ Len(waiting') = Len(waiting) - 1 /\ Len(waiting) \in Nat
          /\ \A i \in 1..Len(waiting') : waiting'[i] = IF i < k THEN waiting[i] ELSE waiting[i + 1]
      BY <1>0, <3>1, Removed
    <3>3. \A i \in 1..Len(waiting') : i \in 1..Len(waiting) /\ i + 1 \in 1..Len(waiting)
      BY <3>2
    <3>4. \A i, j \in 1..Len(waiting') : i # j => i + 1 # j + 1 /\ (i < k /\ ~(j < k) => i # j + 1)
      OBVIOUS
    <3>5. \A i, j \in 1..Len(waiting') : waiting'[i] = waiting'[j] => i = j
      BY <1>0, <3>2, <3>3, <3>4
    <3>6. \A i \in 1..Len(waiting') : \E j \in 1..Len(waiting) : waiting'[i] = waiting[j]
      BY <3>2, <3>3
    <3>. QED
      BY <1>0, <2>0, <3>5, <3>6, PlacedWithin
  <2>. QED
    BY <1>1, <1>5, <2>0, <2>1, CancelSays DEF Cancels
<1>6. CASE CliInterrupted \/ CliFinishes
  BY <1>1, <1>6, Distinct DEF CliInterrupted, CliFinishes
<1>7. CASE CliRuns
  BY <1>1, <1>2, <1>7, RunsSays, Distinct
<1>8. CASE CliTakesIn
  BY <1>2, <1>8, TakesInSays
<1>. QED
  BY <1>3, <1>4, <1>5, <1>6, <1>7, <1>8 DEF Cli

LEMMA PlacedSession == ASSUME Typed, SessionStep, Placed PROVE Placed'
<1>1. UNCHANGED <<waiting, run>>
  BY SessionWrites
<1>2. \A k \in 1..Len(stdin') : stdin'[k].op = "steer" => k \in 1..Len(stdin) /\ stdin'[k] = stdin[k]
  BY SessionWritesLast DEF Begins, Withdraws, Interrupts
<1>. QED
  BY <1>1, <1>2 DEF Placed

LEMMA PlacedPush == ASSUME Typed, NEW s \in Steers, Push(s), Placed PROVE Placed'
<1>1. UNCHANGED <<waiting, run>>
  BY PushWrites
<1>2. CASE Pushes(s)
  <2>1. \A k \in 1..Len(stdin') : \/ k \in 1..Len(stdin) /\ stdin'[k] = stdin[k]
                                  \/ k = Len(stdin) + 1 /\ stdin'[k].op = "steer" /\ stdin'[k].id = s
    BY <1>2, PushedLast DEF Pushes
  <2>2. /\ \A k \in 1..Len(stdin) : stdin[k].op = "steer" => stdin[k].id # s
        /\ \A m \in 1..Len(waiting) : waiting[m] # s
        /\ run # s
    BY <1>2, Distinct DEF Pushes, Typed, Channels, Written
  <2>. QED
    BY <1>1, <2>1, <2>2 DEF Placed
<1>. QED
  BY <1>1, <1>2, PushWrites DEF Placed

----------------------------------------------------------------------------
(* What is said of a steer                                                  *)

\* Nothing more is said of x; nothing more is said but of s; no result is said.
Silent(x) == \A i \in 1..Len(pipe') : (i \in 1..Len(pipe) /\ pipe'[i] = pipe[i]) \/ ~About(pipe'[i], x)
Tells(s) == \A x \in Steers \ {s} : Silent(x)
NoResult == \A i \in 1..Len(pipe') : (i \in 1..Len(pipe) /\ pipe'[i] = pipe[i]) \/ pipe'[i].kind # "result"
Of(l, s) == IF l.kind = "cancelled" THEN l.what = TRUE => l.id[2] = s ELSE l.id = s

LEMMA TellsOf ==
    ASSUME Typed, NEW w \in Seq(Spoken), pipe' = pipe \o w, NEW s, \A i \in 1..Len(w) : Of(w[i], s)
    PROVE  Tells(s) /\ ((\A i \in 1..Len(w) : w[i].kind # "result") => NoResult)
<1>1. \A i \in 1..Len(pipe') : (i \in 1..Len(pipe) /\ pipe'[i] = pipe[i]) \/ \E j \in 1..Len(w) : pipe'[i] = w[j]
  BY PipeGrows
<1>2. \A x \in Steers \ {s} : \A i \in 1..Len(w) : ~About(w[i], x)
  BY DEF About, Of
<1>. QED
  BY <1>1, <1>2 DEF Tells, Silent, NoResult

LEMMA TellsOne ==
    ASSUME Typed, NEW l \in Spoken, pipe' = pipe \o <<l>>, NEW s, Of(l, s), l.kind # "result"
    PROVE  /\ Tells(s) /\ NoResult
           /\ \A i \in 1..Len(pipe') : (i \in 1..Len(pipe) /\ pipe'[i] = pipe[i]) \/ (Len(pipe) < i /\ pipe'[i] = l)
<1>1. <<l>> \in Seq(Spoken) /\ Len(<<l>>) = 1 /\ <<l>>[1] = l
  BY Single
<1>2. \A i \in 1..Len(<<l>>) : <<l>>[i] = l
  BY <1>1
<1>. QED
  BY <1>1, <1>2, TellsOf, PipeGrows

LEMMA TellsTwo ==
    ASSUME Typed, NEW l \in Spoken, NEW m \in Spoken, pipe' = pipe \o <<l, m>>, NEW s, Of(l, s), Of(m, s),
           l.kind # "result", m.kind # "result"
    PROVE  Tells(s) /\ NoResult
<1>1. <<l, m>> \in Seq(Spoken) /\ \A i \in 1..Len(<<l, m>>) : <<l, m>>[i] \in {l, m}
  BY Pair
<1>2. \A i \in 1..Len(<<l, m>>) : Of(<<l, m>>[i], s) /\ <<l, m>>[i].kind # "result"
  BY <1>1
<1>. QED
  BY <1>1, <1>2, TellsOf

\* Of whom nothing is said, the session knows what it knew.
LEMMA Unsaid ==
    ASSUME Typed, NEW x, steer'[x] = steer[x], Silent(x)
    PROVE  /\ Mute(x) => Mute(x)'
           /\ Named(x) => Named(x)'
           /\ NoResult /\ Begun(x) => Begun(x)'
<1>. USE DEF At, Said, Result
<1>1. \A i \in At' : About(pipe'[i], x) => i \in At /\ pipe'[i] = pipe[i]
  BY DEF Silent
<1>2. (Mute(x) => Mute(x)') /\ (Named(x) => Named(x)')
  BY <1>1 DEF Mute, Named
<1>3. ASSUME NoResult, Begun(x) PROVE Begun(x)'
  <2>1. \A i \in At' : Result(i)' => i \in At /\ Result(i)
    BY <1>3 DEF NoResult
  <2>. QED
    BY <1>1, <1>3, <2>1 DEF Begun
<1>. QED
  BY <1>2, <1>3

\* What is read of a steer is what the session then knows.
LEMMA ReadOf ==
    ASSUME Typed, NEW kind, Reads(kind), NEW x, steer'[x] = steer[x] \/ Said(1, x, steer'[x]),
           About(pipe[1], x) => Said(1, x, steer'[x])
    PROVE  /\ Mute(x) => Mute(x)'
           /\ Named(x) => Named(x)'
           /\ Begun(x) => Begun(x)'
<1>. USE DEF At, Said, Result
<1>1. /\ 1 \in At /\ \A i \in At' : /\ pipe'[i] = pipe[i + 1] /\ i + 1 \in At /\ i \in Nat
                                    /\ \A j \in At' : j + 1 < i + 1 => j < i
  BY PipeMovesUp
<1>2. Said(1, x, steer'[x]) => About(pipe[1], x)
  BY DEF About
<1>3. ASSUME Mute(x) PROVE Mute(x)'
  BY <1>1, <1>2, <1>3 DEF Mute
<1>4. ASSUME Named(x) PROVE Named(x)'
  <2>1. steer'[x] \in {"written", "queued"}
    BY <1>1, <1>2, <1>4 DEF Named
  <2>. QED
    BY <1>1, <1>4, <2>1 DEF Named
<1>5. ASSUME Begun(x) PROVE Begun(x)'
  <2>1. \A j \in At : ~(j < 1)
    BY DEF Typed, Channels
  <2>2. /\ steer'[x] \in {"written", "queued", "started"}
        /\ steer'[x] = "started" => \A i \in At : ~Result(i)
    <3>1. CASE steer'[x] = steer[x]
      BY <1>5, <3>1 DEF Begun
    <3>2. CASE Said(1, x, steer'[x])
      BY <1>1, <1>2, <1>5, <2>1, <3>2 DEF Begun
    <3>. QED
      BY <3>1, <3>2
  <2>3. \A i \in At' : About(pipe'[i], x) =>
          \/ Said(i, x, "queued")'
          \/ Said(i, x, "started")' /\ \A j \in At' : Result(j)' => j < i
    <3>. SUFFICES ASSUME NEW i \in At', About(pipe'[i], x)
                  PROVE  \/ Said(i, x, "queued")'
                         \/ Said(i, x, "started")' /\ \A j \in At' : Result(j)' => j < i
      OBVIOUS
    <3>1. \/ Said(i + 1, x, "queued")
          \/ Said(i + 1, x, "started") /\ \A j \in At : Result(j) => j < i + 1
      BY <1>1, <1>5 DEF Begun
    <3>2. \A j \in At' : Result(j)' => j + 1 \in At /\ Result(j + 1)
      BY <1>1
    <3>. QED
      BY <1>1, <3>1, <3>2
  <2>4. \A i \in At' : Result(i)' => i + 1 \in At /\ Result(i + 1)
    BY <1>1
  <2>. QED
    BY <2>2, <2>3, <2>4 DEF Begun
<1>. QED
  BY <1>3, <1>4, <1>5


----------------------------------------------------------------------------
(* A steer keeps its turn open                                              *)

LEMMA LiveOn ==
    ASSUME Typed, Live, Placed', UNCHANGED <<inflight, of, steer>>,
           \A k \in 1..Len(stdin') : stdin'[k].op = "steer" =>
             (\E j \in 1..Len(stdin) : stdin'[k] = stdin[j]) /\ Silent(stdin'[k].id),
           \A m \in 1..Len(waiting') :
             \/ (\E j \in 1..Len(waiting) : waiting'[m] = waiting[j]) /\ Silent(waiting'[m])
             \/ \E s \in Steers : waiting'[m] = s /\ of[s] = inflight /\ Named(s)',
           run' \in Steers => \/ run' = run /\ Silent(run') /\ NoResult
                              \/ \E s \in Steers : run' = s /\ of[s] = inflight /\ Begun(s)'
    PROVE  Live'
<1>1. ASSUME NEW k \in 1..Len(stdin'), stdin'[k].op = "steer"
      PROVE  of'[stdin'[k].id] = inflight' /\ Mute(stdin[k].id)'
  <2>1. PICK j \in 1..Len(stdin) : stdin'[k] = stdin[j] /\ Silent(stdin'[k].id)
    BY <1>1
  <2>2. PICK x : x = stdin[j].id
    OBVIOUS
  <2>3. of[x] = inflight /\ Mute(x)
    BY <1>1, <2>1, <2>2 DEF Live
  <2>4. Mute(x)'
    BY <2>1, <2>2, <2>3, Unsaid
  <2>. QED
    BY <2>1, <2>2, <2>3, <2>4 DEF Mute
<1>2. ASSUME NEW m \in 1..Len(waiting') PROVE of'[waiting'[m]] = inflight' /\ Named(waiting[m])'
  <2>1. CASE (\E j \in 1..Len(waiting) : waiting'[m] = waiting[j]) /\ Silent(waiting'[m])
    <3>1. PICK j \in 1..Len(waiting) : waiting'[m] = waiting[j]
      BY <2>1
    <3>2. PICK x : x = waiting[j]
      OBVIOUS
    <3>3. of[x] = inflight /\ Named(x)
      BY <3>2 DEF Live
    <3>4. Named(x)'
      BY <2>1, <3>1, <3>2, <3>3, Unsaid
    <3>. QED
      BY <3>1, <3>2, <3>3, <3>4 DEF Named
  <2>2. CASE \E s \in Steers : waiting'[m] = s /\ of[s] = inflight /\ Named(s)'
    BY <2>2 DEF Named
  <2>. QED
    BY <2>1, <2>2
<1>3. ASSUME run' \in Steers PROVE of'[run'] = inflight' /\ Begun(run)'
  <2>1. CASE run' = run /\ Silent(run') /\ NoResult
    <3>1. PICK x : x = run
      OBVIOUS
    <3>2. of[x] = inflight /\ Begun(x)
      BY <1>3, <2>1, <3>1 DEF Live
    <3>3. Begun(x)'
      BY <2>1, <3>1, <3>2, Unsaid
    <3>. QED
      BY <2>1, <3>1, <3>2, <3>3 DEF Begun
  <2>2. CASE \E s \in Steers : run' = s /\ of[s] = inflight /\ Begun(s)'
    BY <2>2 DEF Begun
  <2>. QED
    BY <1>3, <2>1, <2>2
<1>. QED
  BY <1>1, <1>2, <1>3 DEF Live

\* The CLI: a steer that is taken is named, and one that starts was named.
LEMMA LiveCli ==
    ASSUME Typed, Live, Cli, \A k \in 1..Len(stdin) : stdin[k].op # "interrupt"
    PROVE  Live'
<1>0. /\ UNCHANGED <<inflight, of, steer>> /\ Placed /\ Placed'
      /\ \A k \in 1..Len(stdin') : \E j \in 1..Len(stdin) : stdin'[k] = stdin[j] /\ (Shifts => j # 1)
      /\ \A k \in 1..Len(stdin) : stdin[k].op = "steer" => stdin[k].id \in Steers
      /\ \A m \in 1..Len(waiting) : waiting[m] \in Steers
      /\ waiting \in Seq(Pushed)
  <2>1. UNCHANGED <<inflight, of, steer>> /\ Placed /\ Placed'
    BY CliTakes, PlacedCli DEF session, Live
  <2>2. \A k \in 1..Len(stdin) : stdin[k].op = "steer" => stdin[k].id \in Steers
    BY DEF Typed, Channels, Written, Pushed
  <2>3. waiting \in Seq(Pushed) /\ \A m \in 1..Len(waiting) : waiting[m] \in Steers
    BY DEF Typed, Channels, Pushed
  <2>. QED
    BY <2>1, <2>2, <2>3, StdinDown
<1>1. \A k \in 1..Len(stdin') : stdin'[k].op = "steer" =>
        /\ \E j \in 1..Len(stdin) : stdin'[k] = stdin[j]
        /\ stdin'[k].id \in Steers /\ stdin'[k].id # run
        /\ \A m \in 1..Len(waiting) : waiting[m] # stdin'[k].id
  BY <1>0 DEF Placed
<1>2. CASE CliTakesTurn
  <2>1. pipe' = pipe /\ waiting' = waiting /\ (run' = run \/ run' = Head(stdin).id) /\ Head(stdin).id \in Turns
    BY <1>2, TakesMessage DEF CliTakesTurn, Written
  <2>2. run' = run \/ run' \notin Steers
    BY <2>1, Distinct
  <2>3. NoResult /\ \A x : Silent(x)
    BY <2>1 DEF NoResult, Silent
  <2>. QED
    BY <1>0, <1>1, <2>1, <2>2, <2>3, LiveOn
<1>3. CASE CliTakesSteer
  <2>. PICK s : s = stdin[1].id
    OBVIOUS
  <2>1. /\ waiting' = Append(waiting, s) /\ run' = run /\ stdin[1].op = "steer" /\ 1 \in 1..Len(stdin)
        /\ s \in Pushed /\ Shifts
    BY <1>3, TakesMessage DEF CliTakesSteer, Takes, Shifts, Written
  <2>2. \A m \in 1..Len(waiting') : \/ m \in 1..Len(waiting) /\ waiting'[m] = waiting[m]
                                    \/ waiting'[m] = s
    <3>1. /\ Len(waiting) \in Nat /\ Len(waiting') = Len(waiting) + 1 /\ waiting'[Len(waiting) + 1] = s
          /\ \A i \in 1..Len(waiting) : waiting'[i] = waiting[i]
      BY <1>0, <2>1, Added
    <3>. QED
      BY <3>1
  <2>3. PICK l \in Spoken : /\ pipe' = pipe \o <<l>> /\ l.kind = "lifecycle" /\ l.what = "queued"
                            /\ l.id = s
    BY <1>3, TakesSteerSays
  <2>4. /\ Tells(s) /\ NoResult
        /\ \A i \in 1..Len(pipe') : (i \in 1..Len(pipe) /\ pipe'[i] = pipe[i]) \/ (Len(pipe) < i /\ pipe'[i] = l)
    BY <2>3, TellsOne DEF Of
  <2>5. of[s] = inflight /\ Mute(s) /\ s \in Steers
    BY <1>0, <2>1 DEF Live
  <2>6. Named(s)'
    BY <1>0, <2>3, <2>4, <2>5 DEF Named, Mute, At, Said
  <2>7. s # run /\ \A m \in 1..Len(waiting) : waiting[m] # s
    BY <2>1, <1>0 DEF Placed
  <2>8. \A k \in 1..Len(stdin') : stdin'[k].op = "steer" => stdin'[k].id # s
    BY <1>0, <2>1 DEF Placed
  <2>9. \A k \in 1..Len(stdin') : stdin'[k].op = "steer" => Silent(stdin'[k].id)
    BY <1>1, <2>4, <2>8 DEF Tells
  <2>10. \A m \in 1..Len(waiting') :
             \/ (\E j \in 1..Len(waiting) : waiting'[m] = waiting[j]) /\ Silent(waiting'[m])
             \/ \E x \in Steers : waiting'[m] = x /\ of[x] = inflight /\ Named(x)'
    BY <1>0, <2>2, <2>4, <2>5, <2>6, <2>7 DEF Tells
  <2>11. run' \in Steers => run' = run /\ Silent(run') /\ NoResult
    BY <2>1, <2>4, <2>7 DEF Tells
  <2>. QED
    BY <1>0, <1>1, <2>9, <2>10, <2>11, LiveOn
<1>4. CASE CliCancels
  <2>. PICK s : s = stdin[1].id[2]
    OBVIOUS
  <2>0. run' = run
    BY <1>4 DEF CliCancels
  <2>1. CASE \E l, m \in Spoken : /\ pipe' = pipe \o <<l, m>> /\ Cancels(stdin[1].id)
                                  /\ l.kind = "cancelled" /\ l.id = stdin[1].id
                                  /\ m.kind = "lifecycle" /\ m.id = stdin[1].id[2]
    <3>1. PICK l, m \in Spoken : /\ pipe' = pipe \o <<l, m>> /\ Cancels(stdin[1].id)
                                 /\ l.kind = "cancelled" /\ l.id = stdin[1].id
                                 /\ m.kind = "lifecycle" /\ m.id = stdin[1].id[2]
      BY <2>1
    <3>2. Tells(s) /\ NoResult
      <4>1. Of(l, s) /\ Of(m, s)
        BY <3>1 DEF Of
      <4>. QED
        BY <3>1, <4>1, TellsTwo
    <3>3. PICK k \in 1..Len(waiting) : waiting[k] = s /\ waiting' = RemoveAt(waiting, k)
      BY <3>1 DEF Cancels
    <3>4. /\ Len(waiting') = Len(waiting) - 1 /\ Len(waiting) \in Nat
          /\ \A i \in 1..Len(waiting') : waiting'[i] = IF i < k THEN waiting[i] ELSE waiting[i + 1]
      BY <1>0, <3>3, Removed
    <3>5. \A i \in 1..Len(waiting') : \E j \in 1..Len(waiting) : waiting'[i] = waiting[j] /\ j # k
      <4>1. \A i \in 1..Len(waiting') : i \in 1..Len(waiting) /\ i + 1 \in 1..Len(waiting)
                                        /\ (i < k => i # k) /\ (~(i < k) => i + 1 # k)
        BY <3>4
      <4>. QED
        BY <3>4, <4>1
    <3>6. \A i \in 1..Len(waiting') : \E j \in 1..Len(waiting) : waiting'[i] = waiting[j] /\ waiting[j] # s
      BY <1>0, <3>3, <3>5 DEF Placed
    <3>7. run # s /\ \A k1 \in 1..Len(stdin') : stdin'[k1].op = "steer" => stdin'[k1].id # s
      BY <1>0, <1>1, <3>3 DEF Placed
    <3>. QED
      BY <1>0, <1>1, <2>0, <3>2, <3>6, <3>7, LiveOn DEF Tells
  <2>2. CASE waiting' = waiting /\ \E l \in Spoken : /\ pipe' = pipe \o <<l>> /\ l.kind = "cancelled"
                                                     /\ l.what = FALSE
    <3>1. PICK l \in Spoken : pipe' = pipe \o <<l>> /\ l.kind = "cancelled" /\ l.what = FALSE
      BY <2>2
    <3>2. Tells(None) /\ NoResult
      BY <3>1, TellsOne DEF Of
    <3>. QED
      BY <1>0, <1>1, <2>0, <2>2, <3>2, Distinct, LiveOn DEF Tells
  <2>. QED
    BY <1>4, <2>1, <2>2, CancelSays
<1>5. CASE CliRuns
  <2>0. stdin' = stdin
    BY <1>5 DEF CliRuns
  <2>1. CASE waiting' = waiting /\ pipe' = pipe /\ run' \in Turns
    <3>1. NoResult /\ \A x : Silent(x)
      BY <2>1 DEF NoResult, Silent
    <3>. QED
      BY <1>0, <1>1, <2>1, <3>1, Distinct, LiveOn
  <2>2. CASE /\ waiting # <<>> /\ waiting' = Tail(waiting) /\ run' = waiting[1]
             /\ \E l \in Spoken : /\ pipe' = pipe \o <<l>> /\ l.kind = "lifecycle"
                                   /\ l.id = waiting[1] /\ l.what = "started"
    <3>. PICK s : s = waiting[1]
      OBVIOUS
    <3>1. PICK l \in Spoken : pipe' = pipe \o <<l>> /\ l.kind = "lifecycle" /\ l.id = s /\ l.what = "started"
      BY <2>2
    <3>2. /\ Tells(s) /\ NoResult
          /\ \A i \in 1..Len(pipe') : (i \in 1..Len(pipe) /\ pipe'[i] = pipe[i]) \/ (Len(pipe) < i /\ pipe'[i] = l)
      BY <3>1, TellsOne DEF Of
    <3>3. 1 \in 1..Len(waiting) /\ \A m \in 1..Len(waiting') : waiting'[m] = waiting[m + 1] /\ m + 1 \in 1..Len(waiting)
      BY <1>0, <2>2, Popped
    <3>4. \A m \in 1..Len(waiting') : \E j \in 1..Len(waiting) : waiting'[m] = waiting[j] /\ waiting[j] # s
      <4>1. \A m \in 1..Len(waiting') : m + 1 # 1
        OBVIOUS
      <4>. QED
        BY <1>0, <3>3, <4>1 DEF Placed
    <3>5. of[s] = inflight /\ Named(s) /\ s \in Steers
      BY <1>0, <3>3 DEF Live
    <3>6. Begun(s)'
      <4>1. \A j \in At' : Result(j)' => j \in 1..Len(pipe)
        BY <3>1, <3>2 DEF At, Result
      <4>2. \A j \in 1..Len(pipe) : \A i \in At' : Len(pipe) < i => j < i
        BY DEF Typed, Channels, At
      <4>3. \A i \in At' : About(pipe'[i], s) =>
                 \/ Said(i, s, "queued")'
                 \/ Said(i, s, "started")' /\ Len(pipe) < i
        BY <3>1, <3>2, <3>5 DEF Named, At, Said
      <4>4. steer'[s] \in {"written", "queued"}
        BY <1>0, <3>5 DEF Named
      <4>. QED
        BY <4>1, <4>2, <4>3, <4>4 DEF Begun
    <3>7. \A k \in 1..Len(stdin') : stdin'[k].op = "steer" => stdin'[k].id # s
      BY <1>1, <3>3
    <3>8. \A k \in 1..Len(stdin') : stdin'[k].op = "steer" => Silent(stdin'[k].id)
      BY <1>1, <3>2, <3>7 DEF Tells
    <3>9. \A m \in 1..Len(waiting') : (\E j \in 1..Len(waiting) : waiting'[m] = waiting[j]) /\ Silent(waiting'[m])
      BY <1>0, <3>2, <3>4 DEF Tells
    <3>10. run' = s
      BY <2>2
    <3>. QED
      BY <1>0, <1>1, <3>5, <3>6, <3>8, <3>9, <3>10, LiveOn
  <2>. QED
    BY <1>5, <2>1, <2>2, RunsSays
<1>6. CASE CliTakesIn
  <2>. PICK s : s = waiting[1]
    OBVIOUS
  <2>0. waiting # <<>> /\ waiting' = Tail(waiting) /\ run' = run
    BY <1>6, TakesInSays
  <2>1. PICK l, m \in Spoken : pipe' = pipe \o <<l, m>> /\ l.kind = "lifecycle" /\ m.kind = "lifecycle"
                               /\ l.id = s /\ m.id = s
    BY <1>6, TakesInSays
  <2>2. Tells(s) /\ NoResult
    BY <2>1, TellsTwo DEF Of
  <2>3. 1 \in 1..Len(waiting) /\ \A i \in 1..Len(waiting') : waiting'[i] = waiting[i + 1] /\ i + 1 \in 1..Len(waiting)
    BY <1>0, <2>0, Popped
  <2>4. \A i \in 1..Len(waiting') : \E j \in 1..Len(waiting) : waiting'[i] = waiting[j] /\ waiting[j] # s
    <3>1. \A i \in 1..Len(waiting') : i + 1 # 1
      OBVIOUS
    <3>. QED
      BY <1>0, <2>3, <3>1 DEF Placed
  <2>5. \A k \in 1..Len(stdin') : stdin'[k].op = "steer" => Silent(stdin'[k].id)
    BY <1>1, <2>2, <2>3 DEF Tells
  <2>6. \A i \in 1..Len(waiting') : (\E j \in 1..Len(waiting) : waiting'[i] = waiting[j]) /\ Silent(waiting'[i])
    BY <1>0, <2>2, <2>4 DEF Tells
  <2>7. run' \in Steers => run' = run /\ Silent(run') /\ NoResult
    BY <1>0, <2>0, <2>2, <2>3 DEF Tells, Placed
  <2>. QED
    BY <1>0, <1>1, <2>5, <2>6, <2>7, LiveOn
<1>7. CASE CliFinishes
  <2>1. waiting' = waiting /\ run # None /\ run' = None
    BY <1>7, FinishSays
  <2>2. PICK w \in Seq(Spoken) : pipe' = pipe \o w /\ \A i \in 1..Len(w) : w[i].kind \in {"lifecycle", "result"} /\ w[i].id = run
    BY <1>7, FinishSays
  <2>3. Tells(run)
    BY <2>2, TellsOf DEF Of
  <2>4. \A k \in 1..Len(stdin') : stdin'[k].op = "steer" => Silent(stdin'[k].id)
    BY <1>1, <2>3 DEF Tells
  <2>5. \A m \in 1..Len(waiting) : waiting[m] # run
    BY <1>0 DEF Placed
  <2>6. \A m \in 1..Len(waiting') : (\E j \in 1..Len(waiting) : waiting'[m] = waiting[j]) /\ Silent(waiting'[m])
    BY <1>0, <2>1, <2>3, <2>5 DEF Tells
  <2>. QED
    BY <1>0, <1>1, <2>1, <2>4, <2>6, Distinct, LiveOn
<1>8. ~CliInterrupted
  BY TakesMessage DEF CliInterrupted
<1>. QED
  BY <1>2, <1>3, <1>4, <1>5, <1>6, <1>7, <1>8 DEF Cli

\* A steer that the CLI has, or is given.
Alive(x) == InStdin(x) \/ (\E m \in 1..Len(waiting) : waiting[m] = x) \/ run = x
LEMMA AliveOpen ==
    ASSUME Typed, Live, NEW x \in Steers, Alive(x)
    PROVE  /\ x \in Pushed /\ of[x] = inflight /\ inflight \in Turns
           /\ Mute(x) \/ Named(x) \/ Begun(x)
<1>1. x \in Pushed
  BY Distinct DEF Alive, InStdin, Typed, Channels, Written
<1>2. of[x] = inflight /\ (Mute(x) \/ Named(x) \/ Begun(x))
  BY DEF Alive, InStdin, Live
<1>. QED
  BY <1>1, <1>2 DEF Pushed

\* What of its steers the session reads, while the turn stays.
LEMMA LiveSame ==
    ASSUME Typed, Live, SessionStep, inflight' = inflight,
           \A x \in Steers : Alive(x) => (Mute(x) => Mute(x)') /\ (Named(x) => Named(x)') /\ (Begun(x) => Begun(x)')
    PROVE  Live'
<1>1. UNCHANGED <<of, waiting, run>> /\ Placed'
  BY SessionWrites, PlacedSession DEF Live
<1>2. \A k \in 1..Len(stdin') : stdin'[k].op = "steer" => k \in 1..Len(stdin) /\ stdin'[k] = stdin[k]
  BY SessionWritesLast DEF Begins, Withdraws, Interrupts
<1>3. ASSUME NEW k \in 1..Len(stdin'), stdin'[k].op = "steer"
      PROVE  of'[stdin'[k].id] = inflight' /\ Mute(stdin[k].id)'
  <2>1. PICK x : x = stdin[k].id
    OBVIOUS
  <2>2. k \in 1..Len(stdin) /\ stdin[k].op = "steer" /\ stdin'[k].id = x
    BY <1>2, <1>3, <2>1
  <2>3. Alive(x) /\ of[x] = inflight /\ Mute(x) /\ x \in Steers
    BY <2>1, <2>2 DEF Alive, InStdin, Live, Typed, Channels, Written, Pushed
  <2>4. Mute(x)'
    BY <2>3
  <2>. QED
    BY <1>1, <2>2, <2>3, <2>4 DEF Mute
<1>4. ASSUME NEW m \in 1..Len(waiting) PROVE of'[waiting[m]] = inflight' /\ Named(waiting[m])'
  <2>1. PICK x : x = waiting[m]
    OBVIOUS
  <2>2. Alive(x) /\ of[x] = inflight /\ Named(x) /\ x \in Steers
    BY <2>1 DEF Alive, Live, Typed, Channels, Pushed
  <2>3. Named(x)'
    BY <2>2
  <2>. QED
    BY <1>1, <2>1, <2>2, <2>3 DEF Named
<1>5. ASSUME run \in Steers PROVE of'[run] = inflight' /\ Begun(run)'
  <2>1. PICK x : x = run
    OBVIOUS
  <2>2. Alive(x) /\ of[x] = inflight /\ Begun(x) /\ x \in Steers
    BY <1>5, <2>1 DEF Alive, Live
  <2>3. Begun(x)'
    BY <2>2
  <2>. QED
    BY <1>1, <2>1, <2>2, <2>3 DEF Begun
<1>6. \A k \in 1..Len(stdin)' : stdin'[k].op = "steer" => of'[stdin'[k].id] = inflight' /\ Mute(stdin[k].id)'
  BY <1>3
<1>7. \A m \in 1..Len(waiting)' : of'[waiting'[m]] = inflight' /\ Named(waiting[m])'
  <2>1. waiting' = waiting
    BY <1>1
  <2>. QED
    BY <1>4, <2>1
<1>8. run' \in Steers => of'[run'] = inflight' /\ Begun(run)'
  BY <1>1, <1>5
<1>. QED
  BY <1>1, <1>6, <1>7, <1>8 DEF Live

\* A turn ends when its steers did.
LEMMA LiveNone == ASSUME Typed, Live, SessionStep, \A x \in Steers : ~Alive(x) PROVE Live'
<1>1. UNCHANGED <<of, waiting, run>> /\ Placed'
  BY SessionWrites, PlacedSession DEF Live
<1>2. \A k \in 1..Len(stdin') : stdin'[k].op = "steer" => k \in 1..Len(stdin) /\ stdin'[k] = stdin[k]
  BY SessionWritesLast DEF Begins, Withdraws, Interrupts
<1>3. /\ \A k \in 1..Len(stdin) : stdin[k].op # "steer"
      /\ \A m \in 1..Len(waiting) : FALSE
      /\ run \notin Steers
  <2>1. /\ \A k \in 1..Len(stdin) : stdin[k].op = "steer" => stdin[k].id \in Steers
        /\ \A m \in 1..Len(waiting) : waiting[m] \in Steers
    BY DEF Typed, Channels, Written, Pushed
  <2>. QED
    BY <2>1 DEF Alive, InStdin
<1>. QED
  BY <1>1, <1>2, <1>3 DEF Live

\* With the steers that may still answer, the turn is not over.
LEMMA Keeps ==
    ASSUME Typed, Live, NEW st, NEW x \in Steers, Alive(x), st[x] = steer[x],
           Waiting(inflight, st) = {}, Started(inflight, st) = {} \/ \E i \in At : Result(i)
    PROVE  FALSE
<1>1. of[x] = inflight /\ (Mute(x) \/ Named(x) \/ Begun(x))
  BY AliveOpen
<1>2. steer[x] \in {"written", "queued"} \/ (steer[x] = "started" /\ \A i \in At : ~Result(i))
  BY <1>1 DEF Mute, Named, Begun
<1>3. x \notin Waiting(inflight, st)
  OBVIOUS
<1>4. Started(inflight, st) = {} => x \notin Started(inflight, st)
  OBVIOUS
<1>. QED
  BY <1>1, <1>2, <1>3, <1>4 DEF Waiting, Started

LEMMA LiveLifecycle == ASSUME Typed, Live, ReadLifecycle PROVE Live'
<1>. PICK s, w : s = Head(pipe).id /\ w = Head(pipe).what
  OBVIOUS
<1>0. SessionStep /\ Reads("lifecycle")
  BY DEF SessionStep, Read, ReadLifecycle
<1>1. /\ 1 \in At /\ Said(1, s, w) /\ s \in Pushed /\ s \in Steers
      /\ \A x \in Steers : About(pipe[1], x) => x = s
  <2>1. 1 \in At /\ Said(1, s, w)
    BY <1>0, PipeMovesUp DEF At, Said
  <2>. QED
    BY <2>1, LineIds DEF At, Said, About, Pushed
<1>2. \A x \in Steers : About(pipe[1], x) <=> x = s
  BY <1>1 DEF Said, About
<1>3. /\ steer' = steer \/ (of[s] = inflight /\ steer' = [steer EXCEPT ![s] = w])
      /\ of[s] = inflight /\ inflight # None => steer' = [steer EXCEPT ![s] = w]
  BY DEF ReadLifecycle
<1>4. ASSUME NEW x \in Steers, Alive(x)
      PROVE  steer'[x] = (IF x = s THEN w ELSE steer[x])
  <2>1. of[x] = inflight /\ inflight # None
    BY <1>4, AliveOpen, Distinct
  <2>. QED
    BY <1>1, <1>3, <2>1 DEF Typed, Known
<1>5. ASSUME NEW x \in Steers, Alive(x)
      PROVE  (Mute(x) => Mute(x)') /\ (Named(x) => Named(x)') /\ (Begun(x) => Begun(x)')
  <2>1. steer'[x] = steer[x] \/ Said(1, x, steer'[x])
    BY <1>1, <1>4, <1>5
  <2>2. About(pipe[1], x) => Said(1, x, steer'[x])
    BY <1>1, <1>2, <1>4, <1>5
  <2>. QED
    BY <1>0, <2>1, <2>2, ReadOf
<1>6. CASE inflight' = inflight
  BY <1>0, <1>5, <1>6, LiveSame
<1>7. CASE inflight' # inflight
  <2>. SUFFICES ASSUME NEW x \in Steers, Alive(x) PROVE FALSE
    BY <1>0, LiveNone
  <2>0. PICK st : st = [steer EXCEPT ![s] = w]
    OBVIOUS
  <2>1. w = "cancelled" /\ ReleaseHeld(inflight, st) /\ inflight \in Turns
    BY <1>7, <2>0 DEF ReadLifecycle, Typed, Owned
  <2>2. Waiting(inflight, st) = {} /\ Started(inflight, st) = {}
    BY <1>7, <2>1, ReleaseMoves DEF Released, Untouched, Rest
  <2>3. x # s
    BY <1>1, <1>2, <2>1, AliveOpen DEF Mute, Named, Begun, Said
  <2>4. st[x] = steer[x]
    BY <2>0, <2>3 DEF Typed, Known
  <2>. QED
    BY <2>2, <2>4, Keeps
<1>. QED
  BY <1>6, <1>7

LEMMA LiveCancelled == ASSUME Typed, Live, ReadCancelled PROVE Live'
<1>. PICK r : r = Head(pipe).id
  OBVIOUS
<1>0. SessionStep /\ Reads("cancelled") /\ inflight' = inflight
  BY DEF SessionStep, Read, ReadCancelled
<1>1. 1 \in At /\ pipe[1].kind = "cancelled" /\ pipe[1].id = r /\ Head(pipe) = pipe[1]
  BY <1>0, PipeMovesUp DEF At
<1>2. steer' = steer \/ (pipe[1].what /\ steer' = [steer EXCEPT ![r[2]] = "cancelled"])
  BY <1>1 DEF ReadCancelled
<1>3. pipe[1].what \in BOOLEAN
  BY <1>1 DEF Typed, Channels, Spoken, Lines, At
<1>4. ASSUME NEW x \in Steers, Alive(x)
      PROVE  (Mute(x) => Mute(x)') /\ (Named(x) => Named(x)') /\ (Begun(x) => Begun(x)')
  <2>1. ~About(pipe[1], x)
    BY <1>1, <1>4, AliveOpen DEF Mute, Named, Begun, Said
  <2>2. steer'[x] = steer[x]
    <3>1. CASE pipe[1].what /\ steer' = [steer EXCEPT ![r[2]] = "cancelled"]
      <4>1. pipe[1].what = TRUE
        BY <1>3, <3>1
      <4>2. r[2] # x
        BY <1>1, <2>1, <4>1 DEF About
      <4>. QED
        BY <3>1, <4>2 DEF Typed, Known
    <3>. QED
      BY <1>2, <3>1
  <2>. QED
    BY <1>0, <2>1, <2>2, ReadOf
<1>. QED
  BY <1>0, <1>4, LiveSame

LEMMA LiveResult == ASSUME Typed, Live, ReadUnowned \/ ReadHolds \/ ReadCompletes PROVE Live'
<1>0. SessionStep /\ Reads("result") /\ steer' = steer
  BY DEF SessionStep, Read, ReadUnowned, ReadHolds, ReadCompletes, session
<1>1. 1 \in At /\ Result(1)
  BY <1>0, PipeMovesUp DEF At, Result
<1>2. CASE inflight' = inflight
  <2>1. ASSUME NEW x \in Steers, Alive(x)
        PROVE  (Mute(x) => Mute(x)') /\ (Named(x) => Named(x)') /\ (Begun(x) => Begun(x)')
    <3>1. About(pipe[1], x) => Said(1, x, steer'[x])
      <4>1. ~Said(1, x, "queued") /\ ~Said(1, x, "started")
        BY <1>1 DEF Said, Result
      <4>. QED
        BY <1>1, <2>1, <4>1, AliveOpen DEF Mute, Named, Begun
    <3>. QED
      BY <1>0, <3>1, ReadOf
  <2>. QED
    BY <1>0, <1>2, <2>1, LiveSame
<1>3. CASE inflight' # inflight
  <2>. SUFFICES ASSUME NEW x \in Steers, Alive(x) PROVE FALSE
    BY <1>0, LiveNone
  <2>1. Waiting(inflight, steer) = {}
    BY <1>3 DEF ReadUnowned, ReadHolds, ReadCompletes, session
  <2>. QED
    BY <1>1, <2>1, Keeps
<1>. QED
  BY <1>2, <1>3

LEMMA LiveSend == ASSUME Typed, Live, NEW t \in Turns, Send(t) PROVE Live'
<1>0. SessionStep /\ UNCHANGED <<steer, pipe>>
  BY DEF SessionStep, Send
<1>1. CASE inflight = None
  BY <1>0, <1>1, LiveNone, AliveOpen, Distinct
<1>2. CASE inflight # None
  <2>1. inflight' = inflight
    BY <1>2 DEF Send
  <2>2. \A x \in Steers : (Mute(x) => Mute(x)') /\ (Named(x) => Named(x)') /\ (Begun(x) => Begun(x)')
    BY <1>0 DEF Mute, Named, Begun, At, Said, Result
  <2>. QED
    BY <1>0, <2>1, <2>2, LiveSame
<1>. QED
  BY <1>1, <1>2

\* A steer that is pushed: nothing was said of it.
LEMMA LivePush ==
    ASSUME Typed, Live, NEW s \in Steers, Push(s), \A i \in At : pipe[i].kind = "cancelled" => pipe[i].id[2] \in Pushed
    PROVE  Live'
<1>1. UNCHANGED <<inflight, waiting, run, pipe>> /\ Placed'
  BY PushWrites, PlacedPush DEF Live
<1>2. CASE Pushes(s)
  <2>1. \A i \in At : ~About(pipe[i], s)
    BY <1>2, LineIds DEF Pushes, About, At
  <2>2. \A x \in Steers : x # s => steer'[x] = steer[x] /\ of'[x] = of[x]
    BY <1>2 DEF Pushes, Typed, Known
  <2>3. steer'[s] = "written" /\ of'[s] = inflight
    BY <1>2 DEF Pushes, Typed, Known
  <2>4. \A k \in 1..Len(stdin') : \/ k \in 1..Len(stdin) /\ stdin'[k] = stdin[k]
                                  \/ stdin'[k].op = "steer" /\ stdin'[k].id = s
    BY <1>2, PushedLast DEF Pushes
  <2>5. /\ \A k \in 1..Len(stdin) : stdin[k].op = "steer" => stdin[k].id \in Steers /\ stdin[k].id # s
        /\ \A m \in 1..Len(waiting) : waiting[m] \in Steers /\ waiting[m] # s
        /\ run # s
    <3>1. s \notin Pushed /\ s \notin Turns /\ s # None
      BY <1>2, Distinct DEF Pushes
    <3>. QED
      BY <3>1 DEF Typed, Channels, Written, Pushed
  <2>6. ASSUME NEW k \in 1..Len(stdin'), stdin'[k].op = "steer"
        PROVE  of'[stdin'[k].id] = inflight' /\ Mute(stdin[k].id)'
    <3>1. CASE k \in 1..Len(stdin) /\ stdin'[k] = stdin[k]
      <4>1. of[stdin[k].id] = inflight /\ Mute(stdin[k].id)
        BY <2>6, <3>1 DEF Live
      <4>. QED
        BY <1>1, <2>2, <2>5, <2>6, <3>1, <4>1 DEF Mute, At
    <3>2. CASE stdin'[k].id = s
      BY <1>1, <2>1, <2>3, <3>2 DEF Mute, At
    <3>. QED
      BY <2>4, <2>6, <3>1, <3>2
  <2>7. ASSUME NEW m \in 1..Len(waiting) PROVE of'[waiting[m]] = inflight' /\ Named(waiting[m])'
    <3>1. of[waiting[m]] = inflight /\ Named(waiting[m])
      BY DEF Live
    <3>2. steer'[waiting[m]] = steer[waiting[m]] /\ of'[waiting[m]] = of[waiting[m]]
      BY <2>2, <2>5
    <3>. QED
      BY <1>1, <3>1, <3>2 DEF Named, At, Said
  <2>8. ASSUME run \in Steers PROVE of'[run] = inflight' /\ Begun(run)'
    <3>1. of[run] = inflight /\ Begun(run)
      BY <2>8 DEF Live
    <3>2. steer'[run] = steer[run] /\ of'[run] = of[run]
      BY <2>2, <2>5, <2>8
    <3>. QED
      BY <1>1, <3>1, <3>2 DEF Begun, At, Said, Result
  <2>. QED
    BY <1>1, <2>6, <2>7, <2>8 DEF Live
<1>3. CASE UNCHANGED <<steer, of, stdin>>
  BY <1>1, <1>3 DEF Live, Mute, Named, Begun, At, Said, Result
<1>. QED
  BY <1>2, <1>3, PushWrites

\* What a stop finds is open.
LEMMA LiveStop == ASSUME Typed, Core, Stop PROVE Live'
<1>0. SessionStep /\ UNCHANGED <<inflight, steer, pipe>>
  BY DEF SessionStep, Stop
<1>1. \A i \in At : pipe[i].kind # "cancelled"
  BY DEF Core, Quiet, At
<1>2. Live
  BY <1>1 DEF Core, Unread, Waits, Runs, Live, Mute, Named, Begun, About, Said
<1>3. \A x \in Steers : (Mute(x) => Mute(x)') /\ (Named(x) => Named(x)') /\ (Begun(x) => Begun(x)')
  BY <1>0 DEF Mute, Named, Begun, At, Said, Result
<1>. QED
  BY <1>0, <1>2, <1>3, LiveSame

\* Until the stop is carried out every steer keeps its turn open.
LEMMA LiveStep ==
    ASSUME Typed, events = {"stop"}, Calm, stop = "idle" => Core, stop = "withdrawing" => Live /\ Withdrawn,
           [Next]_vars, stop' = "withdrawing"
    PROVE  Live'
<1>1. CASE Stop
  BY <1>1, LiveStop DEF Stop
<1>2. CASE stop = "withdrawing"
  <2>0. Live /\ Withdrawn /\ Unharmed
    BY <1>2 DEF Calm
  <2>1. ~StopGoesOn /\ ~Stop /\ ~ReadFails /\ \A s \in Steers : ~PushTimesOut(s)
    <3>1. ~ReadFails
      BY <2>0, PipeMovesUp DEF ReadFails, Unharmed, At, Result
    <3>. QED
      BY <1>2, <3>1 DEF StopGoesOn, Stop, PushTimesOut
  <2>2. \A r \in Requests : ~CancelTimesOut(r)
    BY DEF CancelTimesOut
  <2>3. ASSUME NEW s \in Steers, Push(s) PROVE Live'
    <3>1. \A i \in At : pipe[i].kind = "cancelled" => pipe[i].id[2] \in Pushed
      BY <2>0 DEF Withdrawn
    <3>. QED
      BY <2>0, <2>3, <3>1, LivePush
  <2>4. CASE Cli
    BY <2>0, <2>4, LiveCli DEF Unharmed
  <2>5. CASE UNCHANGED vars
    BY <2>0, <2>5 DEF Live, Placed, Mute, Named, Begun, At, Said, Result, vars, session, cli
  <2>. QED
    BY <2>0, <2>1, <2>2, <2>3, <2>4, <2>5, LiveSend, LiveLifecycle, LiveCancelled, LiveResult DEF Next, Read
<1>. QED
  BY <1>1, <1>2, StopGoes

----------------------------------------------------------------------------
(* Nothing outlives a stop                                                  *)

\* A steer that was pushed stays so, in its turn.
LEMMA PushedStays == ASSUME Typed, [Next]_vars PROVE \A s \in Pushed : s \in Pushed' /\ of'[s] = of[s]
<1>1. \A s \in Pushed : s \in Turns \cup Pushed /\ s \notin Turns /\ s \in Steers /\ of[s] \in Turns
  BY Distinct DEF Pushed
<1>. QED
  BY <1>1, OwnerKept DEF Owner, Pushed

\* A withdrawal is answered by the CLI, or given up.
LEMMA StillAsked ==
    ASSUME Typed, [Next]_vars, \A r \in Requests : ~CancelTimesOut(r), NEW r, r \in cancels, r \notin cancels'
    PROVE  ReadCancelled /\ r = pipe[1].id /\ 1 \in At /\ pipe[1].kind = "cancelled"
<1>1. ReadCancelled
  BY DEF Next, Stop, StopGoesOn, Push, Send, PushTimesOut, Read, ReadLifecycle, ReadUnowned, ReadHolds, ReadCompletes,
     ReadFails, Cli, CliTakesTurn, CliTakesSteer, CliCancels, CliInterrupted, CliRuns, CliTakesIn, CliFinishes, vars, session
<1>2. 1 \in At /\ pipe[1].kind = "cancelled" /\ Head(pipe) = pipe[1]
  BY <1>1, PipeMovesUp DEF ReadCancelled, At
<1>3. r = Head(pipe).id
  BY <1>1 DEF ReadCancelled
<1>. QED
  BY <1>1, <1>2, <1>3

\* Withdrawals that are on their way came after their steers, and stay so.
CancelsLast ==
    \A k \in 1..Len(stdin) : stdin[k].op = "cancel" =>
      /\ stdin[k].id[2] \in asked
      /\ \A m \in 1..Len(stdin) : stdin[m].op = "steer" /\ stdin[m].id = stdin[k].id[2] => m < k

LEMMA CancelsLastStop == ASSUME Typed, Core, Stop PROVE CancelsLast'
<1>1. PICK w : w = CancelMsgs("stop", Waiting(inflight, steer))
  OBVIOUS
<1>2. inflight \in Turns /\ stdin' = stdin \o w /\ asked' = Waiting(inflight, steer)
  BY <1>1 DEF Stop, Typed, Owned
<1>3. w \in Seq(Messages) /\ \A i \in 1..Len(w) : w[i].op = "cancel" /\ w[i].id[2] \in asked'
  <2>1. w \in Seq(Written) /\ \A i \in 1..Len(w) : w[i].op = "cancel" /\ w[i].id[2] \in Waiting(inflight, steer)
    BY <1>1, <1>2, CancelsCancel
  <2>. QED
    BY <1>2, <2>1, Widened DEF Written
<1>4. \A k \in 1..Len(stdin') : \/ k \in 1..Len(stdin) /\ stdin'[k] = stdin[k]
                                \/ Len(stdin) < k /\ stdin'[k].op = "cancel" /\ stdin'[k].id[2] \in asked'
  BY <1>2, <1>3, StdinKept
<1>5. \A k \in 1..Len(stdin) : stdin[k].op # "cancel"
  BY DEF Core, Quiet
<1>6. \A m \in 1..Len(stdin) : \A k \in 1..Len(stdin') : Len(stdin) < k => m < k
  BY DEF Typed, Channels
<1>. QED
  BY <1>4, <1>5, <1>6 DEF CancelsLast

LEMMA CancelsLastStep ==
    ASSUME Typed, [Next]_vars, CancelsLast, asked' = asked, asked \subseteq Pushed, ~Stop, ~ReadFails
    PROVE  CancelsLast'
<1>1. ASSUME NEW n \in Nat, \A k \in 1..Len(stdin') : k \in Nat /\ k + n \in 1..Len(stdin) /\ stdin'[k] = stdin[k + n]
      PROVE  CancelsLast'
  <2>. SUFFICES ASSUME NEW k \in 1..Len(stdin'), stdin'[k].op = "cancel"
                PROVE  /\ stdin'[k].id[2] \in asked
                       /\ \A m \in 1..Len(stdin') : stdin'[m].op = "steer" /\ stdin'[m].id = stdin'[k].id[2] => m < k
    BY DEF CancelsLast
  <2>1. stdin'[k].id[2] \in asked
    BY <1>1 DEF CancelsLast
  <2>2. ASSUME NEW m \in 1..Len(stdin'), stdin'[m].op = "steer", stdin'[m].id = stdin'[k].id[2] PROVE m < k
    <3>1. m + n < k + n
      BY <1>1, <2>2 DEF CancelsLast
    <3>. QED
      BY <1>1, <3>1
  <2>. QED
    BY <2>1, <2>2
<1>2. ASSUME \A k \in 1..Len(stdin') : \/ k \in 1..Len(stdin) /\ stdin'[k] = stdin[k]
                                       \/ stdin'[k].op # "cancel" /\ (stdin'[k].op = "steer" => stdin'[k].id \notin Pushed)
      PROVE  CancelsLast'
  BY <1>2 DEF CancelsLast
<1>3. CASE SessionStep
  BY <1>2, <1>3, SessionWritesLast DEF Begins, Withdraws, Interrupts
<1>4. ASSUME NEW s \in Steers, Push(s) PROVE CancelsLast'
  <2>1. CASE Pushes(s)
    BY <1>2, <1>4, <2>1, PushedLast DEF Pushes
  <2>2. CASE UNCHANGED <<steer, of, stdin>>
    BY <2>2 DEF CancelsLast
  <2>. QED
    BY <1>4, <2>1, <2>2, PushWrites
<1>5. CASE Cli
  <2>1. CASE stdin' = stdin
    BY <2>1 DEF CancelsLast
  <2>2. CASE Shifts
    BY <1>1, <2>2, StdinLeft
  <2>. QED
    BY <1>5, <2>1, <2>2, CliTakes
<1>6. CASE UNCHANGED vars
  BY <1>6 DEF CancelsLast, vars, cli
<1>. QED
  BY <1>3, <1>4, <1>5, <1>6 DEF Next, SessionStep

\* What the CLI withdrew, or never had waiting, is gone once it says so.
LEMMA CancelGone ==
    ASSUME Typed, Placed, CancelsLast, CliCancels, NEW s, s = stdin[1].id[2]
    PROVE  s \in asked /\ Gone(s)'
<1>1. stdin[1].op = "cancel" /\ 1 \in 1..Len(stdin) /\ Shifts
  BY TakesMessage DEF CliCancels, Takes, Shifts
<1>2. s \in asked /\ \A m \in 1..Len(stdin) : stdin[m].op = "steer" /\ stdin[m].id = s => m < 1
  BY <1>1 DEF CancelsLast
<1>3. ~InStdin(s)'
  <2>1. \A m \in 1..Len(stdin) : ~(m < 1)
    BY DEF Typed, Channels
  <2>2. \A k \in 1..Len(stdin') : stdin'[k] = stdin[k + 1] /\ k + 1 \in 1..Len(stdin)
    BY <1>1, StdinLeft
  <2>. QED
    BY <1>2, <2>1, <2>2 DEF InStdin
<1>4. \A m \in 1..Len(waiting') : waiting'[m] # s
  <2>1. CASE Cancels(stdin[1].id)
    <3>1. PICK k \in 1..Len(waiting) : waiting[k] = s /\ waiting' = RemoveAt(waiting, k)
      BY <2>1 DEF Cancels
    <3>2. /\ Len(waiting') = Len(waiting) - 1 /\ Len(waiting) \in Nat
          /\ \A i \in 1..Len(waiting') : waiting'[i] = IF i < k THEN waiting[i] ELSE waiting[i + 1]
      BY <3>1, Removed DEF Typed, Channels
    <3>3. \A i \in 1..Len(waiting') : i \in 1..Len(waiting) /\ i + 1 \in 1..Len(waiting)
                                      /\ (i < k => i # k) /\ (~(i < k) => i + 1 # k)
      BY <3>2
    <3>. QED
      BY <3>1, <3>2, <3>3 DEF Placed
  <2>. QED
    BY <2>1, CancelSays
<1>. QED
  BY <1>2, <1>3, <1>4 DEF Gone

LEMMA WithdrawnStep ==
    ASSUME Typed, events = {"stop"}, Calm, stop = "idle" => Core, stop = "withdrawing" => Live /\ Withdrawn,
           [Next]_vars, stop' = "withdrawing"
    PROVE  Withdrawn'
<1>1. CASE Stop /\ Core
  <2>1. /\ UNCHANGED <<of, pipe>> /\ stopped' = inflight /\ asked' = Waiting(inflight, steer)
        /\ cancels' = cancels \cup ({"stop"} \X Waiting(inflight, steer)) /\ inflight \in Turns
    BY <1>1 DEF Stop, Typed, Owned
  <2>2. \A s \in asked' : s \in Pushed' /\ of'[s] = stopped' /\ <<"stop", s>> \in cancels'
    BY <2>1 DEF Waiting, Pushed
  <2>3. \A i \in At' : pipe'[i].kind # "cancelled"
    BY <1>1, <2>1 DEF Core, Quiet, At
  <2>4. CancelsLast'
    BY <1>1, CancelsLastStop
  <2>. QED
    BY <2>2, <2>3, <2>4 DEF Withdrawn, CancelsLast
<1>2. CASE stop = "withdrawing" /\ UNCHANGED <<stopped, asked>>
  <2>0. /\ Live /\ Withdrawn /\ Unharmed /\ CancelsLast /\ Placed
        /\ asked \subseteq Pushed /\ \A r \in Requests : ~CancelTimesOut(r)
    BY <1>2 DEF Calm, Withdrawn, CancelsLast, Live, CancelTimesOut
  <2>1. ~Stop /\ ~ReadFails
    <3>1. ~ReadFails
      BY <2>0, PipeMovesUp DEF ReadFails, Unharmed, At, Result
    <3>. QED
      BY <1>2, <3>1 DEF Stop
  <2>2. \A s \in asked' : s \in Pushed' /\ of'[s] = stopped'
    BY <1>2, <2>0, PushedStays DEF Withdrawn
  <2>3. CancelsLast'
    BY <1>2, <2>0, <2>1, CancelsLastStep
  <2>4. \A s \in asked : Gone(s) => Gone(s)'
    BY <2>0, GoneStays
  <2>5. ASSUME NEW i \in At', pipe'[i].kind = "cancelled", NEW s, s = pipe'[i].id[2] PROVE s \in asked /\ Gone(s)'
    <3>1. ASSUME NEW j \in At, pipe'[i] = pipe[j] PROVE s \in asked /\ Gone(s)'
      <4>1. s \in asked /\ Gone(s)
        BY <2>0, <2>5, <3>1 DEF Withdrawn
      <4>. QED
        BY <2>4, <4>1
    <3>2. CASE Cli
      <4>1. ~CliInterrupted /\ "fails" \notin events
        BY <2>0, TakesMessage DEF Unharmed, CliInterrupted
      <4>2. CASE CliCancels /\ pipe'[i].id = stdin[1].id
        BY <2>0, <2>5, <4>2, CancelGone
      <4>. QED
        BY <2>5, <3>1, <3>2, <4>1, <4>2, CliSays DEF Honest, At
    <3>3. ASSUME NEW kind, Reads(kind) PROVE s \in asked /\ Gone(s)'
      <4>1. pipe'[i] = pipe[i + 1] /\ i + 1 \in At
        BY <3>3, PipeMovesUp DEF At
      <4>. QED
        BY <3>1, <4>1
    <3>4. CASE pipe' = pipe
      BY <3>1, <3>4 DEF At
    <3>. QED
      BY <3>2, <3>3, <3>4, PipeBy
  <2>6. ASSUME NEW s \in asked', <<"stop", s>> \notin cancels' PROVE Gone(s)'
    <3>1. CASE <<"stop", s>> \notin cancels
      BY <1>2, <2>0, <2>4, <2>6, <3>1 DEF Withdrawn
    <3>2. CASE <<"stop", s>> \in cancels
      <4>1. <<"stop", s>> = pipe[1].id /\ 1 \in At /\ pipe[1].kind = "cancelled"
        BY <2>0, <2>6, <3>2, StillAsked
      <4>2. pipe[1].id[2] = s
        BY <4>1
      <4>3. Gone(s)
        BY <2>0, <4>1, <4>2 DEF Withdrawn
      <4>. QED
        BY <1>2, <2>4, <4>3
    <3>. QED
      BY <3>1, <3>2
  <2>7. \A i \in At' : pipe'[i].kind = "cancelled" => pipe'[i].id[2] \in asked /\ Gone(pipe[i].id[2])'
    BY <2>5 DEF Gone, InStdin
  <2>. QED
    BY <1>2, <2>2, <2>3, <2>6, <2>7 DEF Withdrawn, CancelsLast
<1>. QED
  BY <1>1, <1>2, StopGoes

\* Once the stop goes on, whom it withdrew is gone, and whoever runs is interrupted.
LEMMA EndedAtOnce ==
    ASSUME Typed, Live, Withdrawn, StopGoesOn
    PROVE  Ended'
<1>0. SessionStep /\ [Next]_vars
  BY DEF SessionStep, Next
<1>1. UNCHANGED <<of, run, asked>> /\ stopped \in Turns
  BY <1>0, SessionWrites DEF StopGoesOn, history, Typed, Calls
<1>. SUFFICES ASSUME NEW s \in asked
              PROVE  s \in Pushed' /\ Gone(s)' /\ (run' = s => \E k \in 1..Len(stdin') : stdin'[k].op = "interrupt")
  BY <1>1 DEF Ended
<1>2. s \in Pushed /\ of[s] = stopped /\ s \in Steers
  BY DEF Withdrawn, Pushed
<1>3. Gone(s)
  BY <1>2 DEF Withdrawn, StopGoesOn
<1>4. Gone(s)' /\ s \in Pushed'
  BY <1>0, <1>2, <1>3, GoneStays, PushedStays
<1>5. ASSUME run = s PROVE \E k \in 1..Len(stdin') : stdin'[k].op = "interrupt"
  <2>1. of[s] = inflight /\ steer[s] \in {"written", "queued", "started"}
    BY <1>2, <1>5 DEF Live, Begun
  <2>2. s \in Waiting(stopped, steer) \cup Started(stopped, steer)
    BY <1>2, <2>1 DEF Waiting, Started
  <2>3. ~Releasable(stopped, steer)
    BY <2>2 DEF Releasable
  <2>4. native[stopped] = "unknown"
    BY <1>1, <1>2, <2>1 DEF Typed, Owned
  <2>5. PICK m : m = Msg("interrupt", None)
    OBVIOUS
  <2>6. stdin' = Append(stdin, m)
    BY <2>3, <2>4, <2>5 DEF StopGoesOn
  <2>7. m \in Written /\ m.op = "interrupt"
    BY <2>5, InterruptWritten DEF Msg
  <2>8. /\ Len(stdin) \in Nat /\ Len(stdin') = Len(stdin) + 1 /\ stdin'[Len(stdin) + 1] = m
    BY <2>6, <2>7, Added DEF Typed, Channels
  <2>9. Len(stdin) + 1 \in 1..Len(stdin')
    BY <2>8
  <2>. QED
    BY <2>7, <2>8, <2>9
<1>. QED
  BY <1>1, <1>4, <1>5

LEMMA EndedStep == ASSUME Typed, Ended, [Next]_vars, asked' = asked PROVE Ended'
<1>. SUFFICES ASSUME NEW s \in asked
              PROVE  s \in Pushed' /\ Gone(s)' /\ (run' = s => \E k \in 1..Len(stdin') : stdin'[k].op = "interrupt")
  BY DEF Ended
<1>1. s \in Pushed /\ Gone(s)
  BY DEF Ended
<1>2. s \in Pushed' /\ Gone(s)' /\ (run' = s => run = s)
  BY <1>1, GoneStays, PushedStays
<1>3. ASSUME run' = s PROVE \E k \in 1..Len(stdin') : stdin'[k].op = "interrupt"
  <2>1. PICK k \in 1..Len(stdin) : stdin[k].op = "interrupt"
    BY <1>2, <1>3 DEF Ended
  <2>2. CASE SessionStep
    BY <2>1, <2>2, SessionWritesLast
  <2>3. ASSUME NEW x \in Steers, Push(x) PROVE \E j \in 1..Len(stdin') : stdin'[j].op = "interrupt"
    <3>1. CASE Pushes(x)
      BY <2>1, <3>1, PushedLast DEF Pushes
    <3>2. CASE UNCHANGED <<steer, of, stdin>>
      BY <2>1, <3>2
    <3>. QED
      BY <2>3, <3>1, <3>2, PushWrites
  <2>4. CASE Cli
    <3>1. CASE stdin' = stdin
      BY <2>1, <3>1
    <3>2. CASE Shifts /\ (CliTakesTurn \/ CliTakesSteer \/ CliCancels \/ CliInterrupted)
      <4>1. k # 1
        <5>1. s # None
          BY <1>1, Distinct DEF Pushed
        <5>2. ~CliInterrupted
          BY <1>3, <5>1 DEF CliInterrupted
        <5>3. stdin[1].op # "interrupt"
          BY <3>2, <5>2, TakesMessage DEF CliTakesTurn, CliTakesSteer, CliCancels
        <5>. QED
          BY <2>1, <5>3
      <4>. QED
        BY <2>1, <3>2, <4>1, StdinLeft
    <3>. QED
      BY <2>4, <3>1, <3>2, CliTakes
  <2>5. CASE UNCHANGED vars
    BY <2>1, <2>5 DEF vars, cli
  <2>. QED
    BY <2>2, <2>3, <2>4, <2>5 DEF Next, SessionStep
<1>. QED
  BY <1>2, <1>3

LEMMA NoStopStep == ASSUME Typed, "stop" \notin events, NoStop, [Next]_vars PROVE NoStop'
<1>1. ~Stop /\ ~StopGoesOn
  BY DEF Stop, StopGoesOn, NoStop
<1>2. stop' = "idle"
  BY <1>1, StopGoes DEF NoStop
<1>3. hit' = {}
  BY Hits DEF NoStop
<1>. QED
  BY <1>1, <1>2, <1>3, OnlyStopInterrupts DEF NoStop

LEMMA EventsStay == ASSUME Typed, [Next]_vars PROVE events' = events
<1>1. CASE Cli
  BY <1>1, CliTakes
<1>2. CASE SessionStep
  BY <1>2, SessionWrites
<1>. QED
  BY <1>1, <1>2, PushWrites DEF Next, SessionStep, vars

LEMMA StoppingStep == ASSUME StopsAlone, Typed, GoodCore, Stopping, [Next]_vars PROVE Stopping'
<1>0. events' = events
  BY EventsStay
<1>1. CASE "stop" \notin events
  BY <1>0, <1>1, NoStopStep DEF Stopping
<1>2. CASE "stop" \in events
  <2>1. events = {"stop"} /\ Calm /\ Aimed /\ (stop = "withdrawing" => Live /\ Withdrawn) /\ (stop = "done" => Ended)
    BY <1>2 DEF StopsAlone, Typed, Calls, Stopping, StopRight
  <2>2. stop = "idle" => Core
    BY <2>1 DEF GoodCore, Good, Calm, Unharmed
  <2>3. Calm' /\ Aimed'
    BY <2>1, <2>2, CalmStep, AimedStep
  <2>4. stop' = "withdrawing" => Live' /\ Withdrawn'
    BY <2>1, <2>2, LiveStep, WithdrawnStep
  <2>5. stop' = "done" => Ended'
    BY <2>1, StopGoes, EndedAtOnce, EndedStep
  <2>. QED
    BY <1>0, <1>2, <2>3, <2>4, <2>5 DEF Stopping, StopRight
<1>. QED
  BY <1>1, <1>2

LEMMA StoppingInit == Init => Stopping
<1>. SUFFICES ASSUME Init PROVE Stopping
  OBVIOUS
<1>1. Len(stdin) = 0 /\ Len(pipe) = 0 /\ hit = {} /\ stop = "idle"
  BY DEF Init
<1>2. /\ \A k \in 1..Len(stdin) : FALSE
      /\ \A i \in 1..Len(pipe) : FALSE
  BY <1>1
<1>3. Calm
  BY <1>1, <1>2 DEF Init, Calm, Unharmed, At
<1>. QED
  BY <1>1, <1>2, <1>3 DEF Stopping, StopRight, NoStop, Aimed

LEMMA StoppingHolds == StopsAlone => (Spec => []Stopping)
<1>1. StopsAlone /\ Typed /\ GoodCore /\ Stopping /\ [Next]_vars => Stopping'
  BY StoppingStep
<1>2. CASE StopsAlone
  <2>1. Typed /\ GoodCore /\ Stopping /\ [Next]_vars => Stopping'
    BY <1>1, <1>2
  <2>. QED
    BY <2>1, StoppingInit, TypedHolds, GoodHolds, PTL DEF Spec
<1>. QED
  BY <1>2

\* A stop ends only the run of the turn it was called for, when nothing is slow and no
\* run fails by itself (interruptNative).
THEOREM StopHitsItsOwn == StopsAlone => (Spec => []StopIsOwn)
<1>1. Stopping => StopIsOwn
  BY DEF Stopping, StopRight, NoStop, Aimed, StopIsOwn
<1>. QED
  BY <1>1, StoppingHolds, PTL

\* Then, too, no steer that a stop found waiting runs, or can run, once the interrupt
\* was read: every withdrawal was answered before the interrupt was written
\* (interruptNative, _withdrawSteers).
THEOREM StopIsForTheWholeTurn == StopsAlone => (Spec => []NothingOutlivesStop)
<1>1. Typed /\ Stopping => NothingOutlivesStop
  <2>. SUFFICES ASSUME Typed, Stopping, stop = "done", Msg("interrupt", None) \notin ToSet(stdin), NEW s \in asked
                PROVE  s # run /\ s \notin ToSet(waiting)
    BY DEF NothingOutlivesStop
  <2>1. Ended
    BY DEF Stopping, StopRight, NoStop
  <2>2. s \notin ToSet(waiting)
    <3>1. waiting \in Seq(Pushed)
      BY DEF Typed, Channels
    <3>. QED
      BY <2>1, <3>1 DEF Ended, Gone, ToSet
  <2>3. ASSUME NEW k \in 1..Len(stdin), stdin[k].op = "interrupt" PROVE FALSE
    <3>1. stdin \in Seq(Written)
      BY DEF Typed, Channels
    <3>2. stdin[k] \in Messages /\ stdin[k].id = None
      BY <2>3, <3>1 DEF Written
    <3>3. stdin[k] = Msg("interrupt", None)
      BY <2>3, <3>2 DEF Messages, Msg
    <3>4. stdin[k] \in ToSet(stdin)
      BY <3>1 DEF ToSet
    <3>. QED
      BY <3>3, <3>4
  <2>. QED
    BY <2>1, <2>2, <2>3 DEF Ended
<1>. QED
  BY <1>1, StoppingHolds, TypedHolds, PTL

=============================================================================
