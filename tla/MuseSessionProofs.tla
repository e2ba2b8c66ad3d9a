-------------------------- MODULE MuseSessionProofs --------------------------
(***************************************************************************)
(* Proofs about MuseSession: types; which send owns the session and where  *)
(* each stands; what a turn's record says is what the host did with it     *)
(* (HonestEvidence); frames and requests are credited to the turn they     *)
(* belong to, however many were held for the answer (CreditedRight); and   *)
(* the session implements TurnOwnership.  For any turns, requests, frames  *)
(* and faults.                                                             *)
(***************************************************************************)
EXTENDS MuseSession, NaturalsInduction, WellFoundedInduction, TLAPS

LocalOutcomes == {"none", "pending", "resolved", "rejected"}
Terminal == {"completed", "failed"}

----------------------------------------------------------------------------
(* Induction over the natural numbers, for a set in place of a predicate    *)

LEMMA LessIsRelated == \A x, y \in Nat : x < y => <<x, y>> \in OpToRel(<, Nat)
BY DEF OpToRel

LEMMA SetInduction ==
    ASSUME NEW S \in SUBSET Nat, 0 \in S, \A n \in S : n + 1 \in S
    PROVE  S = Nat
<1>. SUFFICES ASSUME Nat \ S # {} PROVE FALSE
  OBVIOUS
<1>1. PICK x \in Nat \ S : \A y \in Nat \ S : ~(<<y, x>> \in OpToRel(<, Nat))
  BY WFMin, NatLessThanWellFounded
<1>2. x \in Nat /\ x \notin S /\ \A y \in Nat : y < x => y \in S
  BY <1>1, LessIsRelated
<1>3. x # 0
  BY <1>2
<1>4. x - 1 \in Nat /\ x - 1 < x /\ (x - 1) + 1 = x
  BY <1>2, <1>3
<1>5. x - 1 \in S
  BY <1>2, <1>4
<1>. QED
  BY <1>2, <1>4, <1>5

----------------------------------------------------------------------------
(* The frames that were held, classified one after the other                *)

\* v after the frames of h, classified in their order.
Folded(v, h, cur) == FoldLeft(LAMBDA w, f : Classified(w, f, cur), v, h)

\* g is the function by which MapThenFoldSet is defined, for the first n frames.
Folds(g, v, h, cur, n) ==
    g = [s \in SUBSET (1..n) |-> IF s = {} THEN v ELSE Classified(g[s \ {Max(s)}], h[Max(s)], cur)]

LEMMA MaxIsLast ==
    ASSUME NEW n \in Nat, NEW s \in SUBSET (1..(n + 1)), n + 1 \in s
    PROVE  Max(s) = n + 1
<1>1. \A y \in s : n + 1 >= y
  OBVIOUS
<1>2. \A x \in s : (\A y \in s : x >= y) => x = n + 1
  OBVIOUS
<1>. QED
  BY <1>1, <1>2 DEF Max

LEMMA FoldsExists ==
    ASSUME NEW v, NEW h, NEW cur
    PROVE  \A n \in Nat : \E g : Folds(g, v, h, cur, n)
<1>. DEFINE S == {n \in Nat : \E g : Folds(g, v, h, cur, n)}
<1>1. 0 \in S
  <2>1. Folds([s \in SUBSET (1..0) |-> v], v, h, cur, 0)
    BY DEF Folds
  <2>. QED
    BY <2>1
<1>2. ASSUME NEW n \in S PROVE n + 1 \in S
  <2>1. PICK g : Folds(g, v, h, cur, n)
    BY <1>2
  <2>. DEFINE G == [s \in SUBSET (1..(n + 1)) |->
                      IF n + 1 \in s THEN Classified(g[s \ {n + 1}], h[n + 1], cur) ELSE g[s]]
  <2>2. ASSUME NEW s \in SUBSET (1..(n + 1))
        PROVE  G[s] = IF s = {} THEN v ELSE Classified(G[s \ {Max(s)}], h[Max(s)], cur)
    <3>1. CASE n + 1 \in s
      <4>1. Max(s) = n + 1
        BY <3>1, MaxIsLast
      <4>2. G[s \ {n + 1}] = g[s \ {n + 1}]
        OBVIOUS
      <4>. QED
        BY <3>1, <4>1, <4>2
    <3>2. CASE n + 1 \notin s
      <4>1. s \in SUBSET (1..n) /\ G[s] = g[s]
        BY <3>2
      <4>2. g[s] = IF s = {} THEN v ELSE Classified(g[s \ {Max(s)}], h[Max(s)], cur)
        BY <2>1, <4>1 DEF Folds
      <4>3. s \ {Max(s)} \in SUBSET (1..(n + 1)) /\ n + 1 \notin s \ {Max(s)}
        BY <3>2
      <4>. QED
        BY <4>1, <4>2, <4>3
    <3>. QED
      BY <3>1, <3>2
  <2>3. Folds(G, v, h, cur, n + 1)
    <3>. HIDE DEF G
    <3>1. G = [s \in SUBSET (1..(n + 1)) |-> G[s]]
      BY DEF G
    <3>. QED
      BY <2>2, <3>1 DEF Folds
  <2>. QED
    BY <2>3
<1>. HIDE DEF S
<1>3. S = Nat
  <2>1. S \in SUBSET Nat
    BY DEF S
  <2>. QED
    BY <1>1, <1>2, <2>1, SetInduction
<1>. QED
  BY <1>3 DEF S

\* What holds of v, and is kept by each frame, holds when all are classified.
LEMMA FoldKeeps ==
    ASSUME NEW v, NEW cur, NEW h \in Seq(Frame), NEW I, v \in I,
           \A w \in I : \A k \in 1..Len(h) : Classified(w, h[k], cur) \in I
    PROVE  Folded(v, h, cur) \in I
<1>. DEFINE n == Len(h)
            g == CHOOSE f : Folds(f, v, h, cur, n)
<1>1. n \in Nat /\ DOMAIN h = 1..n
  OBVIOUS
<1>2. Folds(g, v, h, cur, n)
  BY <1>1, FoldsExists
<1>3. Folded(v, h, cur) = g[1..n]
  BY <1>1 DEF Folded, FoldLeft, MapThenFoldSet, Folds
<1>. HIDE DEF g, n
<1>. DEFINE S == {k \in Nat : k <= n => g[1..k] \in I}
<1>4. 0 \in S
  <2>1. 1..0 = {}
    OBVIOUS
  <2>2. {} \in SUBSET (1..n)
    OBVIOUS
  <2>. QED
    BY <1>2, <2>1, <2>2 DEF Folds
<1>5. ASSUME NEW k \in S PROVE k + 1 \in S
  <2>. SUFFICES ASSUME k + 1 <= n PROVE g[1..(k + 1)] \in I
    OBVIOUS
  <2>1. g[1..k] \in I /\ k \in Nat
    <3>1. k \in Nat /\ (k <= n => g[1..k] \in I)
      BY <1>5
    <3>2. k <= n
      BY <1>1, <3>1
    <3>. QED
      BY <3>1, <3>2
  <2>2. 1..(k + 1) \in SUBSET (1..n) /\ 1..(k + 1) # {} /\ k + 1 \in 1..(k + 1)
    <3>1. k + 1 \in 1..(k + 1)
      BY <2>1
    <3>2. \A i \in 1..(k + 1) : i \in 1..n
      BY <1>1, <2>1
    <3>. QED
      BY <3>1, <3>2
  <2>3. Max(1..(k + 1)) = k + 1
    BY <2>1, <2>2, MaxIsLast
  <2>4. (1..(k + 1)) \ {k + 1} = 1..k
    BY <2>1
  <2>5. g[1..(k + 1)] = Classified(g[1..k], h[k + 1], cur)
    BY <1>2, <2>2, <2>3, <2>4 DEF Folds
  <2>6. k + 1 \in 1..Len(h)
    BY <1>1, <2>1 DEF n
  <2>. QED
    BY <2>1, <2>5, <2>6
<1>. HIDE DEF S
<1>6. S = Nat
  <2>1. S \in SUBSET Nat
    BY DEF S
  <2>. QED
    BY <1>4, <1>5, <2>1, SetInduction
<1>. QED
  BY <1>1, <1>3, <1>6 DEF S

----------------------------------------------------------------------------
(* The actions, by what they touch                                          *)

\* The host and the connection to it; no send, frame or request.
Outside ==
    \/ Start \/ Connected \/ ConnectFails \/ LinkCloses \/ HostExits \/ RuntimeTakes
    \/ \E i \in Ids : RuntimeStarts(i) \/ \E how \in Terminal : RuntimeEnds(i, how)

\* Only the calls beside the turns: push(), interruptNative(), approvals, questions.
Steers == Push \/ SteerAnswered \/ SteerTimesOut
Stops == InterruptNative \/ StopAnswered \/ StopTimesOut \/ StopReturns
Requests ==
    \/ \E r \in Asks : RuntimeAsks(r) \/ AskEnds(r)
    \/ \E q \in Quizzes : Question(q) \/ QuestionEnds(q)
Asides == Steers \/ Stops \/ Requests

Frames(i) == ReadFrame(i) \/ ReadTerminal(i) \/ ReadAfter(i)

\* Callers are told, and what waits for an answer goes on without it.
Dismissals == Interrupt \/ TimerFires \/ HostDied

\* send() before it admits the turn; _open.
Enters(t) == SendRefused(t) \/ SendStarts(t) \/ SendEnters(t) \/ SendStarted(t)
Prepares(t) == OpenAnswered(t) \/ OpenFails(t) \/ BindingPersisted(t) \/ BindingFails(t)
Registers(t) == RegistrationDone(t) \/ RegistrationFails(t)
Answers(t) == TurnAccepted(t) \/ TurnRefused(t) \/ AnswerLost(t)
Finishes(t) == TurnResolves(t) \/ TurnEnds(t) \/ TurnFails(t)

LEMMA NextCases ==
    ASSUME Next
    PROVE  \/ Outside \/ Asides \/ Dismissals \/ Kill
           \/ \E i \in Ids : Frames(i)
           \/ \E t \in Turns : \/ Enters(t) \/ Prepares(t) \/ SendAdmits(t) \/ Registers(t)
                               \/ StartTurn(t) \/ Answers(t) \/ Finishes(t)
BY DEF Next, Handlers, Callers, Runtime, Outside, Steers, Stops, Requests, Asides, Frames, Dismissals,
       Enters, Prepares, Registers, Answers, Finishes, Terminal

----------------------------------------------------------------------------
(* The inductive invariant                                                  *)

Fresh    == {"idle", "connecting", "hooks"}
Early    == Fresh \cup {"queued", "registering"}
Prepared == Opening \cup {"persisting", "ready", "refused"}
Sending  == Prepared \cup {"asked", "racing", "failed"}

\* _sendTurn, or the onAdmission it awaits, runs only for the turn in flight.
PhaseOwned == \A t \in Turns : phase[t] \in Sending \cup {"registering"} => inflight = t

\* Work whose outcome is unknown is that of the turn in flight, and so is the timer.
OwnerHolds == \A t \in Turns : Unresolved(t) /\ rpc[t] # "failed" => inflight = t
TimerOwned == timer # NoTurn => timer = inflight /\ phase[timer] # "registering"

\* What is queued waits, is waited for, and is queued once.
QueueWaits ==
    /\ \A k \in 1..Len(queue) : phase[queue[k]] = "queued" /\ local[queue[k]] = "pending"
    /\ \A j, k \in 1..Len(queue) : queue[j] = queue[k] => j = k

\* What the place where a send stands says of its evidence.
Knows(t) ==
    /\ phase[t] \in Fresh => local[t] = "none"
    /\ phase[t] \in Early => disp[t] = "not-dispatched"
    /\ phase[t] \in Sending => disp[t] = "attempted"
    /\ phase[t] \in Early \cup Prepared => rpc[t] = "none"
    /\ phase[t] = "asked" => rpc[t] \in {"pending", "unknown"}
    /\ rpc[t] = "pending" => phase[t] = "asked"
    /\ phase[t] = "racing" => rpc[t] = "resolved"
    /\ phase[t] = "failed" => rpc[t] # "none"
    /\ local[t] = "resolved" => phase[t] = "end" /\ native[t] # "unknown" /\ rpc[t] = "resolved"
PhaseKnows == \A t \in Turns : Knows(t)

\* What the answer to turn/start says of the host: a turn is named by it alone, and
\* its outcome is the host's.
Answered(t) ==
    /\ rpc[t] # "none" => disp[t] = "attempted"
    /\ rpc[t] \in {"none", "failed"} => runs[t] = "none"
    /\ turnId[t] = IF rpc[t] = "resolved" THEN t ELSE NoTurn
    /\ rpc[t] = "resolved" => runs[t] \notin {"none", "asked"}
    /\ native[t] # "unknown" => rpc[t] = "resolved" /\ runs[t] = native[t] /\ t \in view.seen
AnswersKnown == \A t \in Turns : Answered(t)

Core == PhaseOwned /\ OwnerHolds /\ TimerOwned /\ QueueWaits /\ PhaseKnows /\ AnswersKnown

\* A turn was asked for with a host there; frames are read in order.
HostKnown ==
    /\ open.host \/ open.alive => server # "none"
    /\ \A t \in Turns : rpc[t] # "none" => server # "none"
\* While its answer is awaited, only kill() makes it unknown.
LossKnown ==
    \A t \in Turns : phase[t] = "asked" => /\ local[t] # "none"
                                           /\ rpc[t] = "unknown" => ~open.host /\ local[t] = "rejected"
ToldKnows ==
    \A i \in Ids : /\ told[i] >= 1 => runs[i] \notin {"none", "asked"}
                   /\ told[i] >= 2 => runs[i] \in Terminal

\* What is held is the in-flight turn's or a turn Muse runs itself.
HeldRight ==
    /\ held # <<>> => inflight # NoTurn /\ rpc[inflight] = "pending"
    /\ \A k \in 1..Len(held) :
         /\ held[k].of \in {inflight, Own} /\ runs[held[k].of] \notin {"none", "asked"}
         /\ held[k].last => runs[held[k].of] \in Terminal

\* A turn Muse runs itself is not taken for a send's, nor a send's for one of Muse but when
\* it was given up before a frame of it was held.
Sorted(v) ==
    /\ "own" \notin v.credit[Own] /\ (Own \in v.muse => Own \notin v.seen)
    /\ \A t \in Turns : ~GivenUp(t) => "muse" \notin v.credit[t] /\ t \notin v.muse
    /\ \A t \in Turns : t \in v.unknown => "muse" \notin v.credit[t]

\* A request that waits or is decided has its turn, and is given to no other.
RequestsRight ==
    /\ \A r \in Asks : /\ ask[r].st \in {"waiting", "deciding"} => ask[r].of # NoTurn
                       /\ ask[r].to # NoTurn => ask[r].to = ask[r].of
    /\ \A q \in Quizzes :
         /\ quiz[q].st \in {"waiting", "deciding"} => quiz[q].of # NoTurn
         /\ quiz[q].to # NoTurn => quiz[q].to = quiz[q].of
         /\ quiz[q].put <= 1 /\ (quiz[q].st \in {"none", "waiting"} => quiz[q].put = 0 /\ quiz[q].to = NoTurn)

\* A steer is called what became of it; a stop is acknowledged for an ended turn.
CallsHonest ==
    /\ taken => steer.st \in {"asked", "unknown", "steered"}
    /\ steer.st = "steered" => taken
    /\ stop.st \in {"asked", "polling", "acknowledged"} => stop.of \in Turns
    /\ stop.st = "acknowledged" => native[stop.of] # "unknown"

Inductive ==
    /\ TypeOK /\ Core /\ HostKnown /\ LossKnown /\ ToldKnows /\ HeldRight /\ Sorted(view)
    /\ RequestsRight /\ CallsHonest

----------------------------------------------------------------------------
(* What is recorded of frames                                               *)

\* What v may become when frames are classified with `cur` as the name of the turn
\* in flight.
Recordings(v, cur) ==
    {w \in View :
        /\ w.unknown = v.unknown /\ v.seen \subseteq w.seen
        /\ \A t \in Turns : \/ w.native[t] = v.native[t]
                            \/ /\ t = cur /\ t \notin v.seen /\ t \in w.seen
                               /\ runs[t] \in Terminal /\ w.native[t] = runs[t]
        /\ Sorted(w)}

\* The frame is of the turn in flight, of one that ended or may be ours, of one that was given
\* up, or of none of ours.
Fits(v, f, cur) ==
    /\ f.of \in Turns => f.of = cur \/ f.of \in v.seen \cup v.unknown \/ GivenUp(f.of)
    /\ f.last => runs[f.of] \in Terminal

LEMMA FrameOfNone ==
    ASSUME NEW v, NEW f, NEW cur, f.of \in v.seen \cup v.unknown
    PROVE  Classified(v, f, cur) = v
BY DEF Classified

LEMMA FrameOfOurs ==
    ASSUME NEW v \in View, NEW cur \in Turns, NEW f, f.of = cur, f.of \notin v.seen \cup v.unknown,
           f.last => runs[cur] \in Terminal, NEW w, w = Classified(v, f, cur)
    PROVE  /\ w \in View /\ w.muse = v.muse /\ w.unknown = v.unknown
           /\ \A i \in Ids : w.credit[i] = v.credit[i] \/ (i = cur /\ w.credit[i] = v.credit[i] \cup {"own"})
           /\ \A t \in Turns : w.native[t] = IF f.last /\ t = cur THEN runs[t] ELSE v.native[t]
           /\ w.seen = IF f.last THEN v.seen \cup {cur} ELSE v.seen
<1>. cur \in Ids
  BY DEF Ids
<1>1. CASE f.last
  <2>1. w = [v EXCEPT !.native[cur] = runs[cur], !.seen = @ \cup {cur}, !.credit[cur] = @ \cup {"own"}]
    BY <1>1 DEF Classified
  <2>2. runs[cur] \in Terminal
    BY <1>1
  <2>3. w.native \in [Turns -> {"unknown", "completed", "failed"}]
    BY <2>1, <2>2 DEF View, Terminal
  <2>4. w.credit \in [Ids -> SUBSET {"own", "muse"}]
    BY <2>1 DEF View
  <2>5. w.muse = v.muse /\ w.unknown = v.unknown /\ w.seen = v.seen \cup {cur}
    BY <2>1 DEF View
  <2>6. w = [native |-> w.native, seen |-> w.seen, muse |-> w.muse, unknown |-> w.unknown, credit |-> w.credit]
    BY <2>1 DEF View
  <2>7. \A i \in Ids : w.credit[i] = v.credit[i] \/ (i = cur /\ w.credit[i] = v.credit[i] \cup {"own"})
    BY <2>1 DEF View
  <2>8. \A t \in Turns : w.native[t] = IF t = cur THEN runs[t] ELSE v.native[t]
    BY <2>1 DEF View
  <2>9. w \in View
    BY <2>3, <2>4, <2>5, <2>6 DEF View
  <2>. QED
    BY <1>1, <2>5, <2>7, <2>8, <2>9
<1>2. CASE ~f.last
  <2>1. w = [v EXCEPT !.credit[cur] = @ \cup {"own"}]
    BY <1>2 DEF Classified
  <2>. QED
    BY <1>2, <2>1 DEF View
<1>. QED
  BY <1>1, <1>2

\* w is v after a frame of a turn that Muse runs itself.
ShowsMuse(v, w, f) ==
    /\ w \in View /\ w.native = v.native /\ w.unknown = v.unknown
    /\ \A i \in Ids : w.credit[i] = v.credit[i] \/ (i = f.of /\ w.credit[i] = v.credit[i] \cup {"muse"})
    /\ w.muse = IF f.last THEN v.muse \ {f.of} ELSE v.muse \cup {f.of}
    /\ w.seen = IF f.last THEN v.seen \cup {f.of} ELSE v.seen

LEMMA FrameOfMuse ==
    ASSUME NEW v \in View, NEW cur \in Turns \cup {NoTurn}, NEW f \in Frame,
           f.of \notin v.seen \cup v.unknown, f.of # cur,
           NEW w, w = Classified(v, f, cur)
    PROVE  ShowsMuse(v, w, f)
<1>. f.of \in Ids
  BY DEF Frame
<1>1. w = [v EXCEPT !.muse = IF f.last THEN @ \ {f.of} ELSE @ \cup {f.of},
                    !.seen = IF f.last THEN @ \cup {f.of} ELSE @,
                    !.credit[f.of] = @ \cup {"muse"}]
  BY DEF Classified
<1>2. w.muse = IF f.last THEN v.muse \ {f.of} ELSE v.muse \cup {f.of}
  BY <1>1 DEF View
<1>3. w.seen = IF f.last THEN v.seen \cup {f.of} ELSE v.seen
  BY <1>1 DEF View
<1>4. w.credit \in [Ids -> SUBSET {"own", "muse"}] /\ w.native = v.native /\ w.unknown = v.unknown
  BY <1>1 DEF View
<1>5. w = [native |-> w.native, seen |-> w.seen, muse |-> w.muse, unknown |-> w.unknown, credit |-> w.credit]
  BY <1>1 DEF View
<1>6. \A i \in Ids : w.credit[i] = v.credit[i] \/ (i = f.of /\ w.credit[i] = v.credit[i] \cup {"muse"})
  BY <1>1 DEF View
<1>7. w \in View
  BY <1>2, <1>3, <1>4, <1>5 DEF View
<1>. QED
  BY <1>2, <1>3, <1>4, <1>6, <1>7 DEF ShowsMuse

LEMMA ClassifiedStays ==
    ASSUME NEW v \in View, NEW cur \in Turns \cup {NoTurn}, NEW w \in Recordings(v, cur),
           NEW f \in Frame, Fits(v, f, cur)
    PROVE  Classified(w, f, cur) \in Recordings(v, cur)
<1>. PICK x : x = Classified(w, f, cur)
  OBVIOUS
<1>1. w \in View /\ f.of \in Ids /\ v.seen \subseteq w.seen /\ w.unknown = v.unknown /\ Sorted(w)
  BY DEF Recordings, Frame
<1>2. CASE f.of \in w.seen \cup w.unknown
  BY <1>2, FrameOfNone
<1>3. CASE f.of \notin w.seen \cup w.unknown /\ f.of = cur
  <2>1. cur \in Turns /\ cur # Own /\ cur \notin w.seen /\ (f.last => runs[cur] \in Terminal)
    BY <1>1, <1>3, MuseAssumption DEF Fits, Ids
  <2>2. /\ x \in View /\ x.muse = w.muse /\ x.unknown = w.unknown
        /\ \A i \in Ids : x.credit[i] = w.credit[i] \/ (i = cur /\ x.credit[i] = w.credit[i] \cup {"own"})
        /\ \A t \in Turns : x.native[t] = IF f.last /\ t = cur THEN runs[t] ELSE w.native[t]
        /\ x.seen = IF f.last THEN w.seen \cup {cur} ELSE w.seen
    BY <1>1, <1>3, <2>1, FrameOfOurs
  <2>3. Sorted(x)
    BY <1>1, <2>1, <2>2 DEF Sorted, Ids
  <2>4. \A t \in Turns : \/ x.native[t] = w.native[t]
                         \/ t = cur /\ t \in x.seen /\ runs[t] \in Terminal /\ x.native[t] = runs[t]
    BY <2>1, <2>2
  <2>. QED
    BY <1>1, <2>1, <2>2, <2>3, <2>4 DEF Recordings
<1>4. CASE f.of \notin w.seen \cup w.unknown /\ f.of # cur
  <2>1. /\ f.of = Own \/ (f.of \in Turns /\ GivenUp(f.of))
        /\ Own \notin Turns /\ f.of \notin w.seen /\ f.of \notin w.unknown
    BY <1>1, <1>4, MuseAssumption DEF Fits, Ids
  <2>2. ShowsMuse(w, x, f)
    BY <1>1, <1>4, FrameOfMuse
  <2>3. Sorted(x)
    BY <1>1, <2>1, <2>2 DEF Sorted, Ids, ShowsMuse
  <2>. QED
    BY <1>1, <2>2, <2>3 DEF Recordings, ShowsMuse
<1>. QED
  BY <1>2, <1>3, <1>4

LEMMA RecordsItself ==
    ASSUME NEW v \in View, NEW cur, Sorted(v)
    PROVE  v \in Recordings(v, cur)
BY DEF Recordings

LEMMA FoldRecords ==
    ASSUME NEW v \in View, Sorted(v), NEW cur \in Turns \cup {NoTurn},
           NEW h \in Seq(Frame), \A k \in 1..Len(h) : Fits(v, h[k], cur)
    PROVE  Folded(v, h, cur) \in Recordings(v, cur)
<1>. \A k \in 1..Len(h) : h[k] \in Frame
  OBVIOUS
<1>. QED
  BY RecordsItself, ClassifiedStays, FoldKeeps


----------------------------------------------------------------------------
(* What the helpers do                                                      *)

\* Callers who wait are told of a failure, the queue is kept or emptied.
Settles ==
    /\ local' \in [Turns -> LocalOutcomes]
    /\ \A t \in Turns : local'[t] = local[t] \/ (local[t] = "pending" /\ local'[t] = "rejected")
    /\ queue' \in Seq(Turns) /\ (queue' = <<>> \/ (queue' = queue /\ local' = local))
    /\ timer' = IF inflight = NoTurn THEN timer ELSE NoTurn

LEMMA ToldSettles ==
    ASSUME AttemptTyped, NEW ts
    PROVE  /\ Told(ts) \in [Turns -> LocalOutcomes]
           /\ \A t \in Turns : Told(ts)[t] = local[t] \/ (local[t] = "pending" /\ Told(ts)[t] = "rejected")
BY DEF AttemptTyped, Told, LocalOutcomes

LEMMA EmptyQueue == <<>> \in Seq(Turns)
OBVIOUS

LEMMA RejectAllSettles ==
    ASSUME AttemptTyped, SessionTyped, RejectAll
    PROVE  Settles
BY ToldSettles, EmptyQueue DEF SessionTyped, RejectAll, Settles

LEMMA RejectInflightSettles ==
    ASSUME AttemptTyped, SessionTyped, RejectInflight
    PROVE  Settles
<1>1. CASE inflight = NoTurn
  BY <1>1 DEF AttemptTyped, SessionTyped, RejectInflight, Settles, LocalOutcomes
<1>2. CASE inflight # NoTurn
  BY <1>2, ToldSettles, EmptyQueue DEF RejectInflight, Settles
<1>. QED
  BY <1>1, <1>2

LEMMA QueueHead ==
    ASSUME SessionTyped, queue # <<>>
    PROVE  /\ Head(queue) \in Turns /\ Tail(queue) \in Seq(Turns) /\ Head(queue) = queue[1]
           /\ 1 \in 1..Len(queue)
BY DEF SessionTyped

Opens == {"ready", "resuming", "forking", "starting"}

LEMMA OpenPhases == OpenPhase \in Opens
BY DEF OpenPhase, Opens

\* phase[t] goes to p, and nothing else of phase changes.
Goes(t, p) ==
    /\ phase' \in [Turns -> Phases] /\ phase'[t] = p
    /\ \A u \in Turns : u # t => phase'[u] = phase[u]

LEMMA GoesTo ==
    ASSUME AttemptTyped, NEW t \in Turns, NEW p \in Phases, phase' = [phase EXCEPT ![t] = p]
    PROVE  Goes(t, p)
BY DEF AttemptTyped, Goes

LEMMA DispatchTurnEffect ==
    ASSUME AttemptTyped, NEW t \in Turns, DispatchTurn(t, NoTurn)
    PROVE  /\ inflight' = t
           /\ disp' \in [Turns -> {"not-dispatched", "attempted"}]
           /\ \A u \in Turns : u # t => disp'[u] = disp[u]
           /\ \/ DispatchPhase(t) = "registering" /\ disp'[t] = disp[t] /\ timer' = NoTurn
              \/ DispatchPhase(t) \in Opens /\ disp'[t] = "attempted" /\ timer' \in {NoTurn, t}
BY OpenPhases DEF AttemptTyped, DispatchTurn, WriteTurn, DispatchPhase

\* A turn is dispatched: it waits for its registration, or it was written.
Dispatches(t) ==
    /\ inflight' = t
    /\ disp' \in [Turns -> {"not-dispatched", "attempted"}]
    /\ \A u \in Turns : u # t => disp'[u] = disp[u]
    /\ \/ phase'[t] = "registering" /\ disp'[t] = disp[t] /\ timer' = NoTurn
       \/ phase'[t] \in Opens /\ disp'[t] = "attempted" /\ timer' \in {NoTurn, t}

\* The turn that leaves ends; the next is taken from the queue, or none is.
Leaves(t) ==
    /\ phase' \in [Turns -> Phases] /\ queue' \in Seq(Turns)
    /\ \/ /\ queue # <<>> /\ queue' = Tail(queue) /\ open.alive
          /\ Head(queue) # t => phase'[t] = "end"
          /\ Dispatches(Head(queue))
          /\ \A u \in Turns : u \notin {t, Head(queue)} => phase'[u] = phase[u]
       \/ /\ inflight' = NoTurn /\ queue' = queue /\ disp' = disp /\ timer' = NoTurn
          /\ Goes(t, "end")

LEMMA ProcessNextTurnLeaves ==
    ASSUME AttemptTyped, SessionTyped, NEW t \in Turns, ProcessNextTurn(t, NoTurn)
    PROVE  Leaves(t)
<1>1. CASE queue # <<>> /\ open.alive
  <2>. PICK h \in Turns : h = Head(queue)
    BY <1>1, QueueHead
  <2>1. /\ DispatchTurn(h, NoTurn) /\ queue' = Tail(queue) /\ queue' \in Seq(Turns)
        /\ phase' = [phase EXCEPT ![t] = "end", ![h] = DispatchPhase(h)]
    BY <1>1, QueueHead DEF ProcessNextTurn
  <2>2. /\ inflight' = h
        /\ disp' \in [Turns -> {"not-dispatched", "attempted"}]
        /\ \A u \in Turns : u # h => disp'[u] = disp[u]
        /\ \/ DispatchPhase(h) = "registering" /\ disp'[h] = disp[h] /\ timer' = NoTurn
           \/ DispatchPhase(h) \in Opens /\ disp'[h] = "attempted" /\ timer' \in {NoTurn, h}
    BY <2>1, DispatchTurnEffect
  <2>3. /\ phase' \in [Turns -> Phases] /\ phase'[h] = DispatchPhase(h)
        /\ \A u \in Turns : u \notin {t, h} => phase'[u] = phase[u]
        /\ h # t => phase'[t] = "end"
    BY <2>1, <2>2 DEF AttemptTyped, Phases, Opening, Opens
  <2>4. Dispatches(h)
    BY <2>2, <2>3 DEF Dispatches
  <2>. QED
    BY <1>1, <2>1, <2>3, <2>4 DEF Leaves
<1>2. CASE ~(queue # <<>> /\ open.alive)
  <2>1. /\ inflight' = NoTurn /\ queue' = queue /\ disp' = disp /\ timer' = NoTurn
        /\ phase' = [phase EXCEPT ![t] = "end"]
    BY <1>2 DEF ProcessNextTurn
  <2>2. Goes(t, "end")
    BY <2>1, GoesTo DEF Phases
  <2>. QED
    BY <2>1, <2>2 DEF Leaves, Goes, SessionTyped
<1>. QED
  BY <1>1, <1>2

----------------------------------------------------------------------------
(* What each action records of the frames                                   *)

\* Outcomes are recorded once, for a turn that was named, and are the host's.
ViewMoves ==
    /\ view' \in View /\ Sorted(view') /\ view.seen \subseteq view'.seen
    /\ \A t \in Turns : \/ view'.native[t] = view.native[t]
                        \/ /\ view.native[t] = "unknown" /\ t \in view'.seen
                           /\ runs[t] \in Terminal /\ view'.native[t] = runs[t]
                           /\ rpc'[t] = "resolved" /\ disp[t] = "attempted"

LEMMA ViewStays ==
    ASSUME Inductive, view' = view
    PROVE  ViewMoves
BY DEF Inductive, TypeOK, RecordTyped, ViewMoves

\* v is what the frames were classified from, `cur` the name the turn in flight has by now.
LEMMA RecordingsMove ==
    ASSUME Inductive, NEW v \in View, v.native = view.native, v.seen = view.seen, NEW cur,
           view' \in Recordings(v, cur),
           cur \in Turns => rpc'[cur] = "resolved" /\ disp[cur] = "attempted"
    PROVE  ViewMoves
<1>1. ASSUME NEW t \in Turns
      PROVE  \/ view'.native[t] = view.native[t]
             \/ /\ view.native[t] = "unknown" /\ t \in view'.seen
                /\ runs[t] \in Terminal /\ view'.native[t] = runs[t]
                /\ rpc'[t] = "resolved" /\ disp[t] = "attempted"
  <2>1. \/ view'.native[t] = view.native[t]
        \/ /\ t = cur /\ t \notin view.seen /\ t \in view'.seen
           /\ runs[t] \in Terminal /\ view'.native[t] = runs[t]
    BY DEF Recordings
  <2>2. t \notin view.seen => view.native[t] = "unknown"
    BY DEF Inductive, Core, AnswersKnown, Answered, native
  <2>. QED
    BY <2>1, <2>2
<1>. QED
  BY <1>1 DEF Recordings, ViewMoves

LEMMA FlushRecords ==
    ASSUME Inductive, NEW cur \in Turns \cup {NoTurn}, NEW r,
           cur \in Turns => rpc'[cur] = "resolved" /\ disp[cur] = "attempted",
           \A k \in 1..Len(held) :
               held[k].of \in Turns => held[k].of = cur \/ held[k].of \in MaybeOurs(cur, r),
           view' = Flushed(cur, r)
    PROVE  ViewMoves
<1>. DEFINE v == [view EXCEPT !.unknown = @ \cup MaybeOurs(cur, r)]
<1>. /\ view \in View /\ held \in Seq(Frame) /\ Sorted(view) /\ HeldRight
  BY DEF Inductive, TypeOK, RecordTyped
<1>1. MaybeOurs(cur, r) \in SUBSET Ids
  <2>1. \A k \in DOMAIN held : held[k] \in Frame
    OBVIOUS
  <2>2. \A k \in DOMAIN held : held[k].of \in Ids
    BY <2>1 DEF Frame
  <2>. QED
    BY <2>2 DEF MaybeOurs
<1>2. /\ v \in View /\ v.native = view.native /\ v.seen = view.seen /\ v.muse = view.muse
      /\ v.credit = view.credit /\ v.unknown = view.unknown \cup MaybeOurs(cur, r)
  BY <1>1 DEF View
<1>3. view' = Folded(v, held, cur)
  BY DEF Flushed, Folded, FoldLeft, MapThenFoldSet
<1>. HIDE DEF v
<1>4. Sorted(v)
  <2>1. ASSUME NEW t \in Turns, t \in MaybeOurs(cur, r) PROVE "muse" \notin view.credit[t]
    <3>1. PICK k \in DOMAIN held : held[k].of = t
      BY <2>1 DEF MaybeOurs
    <3>2. t = inflight /\ rpc[inflight] = "pending"
      BY <3>1, MuseAssumption DEF HeldRight
    <3>. QED
      BY <3>2 DEF Sorted, GivenUp
  <2>. QED
    BY <1>2, <2>1 DEF Sorted
<1>5. \A k \in 1..Len(held) : Fits(v, held[k], cur)
  BY <1>2 DEF Fits, HeldRight
<1>6. view' \in Recordings(v, cur)
  BY <1>2, <1>3, <1>4, <1>5, FoldRecords
<1>. QED
  BY <1>2, <1>6, RecordingsMove

\* What the turn in flight is called.
LEMMA NameOfInflight ==
    ASSUME Inductive
    PROVE  /\ Named \in {inflight, NoTurn} /\ Named \in Turns \cup {NoTurn}
           /\ Named # NoTurn => /\ inflight \in Turns /\ rpc[inflight] = "resolved"
                                /\ disp[inflight] = "attempted"
           /\ inflight # NoTurn /\ rpc[inflight] = "resolved" => Named = inflight
BY DEF Inductive, TypeOK, SessionTyped, Core, AnswersKnown, Answered, Named

\* A turn whose frames can be read is in flight, or its end was seen, or its answer lost.
LEMMA ReadableTurn ==
    ASSUME Inductive, NEW t \in Turns, runs[t] \notin {"none", "asked"}
    PROVE  \/ t = inflight /\ rpc[t] \in {"pending", "resolved"} /\ disp[t] = "attempted"
           \/ t \in view.seen
           \/ rpc[t] = "unknown" /\ disp[t] = "attempted"
<1>. AttemptTyped /\ Answered(t) /\ Knows(t) /\ PhaseOwned /\ OwnerHolds
  BY DEF Inductive, TypeOK, Core, AnswersKnown, PhaseKnows
<1>1. rpc[t] \in {"pending", "resolved", "unknown"} /\ disp[t] = "attempted"
  BY DEF AttemptTyped, Answered
<1>2. CASE rpc[t] = "pending"
  BY <1>1, <1>2 DEF Knows, PhaseOwned, Sending
<1>3. CASE rpc[t] = "resolved"
  BY <1>1, <1>3 DEF OwnerHolds, Unresolved, Answered
<1>. QED
  BY <1>1, <1>2, <1>3

\* Which frames are read.
LEMMA FrameObserved ==
    ASSUME Inductive, NEW i \in Ids, Frames(i)
    PROVE  /\ runs[i] \notin {"none", "asked"}
           /\ \/ Observe(i, FALSE)
              \/ Observe(i, TRUE) /\ runs[i] \in Terminal
<1>1. told[i] >= 2 => runs[i] \in Terminal
  BY DEF Inductive, ToldKnows
<1>2. CASE ReadFrame(i)
  BY <1>2 DEF ReadFrame
<1>3. CASE ReadTerminal(i)
  <2>1. runs[i] \in Terminal /\ runs[i] \notin {"none", "asked"}
    BY <1>3 DEF ReadTerminal, Terminal
  <2>. QED
    BY <1>3, <2>1, Zenon DEF ReadTerminal
<1>4. CASE ReadAfter(i)
  <2>1. told[i] = 2
    BY <1>4 DEF ReadAfter
  <2>2. runs[i] \in {"completed", "failed"}
    BY <1>1, <2>1 DEF Terminal
  <2>3. runs[i] \notin {"none", "asked"}
    BY <2>2
  <2>. QED
    BY <1>4, <2>3, Zenon DEF ReadAfter
<1>. QED
  BY <1>2, <1>3, <1>4 DEF Frames

LEMMA FramesView ==
    ASSUME Inductive, NEW i \in Ids, Frames(i)
    PROVE  ViewMoves
<1>. /\ view \in View /\ Sorted(view)
  BY DEF Inductive, TypeOK, RecordTyped
<1>1. /\ runs[i] \notin {"none", "asked"}
      /\ \/ Observe(i, FALSE)
         \/ Observe(i, TRUE) /\ runs[i] \in Terminal
  BY FrameObserved
<1>2. CASE Hold(i)
  BY <1>1, <1>2, ViewStays DEF Observe
<1>3. CASE ~Hold(i)
  <2>1. PICK f \in Frame : /\ f.of = i /\ view' = Classified(view, f, Named)
                           /\ f.last => runs[i] \in Terminal
    <3>1. [of |-> i, last |-> TRUE] \in Frame /\ [of |-> i, last |-> FALSE] \in Frame
      BY DEF Frame
    <3>. QED
      BY <1>1, <1>3, <3>1 DEF Observe
  <2>3. i \in Turns => i = Named \/ i \in view.seen \/ GivenUp(i)
    <3>. SUFFICES ASSUME i \in Turns, i \notin view.seen, ~GivenUp(i) PROVE i = Named
      OBVIOUS
    <3>1. i = inflight /\ i # NoTurn /\ rpc[i] \in {"pending", "resolved"} /\ disp[i] = "attempted"
      BY <1>1, ReadableTurn, MuseAssumption DEF GivenUp
    <3>2. rpc[i] = "pending" => turnId[i] = NoTurn /\ i \notin view.muse
      BY DEF Inductive, Core, AnswersKnown, Answered, Sorted
    <3>. QED
      BY <1>3, <3>1, <3>2, NameOfInflight DEF Hold
  <2>4. Fits(view, f, Named)
    BY <1>1, <2>1, <2>3 DEF Fits
  <2>5. view' \in Recordings(view, Named)
    BY <2>1, <2>4, RecordsItself, ClassifiedStays, NameOfInflight
  <2>6. Named \in Turns => rpc'[Named] = "resolved" /\ disp[Named] = "attempted"
    <3>1. rpc' = rpc
      BY DEF Frames, ReadFrame, ReadTerminal, ReadAfter, attempt
    <3>. QED
      BY <3>1, NameOfInflight, MuseAssumption
  <2>. QED
    BY <2>5, <2>6, RecordingsMove
<1>. QED
  BY <1>2, <1>3

LEMMA KillView ==
    ASSUME Inductive, Kill
    PROVE  ViewMoves
<1>. DEFINE r == IF inflight = NoTurn THEN "none" ELSE rpc'[inflight]
<1>. /\ AttemptTyped /\ SessionTyped /\ HeldRight /\ Sorted(view) /\ AnswersKnown
  BY DEF Inductive, TypeOK, Core
<1>1. view' = Flushed(Named, r)
  BY DEF Kill
<1>2. rpc' = IF inflight # NoTurn /\ rpc[inflight] = "pending" THEN [rpc EXCEPT ![inflight] = "unknown"] ELSE rpc
  BY DEF Kill
<1>3. Named \in Turns => rpc'[Named] = "resolved" /\ disp[Named] = "attempted"
  BY <1>2, NameOfInflight, MuseAssumption
<1>4. ASSUME NEW k \in 1..Len(held), held[k].of \in Turns
      PROVE  held[k].of \in MaybeOurs(Named, r)
  <2>1. inflight \in Turns /\ rpc[inflight] = "pending" /\ held[k].of \notin view.muse
    BY <1>4, MuseAssumption DEF HeldRight, SessionTyped, Sorted, GivenUp, Inductive, TypeOK, RecordTyped
  <2>2. turnId[inflight] = NoTurn /\ rpc'[inflight] = "unknown"
    BY <1>2, <2>1, MuseAssumption DEF AnswersKnown, Answered, AttemptTyped
  <2>3. Named = NoTurn /\ r = "unknown"
    BY <2>1, <2>2, MuseAssumption DEF Named
  <2>4. k \in DOMAIN held
    BY <1>4 DEF Inductive, TypeOK, RecordTyped
  <2>. QED
    BY <2>1, <2>3, <2>4 DEF MaybeOurs
<1>. HIDE DEF r
<1>. QED
  BY <1>1, <1>3, <1>4, FlushRecords, NameOfInflight

LEMMA AnswersView ==
    ASSUME Inductive, NEW t \in Turns, Answers(t)
    PROVE  ViewMoves
<1>. /\ AttemptTyped /\ SessionTyped /\ HeldRight /\ Sorted(view) /\ AnswersKnown /\ PhaseOwned /\ PhaseKnows
     /\ held \in Seq(Frame)
  BY DEF Inductive, TypeOK, Core, RecordTyped
<1>1. inflight = t /\ t # NoTurn /\ disp[t] = "attempted"
  BY MuseAssumption DEF Answers, TurnAccepted, TurnRefused, AnswerLost, PhaseOwned, PhaseKnows, Knows, Sending
<1>2. \A k \in 1..Len(held) : held[k].of \in Turns =>
          held[k].of = t /\ runs[t] # "asked" /\ t \notin view.muse /\ k \in DOMAIN held
  BY <1>1, MuseAssumption DEF HeldRight, Sorted, GivenUp
<1>3. CASE TurnAccepted(t)
  <2>1. view' = Flushed(t, "resolved") /\ rpc'[t] = "resolved"
    BY <1>3 DEF TurnAccepted, FlushHeld, AttemptTyped
  <2>. QED
    BY <1>1, <1>2, <2>1, FlushRecords
<1>4. CASE TurnRefused(t)
  <2>1. view' = Flushed(NoTurn, "failed") /\ runs[t] = "asked"
    BY <1>4 DEF TurnRefused, FlushHeld
  <2>. QED
    BY <1>2, <2>1, FlushRecords, MuseAssumption
<1>5. CASE AnswerLost(t)
  <2>1. view' = Flushed(NoTurn, "unknown")
    BY <1>5 DEF AnswerLost, FlushHeld
  <2>2. \A k \in 1..Len(held) : held[k].of \in Turns => held[k].of \in MaybeOurs(NoTurn, "unknown")
    BY <1>2 DEF MaybeOurs
  <2>. QED
    BY <2>1, <2>2, FlushRecords, MuseAssumption
<1>. QED
  BY <1>3, <1>4, <1>5 DEF Answers

\* The SDK's terminal is recorded when no frame was.
LEMMA TurnResolvesView ==
    ASSUME Inductive, NEW t \in Turns, TurnResolves(t)
    PROVE  ViewMoves /\ native'[t] \in Terminal /\ rpc[t] = "resolved" /\ rpc' = rpc
<1>. /\ view \in View /\ Sorted(view) /\ Answered(t) /\ Knows(t) /\ t \in Ids
  BY DEF Inductive, TypeOK, RecordTyped, Core, AnswersKnown, PhaseKnows, Ids
<1>1. /\ runs[t] \in Terminal /\ rpc[t] = "resolved" /\ disp[t] = "attempted" /\ rpc' = rpc
  BY DEF Inductive, ToldKnows, TurnResolves, Knows, Answered, Ids
<1>2. CASE native[t] # "unknown"
  <2>1. view' = view
    BY <1>2 DEF TurnResolves
  <2>. QED
    BY <1>1, <1>2, <2>1, ViewStays DEF View, native, Terminal
<1>3. CASE native[t] = "unknown"
  <2>1. view' = [view EXCEPT !.native[t] = runs[t], !.seen = @ \cup {t}]
    BY <1>3 DEF TurnResolves
  <2>2. view'.native \in [Turns -> {"unknown", "completed", "failed"}]
    BY <1>1, <2>1 DEF View, Terminal
  <2>3. /\ view'.muse = view.muse /\ view'.unknown = view.unknown /\ view'.credit = view.credit
        /\ view'.seen = view.seen \cup {t}
    BY <2>1 DEF View
  <2>4. view' = [native |-> view'.native, seen |-> view'.seen, muse |-> view'.muse,
                 unknown |-> view'.unknown, credit |-> view'.credit]
    BY <2>1 DEF View
  <2>5. \A u \in Turns : view'.native[u] = IF u = t THEN runs[t] ELSE view.native[u]
    BY <2>1 DEF View
  <2>6. view' \in View
    BY <2>2, <2>3, <2>4 DEF View
  <2>7. Sorted(view')
    BY <2>3, MuseAssumption DEF Sorted
  <2>. QED
    BY <1>1, <1>3, <2>3, <2>5, <2>6, <2>7 DEF ViewMoves, native
<1>. QED
  BY <1>2, <1>3

LEMMA ViewStep ==
    ASSUME Inductive, [Next]_vars
    PROVE  ViewMoves
<1>1. CASE UNCHANGED vars \/ Outside \/ Asides \/ Dismissals
  BY <1>1, ViewStays DEF vars, record, Outside, Start, Connected, ConnectFails, LinkCloses, HostExits,
    RuntimeTakes, RuntimeStarts, RuntimeEnds, Asides, Steers, Stops, Requests, Push, SteerAnswered,
    SteerTimesOut, InterruptNative, StopAnswered, StopTimesOut, StopReturns, RuntimeAsks, AskEnds,
    Question, QuestionEnds, Dismissals, Interrupt, TimerFires, HostDied
<1>2. ASSUME NEW t \in Turns, Enters(t) \/ Prepares(t) \/ SendAdmits(t) \/ Registers(t) \/ StartTurn(t)
      PROVE  ViewMoves
  BY <1>2, ViewStays DEF record, Enters, SendRefused, SendStarts, SendEnters, SendStarted, Prepares,
    OpenAnswered, OpenFails, BindingPersisted, BindingFails, SendAdmits, Registers, RegistrationDone,
    RegistrationFails, StartTurn
<1>3. ASSUME NEW t \in Turns, Finishes(t) PROVE ViewMoves
  BY <1>3, ViewStays, TurnResolvesView DEF record, Finishes, TurnEnds, TurnFails
<1>. QED
  BY <1>1, <1>2, <1>3, FramesView, KillView, AnswersView, NextCases

----------------------------------------------------------------------------
(* Which send owns the session, and where each stands                       *)

core == <<local, disp, rpc, turnId, phase, inflight, queue, timer>>

\* What the host does to the turns: it runs what was asked for, and ends it.
RunsMove ==
    /\ runs' \in [Ids -> {"none", "asked", "running", "completed", "failed"}]
    /\ \A i \in Ids : \/ runs'[i] = runs[i]
                      \/ runs[i] = "asked" /\ runs'[i] \in {"running", "failed"}
                      \/ runs[i] = "running" /\ runs'[i] = "completed"
                      \/ i = Own /\ runs'[i] = "running" /\ runs[i] = "none"

LEMMA OutsideRuns ==
    ASSUME Inductive, Outside
    PROVE  /\ RunsMove /\ UNCHANGED <<core, view, held, due, ended, requests, calls, told>>
           /\ server # "none" => server' # "none" /\ link' \in {link, "closed"} /\ open'.host = open.host
           /\ open'.alive => server' # "none"
           /\ open'.host => server' # "none"
           /\ taken' = taken \/ RuntimeTakes
<1>. RuntimeTyped /\ SessionTyped /\ HostKnown
  BY DEF Inductive, TypeOK
<1>0. taken' = taken \/ RuntimeTakes
  BY DEF runtime, Outside, Start, Connected, ConnectFails, LinkCloses, HostExits, RuntimeStarts, RuntimeEnds
<1>1. UNCHANGED <<core, view, held, due, ended, requests, calls, told>>
  BY DEF core, attempt, session, record, runtime, Outside, Start, Launch, Connected, ConnectFails, LinkCloses,
    HostExits, RuntimeTakes, RuntimeStarts, RuntimeEnds
<1>2. RunsMove
  BY DEF runtime, Outside, Start, Connected, ConnectFails, LinkCloses, HostExits, RuntimeTakes,
    RuntimeStarts, RuntimeEnds, RunsMove, RuntimeTyped, Terminal, Alone
<1>3. /\ server # "none" => server' # "none" /\ link' \in {link, "closed"} /\ open'.host = open.host
      /\ open'.alive => server' # "none"
      /\ open'.host => server' # "none"
  <2>1. CASE Start \/ Connected
    BY <2>1 DEF HostKnown, SessionTyped, Start, Launch, Connected, runtime
  <2>2. CASE ~(Start \/ Connected)
    <3>1. /\ open' = open /\ (server' = server \/ server' = "gone") /\ link' \in {link, "closed"}
      BY <2>2 DEF session, runtime, Outside, ConnectFails, LinkCloses, HostExits, RuntimeTakes, RuntimeStarts,
        RuntimeEnds
    <3>. QED
      BY <3>1 DEF HostKnown
  <2>. QED
    BY <2>1, <2>2
<1>. QED
  BY <1>0, <1>1, <1>2, <1>3

\* Steps that leave the turns alone.
LEMMA CoreQuiet ==
    ASSUME Inductive, UNCHANGED <<core, view>>, RunsMove
    PROVE  Core'
<1>. USE DEF core
<1>. Core /\ RuntimeTyped /\ view \in View
  BY DEF Inductive, TypeOK, RecordTyped
<1>1. PhaseOwned' /\ OwnerHolds' /\ TimerOwned' /\ QueueWaits' /\ PhaseKnows'
  BY DEF Core, PhaseOwned, OwnerHolds, Unresolved, TimerOwned, QueueWaits, PhaseKnows, Knows, native
<1>2. AnswersKnown'
  <2>. SUFFICES ASSUME NEW t \in Turns PROVE Answered(t)'
    BY DEF AnswersKnown
  <2>1. Answered(t) /\ t \in Ids /\ t # Own
    BY MuseAssumption DEF Core, AnswersKnown, Ids
  <2>2. native[t] \in {"unknown", "completed", "failed"}
    BY DEF View, native
  <2>3. runs[t] \in {"none", "asked", "running", "completed", "failed"}
    BY <2>1 DEF RuntimeTyped
  <2>. QED
    BY <2>1, <2>2, <2>3 DEF Answered, RunsMove, native
<1>. QED
  BY <1>1, <1>2 DEF Core

\* Callers are told and frames are recorded; no turn goes on.
Tells ==
    /\ UNCHANGED <<disp, turnId, phase, inflight, runs>> /\ ViewMoves
    /\ local' \in [Turns -> LocalOutcomes]
    /\ \A t \in Turns : local'[t] = local[t] \/ (local[t] = "pending" /\ local'[t] = "rejected")
    /\ queue' \in Seq(Turns) /\ (queue' = <<>> \/ (queue' = queue /\ local' = local))
    /\ timer' \in {timer, NoTurn}
    /\ \A t \in Turns : rpc'[t] = rpc[t] \/ (rpc[t] = "pending" /\ rpc'[t] = "unknown")

LEMMA TellingTells ==
    ASSUME Inductive, \/ Dismissals \/ Kill
                      \/ \E i \in Ids : Frames(i)
    PROVE  Tells
<1>. AttemptTyped /\ SessionTyped
  BY DEF Inductive, TypeOK
<1>1. ViewMoves
  BY ViewStep, NextCases DEF Next, Handlers, Callers, Dismissals, Frames
<1>2. CASE Dismissals
  <2>1. Settles
    BY <1>2, RejectAllSettles, RejectInflightSettles DEF Dismissals, Interrupt, TimerFires, HostDied
  <2>2. UNCHANGED <<disp, turnId, phase, inflight, runs, rpc>>
    BY <1>2 DEF Dismissals, Interrupt, TimerFires, HostDied, runtime
  <2>. QED
    BY <1>1, <2>1, <2>2 DEF Tells, Settles
<1>3. CASE Kill
  <2>1. Settles
    BY <1>3, RejectAllSettles DEF Kill
  <2>2. UNCHANGED <<disp, turnId, phase, inflight, runs>>
    BY <1>3 DEF Kill, runtime
  <2>3. \A t \in Turns : rpc'[t] = rpc[t] \/ (rpc[t] = "pending" /\ rpc'[t] = "unknown")
    BY <1>3 DEF Kill, AttemptTyped
  <2>. QED
    BY <1>1, <2>1, <2>2, <2>3 DEF Tells, Settles
<1>4. CASE \E i \in Ids : Frames(i)
  <2>1. UNCHANGED <<attempt, session, runs>>
    BY <1>4 DEF Frames, ReadFrame, ReadTerminal, ReadAfter
  <2>. QED
    BY <1>1, <2>1 DEF attempt, session, Tells, AttemptTyped, SessionTyped, LocalOutcomes
<1>. QED
  BY <1>2, <1>3, <1>4

LEMMA TellsCore ==
    ASSUME Inductive, Tells
    PROVE  Core'
<1>. USE DEF Tells
<1>. Core /\ SessionTyped
  BY DEF Inductive, TypeOK
<1>0. \A t \in Turns : (native[t] # "unknown" => native'[t] = native[t])
  BY DEF ViewMoves, native
<1>1. PhaseOwned'
  BY DEF Core, PhaseOwned
<1>2. OwnerHolds' /\ TimerOwned'
  BY <1>0 DEF Core, OwnerHolds, Unresolved, TimerOwned
<1>3. QueueWaits'
  <2>1. CASE queue' = <<>>
    BY <2>1 DEF QueueWaits
  <2>2. CASE queue' = queue /\ local' = local
    BY <2>2 DEF Core, QueueWaits
  <2>. QED
    BY <2>1, <2>2
<1>4. PhaseKnows'
  BY <1>0 DEF Core, PhaseKnows, Knows
<1>5. AnswersKnown'
  <2>. SUFFICES ASSUME NEW t \in Turns PROVE Answered(t)'
    BY DEF AnswersKnown
  <2>1. Answered(t)
    BY DEF Core, AnswersKnown
  <2>. QED
    BY <2>1 DEF Answered, ViewMoves, native
<1>. QED
  BY <1>1, <1>2, <1>3, <1>4, <1>5 DEF Core

\* A send that is not admitted yet goes on, or is refused.
EntersTurn(t) ==
    /\ UNCHANGED <<disp, rpc, turnId, inflight, queue, timer, view, runs>>
    /\ phase[t] \in Fresh
    /\ \A u \in Turns : u # t => phase'[u] = phase[u] /\ local'[u] = local[u]
    /\ \/ phase'[t] \in Fresh /\ local'[t] = local[t]
       \/ phase'[t] = "end" /\ local'[t] = "rejected"

LEMMA EntersEffect ==
    ASSUME Inductive, NEW t \in Turns, Enters(t)
    PROVE  EntersTurn(t)
<1>. AttemptTyped
  BY DEF Inductive, TypeOK
<1>1. UNCHANGED <<disp, rpc, turnId, inflight, queue, timer, view, runs>>
  BY DEF Enters, SendRefused, SendStarts, SendEnters, SendStarted, session, record, runtime
<1>2. /\ phase[t] \in Fresh
      /\ \E p \in {"connecting", "hooks", "end"} : phase' = [phase EXCEPT ![t] = p]
      /\ \/ phase'[t] # "end" /\ local' = local
         \/ phase'[t] = "end" /\ local' = [local EXCEPT ![t] = "rejected"]
  BY DEF Enters, SendRefused, SendStarts, SendEnters, SendStarted, Fresh, AttemptTyped
<1>. QED
  BY <1>1, <1>2 DEF AttemptTyped, EntersTurn, Fresh

LEMMA EntersCore ==
    ASSUME Inductive, NEW t \in Turns, EntersTurn(t)
    PROVE  Core'
<1>. USE DEF EntersTurn
<1>. Core /\ SessionTyped
  BY DEF Inductive, TypeOK
<1>1. PhaseOwned'
  BY DEF Core, PhaseOwned, Sending, Prepared, Opening, Fresh
<1>2. OwnerHolds' /\ TimerOwned'
  BY DEF Core, OwnerHolds, Unresolved, TimerOwned, Fresh, native, SessionTyped
<1>3. QueueWaits'
  <2>1. \A k \in 1..Len(queue) : queue[k] \in Turns /\ queue[k] # t
    BY DEF SessionTyped, Core, QueueWaits, Fresh
  <2>. QED
    BY <2>1 DEF Core, QueueWaits
<1>4. PhaseKnows'
  BY DEF Core, PhaseKnows, Knows, Fresh, Early, Prepared, Opening, Sending, native
<1>5. AnswersKnown'
  BY DEF Core, AnswersKnown, Answered, native
<1>. QED
  BY <1>1, <1>2, <1>3, <1>4, <1>5 DEF Core

\* _open goes from one await to the next, or fails.
PreparesTurn(t) ==
    /\ UNCHANGED <<local, disp, rpc, turnId, inflight, queue, timer, view, runs>>
    /\ phase[t] \in Prepared \cup {"racing"} /\ phase'[t] \in Prepared \cup {"failed"}
    /\ phase[t] = "racing" <=> phase'[t] = "failed"
    /\ \A u \in Turns : u # t => phase'[u] = phase[u]

LEMMA PreparesEffect ==
    ASSUME Inductive, NEW t \in Turns, Prepares(t) \/ TurnEnds(t)
    PROVE  PreparesTurn(t)
<1>1. UNCHANGED <<local, disp, rpc, turnId, inflight, queue, timer, view, runs>>
  BY DEF Prepares, OpenAnswered, OpenFails, BindingPersisted, BindingFails, TurnEnds, session, record, runtime
<1>2. \/ phase[t] \in Prepared /\ \E p \in Prepared : phase' = [phase EXCEPT ![t] = p]
      \/ phase[t] = "racing" /\ phase' = [phase EXCEPT ![t] = "failed"]
  BY DEF Prepares, OpenAnswered, OpenFails, BindingPersisted, BindingFails, TurnEnds, Prepared, Opening
<1>. QED
  BY <1>1, <1>2 DEF Inductive, TypeOK, AttemptTyped, PreparesTurn, Prepared, Opening

LEMMA PreparesCore ==
    ASSUME Inductive, NEW t \in Turns, PreparesTurn(t)
    PROVE  Core'
<1>. USE DEF PreparesTurn
<1>. Core /\ SessionTyped
  BY DEF Inductive, TypeOK
<1>1. PhaseOwned'
  BY DEF Core, PhaseOwned, Sending, Prepared
<1>2. OwnerHolds'
  BY DEF Core, OwnerHolds, Unresolved, native
<1>3. TimerOwned'
  BY DEF Core, TimerOwned, Prepared, Opening, SessionTyped
<1>4. QueueWaits'
  <2>1. \A k \in 1..Len(queue) : queue[k] \in Turns /\ queue[k] # t
    BY DEF SessionTyped, Core, QueueWaits, Prepared, Opening
  <2>. QED
    BY <2>1 DEF Core, QueueWaits
<1>5. PhaseKnows'
  BY DEF Core, PhaseKnows, Knows, Fresh, Early, Prepared, Opening, Sending, native
<1>6. AnswersKnown'
  BY DEF Core, AnswersKnown, Answered, native
<1>. QED
  BY <1>1, <1>2, <1>3, <1>4, <1>5, <1>6 DEF Core

----------------------------------------------------------------------------
(* Dispatch and settlement                                                  *)

\* Whoever is dispatched was never written, and nothing else is unresolved.
LEMMA SendAdmitsCore ==
    ASSUME Inductive, NEW t \in Turns, SendAdmits(t)
    PROVE  Core'
<1>. AttemptTyped /\ SessionTyped /\ Core
  BY DEF Inductive, TypeOK
<1>1. /\ phase[t] = "hooks" /\ disp[t] = "not-dispatched" /\ rpc[t] = "none"
      /\ UNCHANGED <<rpc, turnId, view, runs>>
  BY DEF SendAdmits, Core, PhaseKnows, Knows, Early, Fresh, record, runtime
<1>2. \A k \in 1..Len(queue) : queue[k] \in Turns /\ queue[k] # t
  BY <1>1 DEF SessionTyped, Core, QueueWaits
<1>3. AnswersKnown'
  <2>1. \A u \in Turns : disp[u] = "attempted" => disp'[u] = "attempted"
    <3>1. CASE inflight = NoTurn /\ DispatchTurn(t, timer)
      BY <1>1, <3>1, DispatchTurnEffect DEF Core, TimerOwned
    <3>2. CASE UNCHANGED disp
      BY <3>2
    <3>. QED
      BY <3>1, <3>2 DEF SendAdmits
  <2>. QED
    BY <1>1, <2>1 DEF Core, AnswersKnown, Answered, native
<1>4. CASE /\ local' = [local EXCEPT ![t] = "rejected"] /\ phase' = [phase EXCEPT ![t] = "end"]
           /\ UNCHANGED <<inflight, queue, timer, disp>>
  <2>1. EntersTurn(t)
    BY <1>1, <1>4 DEF AttemptTyped, EntersTurn, Fresh
  <2>. QED
    BY <2>1, EntersCore
<1>5. CASE /\ local' = [local EXCEPT ![t] = "pending"] /\ inflight = NoTurn
           /\ DispatchTurn(t, timer) /\ phase' = [phase EXCEPT ![t] = DispatchPhase(t)]
           /\ UNCHANGED queue
  <2>0. timer = NoTurn
    BY <1>5 DEF Core, TimerOwned
  <2>1. Dispatches(t) /\ \A u \in Turns : u # t => phase'[u] = phase[u] /\ local'[u] = local[u]
    BY <1>5, <2>0, DispatchTurnEffect DEF Dispatches, AttemptTyped
  <2>2. local'[t] = "pending"
    BY <1>5 DEF AttemptTyped
  <2>3. PhaseOwned'
    BY <1>5, <2>1, MuseAssumption DEF Core, PhaseOwned, Dispatches
  <2>4. OwnerHolds'
    BY <1>1, <1>5, <2>1, MuseAssumption DEF Core, OwnerHolds, Unresolved, Dispatches, native
  <2>5. TimerOwned'
    BY <2>1 DEF Dispatches, TimerOwned, Opens
  <2>6. QueueWaits'
    BY <1>2, <1>5, <2>1 DEF Core, QueueWaits
  <2>7. PhaseKnows'
    BY <1>1, <2>1, <2>2
    DEF Core, PhaseKnows, Knows, Fresh, Early, Prepared, Opening, Sending, Dispatches, Opens, native
  <2>. QED
    BY <1>3, <2>3, <2>4, <2>5, <2>6, <2>7 DEF Core
<1>6. CASE /\ local' = [local EXCEPT ![t] = "pending"]
           /\ queue' = Append(queue, t) /\ phase' = [phase EXCEPT ![t] = "queued"]
           /\ UNCHANGED <<inflight, timer, disp>>
  <2>1. /\ phase'[t] = "queued" /\ local'[t] = "pending"
        /\ \A u \in Turns : u # t => phase'[u] = phase[u] /\ local'[u] = local[u]
    BY <1>6 DEF AttemptTyped
  <2>2. PhaseOwned' /\ OwnerHolds' /\ TimerOwned'
    BY <1>1, <1>6, <2>1 DEF Core, PhaseOwned, OwnerHolds, TimerOwned, Unresolved, Sending, Prepared, Opening, native,
      SessionTyped
  <2>3. /\ Len(queue') = Len(queue) + 1 /\ Len(queue) \in Nat /\ queue'[Len(queue) + 1] = t
        /\ \A k \in 1..Len(queue) : queue'[k] = queue[k]
    BY <1>6 DEF SessionTyped
  <2>4. QueueWaits'
    BY <1>2, <2>1, <2>3 DEF Core, QueueWaits
  <2>5. PhaseKnows'
    BY <1>1, <1>6, <2>1 DEF Core, PhaseKnows, Knows, Fresh, Early, Prepared, Opening, Sending, native
  <2>. QED
    BY <1>3, <2>2, <2>4, <2>5 DEF Core
<1>. QED
  BY <1>4, <1>5, <1>6 DEF SendAdmits

\* The turn in flight ends: registered for nothing, or answered.
EndsTurn(t) ==
    /\ UNCHANGED <<rpc, turnId, runs>> /\ ViewMoves
    /\ phase[t] \in {"registering", "racing"} /\ ~(disp[t] = "attempted" /\ native'[t] = "unknown")
    /\ \A u \in Turns : u # t => local'[u] = local[u]
    /\ local'[t] = "resolved" => native'[t] # "unknown" /\ rpc[t] = "resolved"
    /\ Leaves(t)

LEMMA EndsTurnCore ==
    ASSUME Inductive, NEW t \in Turns, EndsTurn(t)
    PROVE  Core'
<1>. SessionTyped /\ Core
  BY DEF Inductive, TypeOK
<1>0. \A u \in Turns : (native[u] # "unknown" => native'[u] = native[u])
  BY DEF EndsTurn, ViewMoves, native
<1>1. /\ inflight = t /\ \A u \in Turns : u # t => ~(Unresolved(u) /\ rpc[u] # "failed")
      /\ \A k \in 1..Len(queue) : queue[k] \in Turns /\ queue[k] # t
      /\ \A u \in Turns : u # t => phase[u] \notin Sending \cup {"registering"}
  BY DEF EndsTurn, Core, PhaseOwned, Sending, OwnerHolds, SessionTyped, QueueWaits
<1>2. AnswersKnown'
  <2>1. \A u \in Turns : disp[u] = "attempted" => disp'[u] = "attempted"
    BY QueueHead DEF EndsTurn, Leaves, Dispatches
  <2>. SUFFICES ASSUME NEW u \in Turns PROVE Answered(u)'
    BY DEF AnswersKnown
  <2>2. Answered(u)
    BY DEF Core, AnswersKnown
  <2>. QED
    BY <2>1, <2>2 DEF EndsTurn, Answered, ViewMoves, native
<1>3. CASE inflight' = NoTurn /\ queue' = queue /\ disp' = disp /\ timer' = NoTurn /\ Goes(t, "end")
  <2>1. PhaseOwned' /\ OwnerHolds' /\ TimerOwned'
    BY <1>0, <1>1, <1>3 DEF EndsTurn, Goes, PhaseOwned, OwnerHolds, TimerOwned, Unresolved, Sending, Prepared, Opening
  <2>2. QueueWaits'
    BY <1>1, <1>3 DEF EndsTurn, Goes, Core, QueueWaits
  <2>3. PhaseKnows'
    BY <1>0, <1>3 DEF EndsTurn, Goes, Core, PhaseKnows, Knows, Fresh, Early, Prepared, Opening, Sending
  <2>. QED
    BY <1>2, <2>1, <2>2, <2>3 DEF Core
<1>4. CASE /\ queue # <<>> /\ queue' = Tail(queue)
           /\ Head(queue) # t => phase'[t] = "end"
           /\ Dispatches(Head(queue))
           /\ \A u \in Turns : u \notin {t, Head(queue)} => phase'[u] = phase[u]
  <2>. PICK h \in Turns : h = Head(queue)
    BY <1>4, QueueHead
  <2>1. /\ h = queue[1] /\ h # t /\ phase[h] = "queued" /\ local[h] = "pending"
        /\ disp[h] = "not-dispatched" /\ rpc[h] = "none"
        /\ phase'[t] = "end" /\ Dispatches(h)
        /\ \A u \in Turns : u \notin {t, h} => phase'[u] = phase[u]
    BY <1>1, <1>4, QueueHead DEF Core, QueueWaits, PhaseKnows, Knows, Early
  <2>2. PhaseOwned' /\ OwnerHolds'
    BY <1>0, <1>1, <2>1 DEF EndsTurn, Dispatches, PhaseOwned, OwnerHolds, Unresolved, Sending, Prepared, Opening
  <2>3. TimerOwned'
    BY <2>1 DEF Dispatches, TimerOwned, Opens
  <2>4. QueueWaits'
    <3>1. /\ Len(queue') = Len(queue) - 1 /\ Len(queue) \in Nat
          /\ \A k \in 1..Len(queue') : queue'[k] = queue[k + 1]
      BY <1>4 DEF SessionTyped
    <3>2. \A k \in 1..Len(queue') :
            /\ k + 1 \in 1..Len(queue) /\ queue'[k] \in Turns \ {t, h}
            /\ phase[queue'[k]] = "queued" /\ local[queue'[k]] = "pending"
      BY <1>1, <2>1, <3>1 DEF Core, QueueWaits
    <3>3. \A j, k \in 1..Len(queue') : queue'[j] = queue'[k] => j = k
      BY <3>1, <3>2 DEF Core, QueueWaits
    <3>4. \A u \in Turns \ {t, h} : phase'[u] = phase[u] /\ local'[u] = local[u]
      BY <2>1 DEF EndsTurn
    <3>. QED
      BY <3>2, <3>3, <3>4 DEF QueueWaits
  <2>5. PhaseKnows'
    BY <1>0, <2>1
    DEF EndsTurn, Dispatches, Core, PhaseKnows, Knows, Fresh, Early, Prepared, Opening, Sending, Opens
  <2>. QED
    BY <1>2, <2>2, <2>3, <2>4, <2>5 DEF Core
<1>. QED
  BY <1>3, <1>4 DEF EndsTurn, Leaves

LEMMA RegistersEffect ==
    ASSUME Inductive, NEW t \in Turns, Registers(t)
    PROVE  /\ phase[t] = "registering" /\ disp[t] = "not-dispatched" /\ rpc[t] = "none" /\ inflight = t
           /\ timer = NoTurn /\ UNCHANGED <<rpc, turnId, view, runs>>
           /\ \/ ProcessNextTurn(t, NoTurn) /\ local' \in {local, Told({t})}
              \/ /\ WriteTurn(t, NoTurn) /\ phase' = [phase EXCEPT ![t] = OpenPhase]
                 /\ UNCHANGED <<inflight, queue, local>> /\ local[t] = "pending"
<1>1. timer = NoTurn
  <2>1. phase[t] = "registering" /\ inflight = t /\ TimerOwned
    BY DEF Registers, RegistrationDone, RegistrationFails, Inductive, Core, PhaseOwned
  <2>. QED
    BY <2>1 DEF TimerOwned
<1>. QED
  BY <1>1 DEF Inductive, Registers, RegistrationDone, RegistrationFails, Core, PhaseKnows, Knows, Early,
    PhaseOwned, record, runtime

LEMMA RegistersCore ==
    ASSUME Inductive, NEW t \in Turns, Registers(t)
    PROVE  Core'
<1>. AttemptTyped /\ SessionTyped /\ Core
  BY DEF Inductive, TypeOK
<1>1. /\ phase[t] = "registering" /\ disp[t] = "not-dispatched" /\ rpc[t] = "none" /\ inflight = t
      /\ timer = NoTurn /\ UNCHANGED <<rpc, turnId, view, runs>>
  BY RegistersEffect
<1>2. CASE ProcessNextTurn(t, NoTurn) /\ local' \in {local, Told({t})}
  <2>1. Leaves(t)
    BY <1>2, ProcessNextTurnLeaves
  <2>2. \A u \in Turns : (u # t => local'[u] = local[u]) /\ local'[u] \in {local[u], "rejected"}
    BY <1>2 DEF Told, AttemptTyped
  <2>3. local[t] # "resolved"
    BY <1>1 DEF Core, PhaseKnows, Knows
  <2>4. EndsTurn(t)
    BY <1>1, <2>1, <2>2, <2>3, ViewStays DEF EndsTurn
  <2>. QED
    BY <2>4, EndsTurnCore
<1>3. CASE /\ WriteTurn(t, NoTurn) /\ phase' = [phase EXCEPT ![t] = OpenPhase]
           /\ UNCHANGED <<inflight, queue, local>>
  <2>1. /\ phase'[t] \in Opens /\ disp'[t] = "attempted" /\ timer' \in {NoTurn, t}
        /\ \A u \in Turns : u # t => phase'[u] = phase[u] /\ disp'[u] = disp[u]
    BY <1>3, OpenPhases DEF WriteTurn, AttemptTyped
  <2>2. PhaseOwned' /\ OwnerHolds' /\ TimerOwned'
    BY <1>1, <1>3, <2>1 DEF Core, PhaseOwned, OwnerHolds, TimerOwned, Unresolved, native, Opens
  <2>3. QueueWaits'
    <3>1. \A k \in 1..Len(queue) : queue[k] \in Turns /\ queue[k] # t
      BY <1>1 DEF SessionTyped, Core, QueueWaits
    <3>. QED
      BY <1>3, <2>1, <3>1 DEF Core, QueueWaits
  <2>4. PhaseKnows'
    BY <1>1, <1>3, <2>1 DEF Core, PhaseKnows, Knows, Fresh, Early, Prepared, Opening, Sending, Opens, native
  <2>5. AnswersKnown'
    BY <1>1, <2>1 DEF Core, AnswersKnown, Answered, native
  <2>. QED
    BY <2>2, <2>3, <2>4, <2>5 DEF Core
<1>. QED
  BY <1>2, <1>3, RegistersEffect

LEMMA TurnResolvesEnds ==
    ASSUME Inductive, NEW t \in Turns, TurnResolves(t)
    PROVE  EndsTurn(t)
<1>. /\ AttemptTyped /\ SessionTyped
  BY DEF Inductive, TypeOK
<1>1. ViewMoves /\ native'[t] \in Terminal /\ rpc[t] = "resolved" /\ rpc' = rpc
  BY TurnResolvesView
<1>2. native'[t] # "unknown"
  BY <1>1 DEF Terminal
<1>3. ProcessNextTurn(t, NoTurn)
  BY <1>1, <1>2 DEF TurnResolves, CanRelease
<1>4. Leaves(t)
  BY <1>3, ProcessNextTurnLeaves
<1>5. UNCHANGED <<turnId, runs>> /\ phase[t] = "racing" /\ \A u \in Turns : u # t => local'[u] = local[u]
  BY DEF TurnResolves, AttemptTyped, runtime
<1>. QED
  BY <1>1, <1>2, <1>4, <1>5 DEF EndsTurn

\* A failed turn stays in flight unless its outcome is known or nothing was sent.
LEMMA TurnFailsEffect ==
    ASSUME Inductive, NEW t \in Turns, TurnFails(t)
    PROVE  /\ inflight = t /\ phase[t] \in {"failed", "refused"}
           /\ UNCHANGED <<rpc, view, turnId, runs>>
           /\ Settles /\ timer' = NoTurn /\ Goes(t, "end")
           /\ disp' \in [Turns -> {"not-dispatched", "attempted"}]
           /\ disp'[t] = IF phase[t] = "refused" THEN "not-dispatched" ELSE disp[t]
           /\ \A u \in Turns : u # t => disp'[u] = disp[u]
           /\ \/ inflight' = t /\ phase[t] = "failed"
              \/ inflight' = NoTurn /\ (phase[t] = "refused" \/ native[t] # "unknown" \/ rpc[t] = "failed")
<1>. /\ AttemptTyped /\ SessionTyped /\ PhaseOwned
  BY DEF Inductive, TypeOK, Core
<1>1. inflight = t /\ t # NoTurn /\ phase[t] \in {"failed", "refused"}
  BY MuseAssumption DEF TurnFails, PhaseOwned, Sending, Prepared
<1>2. Settles /\ Goes(t, "end")
  BY RejectInflightSettles, GoesTo DEF TurnFails, Phases
<1>3. timer' = NoTurn
  BY <1>1, <1>2 DEF Settles
<1>4. UNCHANGED <<rpc, view, turnId, runs>>
  BY DEF TurnFails, record, runtime
<1>5. /\ disp' \in [Turns -> {"not-dispatched", "attempted"}]
      /\ disp'[t] = IF phase[t] = "refused" THEN "not-dispatched" ELSE disp[t]
      /\ \A u \in Turns : u # t => disp'[u] = disp[u]
  BY DEF TurnFails, AttemptTyped
<1>6. \/ inflight' = t /\ phase[t] = "failed"
      \/ inflight' = NoTurn /\ (phase[t] = "refused" \/ native[t] # "unknown" \/ rpc[t] = "failed")
  BY <1>1 DEF TurnFails, CanRelease
<1>. QED
  BY <1>1, <1>2, <1>3, <1>4, <1>5, <1>6

LEMMA TurnFailsCore ==
    ASSUME Inductive, NEW t \in Turns, TurnFails(t)
    PROVE  Core'
<1>. SessionTyped /\ Core
  BY DEF Inductive, TypeOK
<1>1. /\ inflight = t /\ phase[t] \in {"failed", "refused"}
      /\ UNCHANGED <<rpc, view, turnId, runs>>
      /\ Settles /\ timer' = NoTurn /\ Goes(t, "end")
      /\ disp'[t] = IF phase[t] = "refused" THEN "not-dispatched" ELSE disp[t]
      /\ \A u \in Turns : u # t => disp'[u] = disp[u]
      /\ \/ inflight' = t /\ phase[t] = "failed"
         \/ inflight' = NoTurn /\ (phase[t] = "refused" \/ native[t] # "unknown" \/ rpc[t] = "failed")
  BY TurnFailsEffect
<1>2. PhaseOwned' /\ OwnerHolds' /\ TimerOwned'
  BY <1>1 DEF Goes, Core, PhaseOwned, OwnerHolds, TimerOwned, Unresolved, Sending, Prepared, Opening, native
<1>3. QueueWaits'
  <2>1. \A k \in 1..Len(queue) : queue[k] \in Turns /\ queue[k] # t
    BY <1>1 DEF SessionTyped, Core, QueueWaits
  <2>2. CASE queue' = <<>>
    BY <2>2 DEF QueueWaits
  <2>3. CASE queue' = queue /\ local' = local
    BY <1>1, <2>1, <2>3 DEF Goes, Core, QueueWaits
  <2>. QED
    BY <1>1, <2>2, <2>3 DEF Settles
<1>4. PhaseKnows'
  <2>1. local[t] # "resolved" /\ local'[t] # "resolved" /\ rpc[t] # "pending"
    BY <1>1 DEF Core, PhaseKnows, Knows, Settles
  <2>. QED
    BY <1>1, <2>1 DEF Goes, Settles, Core, PhaseKnows, Knows, Fresh, Early, Prepared, Opening, Sending, native
<1>5. AnswersKnown'
  BY <1>1 DEF Core, AnswersKnown, Answered, PhaseKnows, Knows, Prepared, native
<1>. QED
  BY <1>2, <1>3, <1>4, <1>5 DEF Core

----------------------------------------------------------------------------
(* turn/start and its answer                                                *)

LEMMA StartTurnEffect ==
    ASSUME Inductive, NEW t \in Turns, StartTurn(t)
    PROVE  /\ UNCHANGED <<local, disp, turnId, inflight, queue, timer, view, held, open, server, link, told>>
           /\ phase[t] = "ready" /\ rpc[t] = "none" /\ disp[t] = "attempted" /\ inflight = t
           /\ \A u \in Turns : u # t => phase'[u] = phase[u] /\ rpc'[u] = rpc[u]
           /\ \A i \in Ids : i # t => runs'[i] = runs[i]
           /\ \/ /\ phase'[t] = "asked" /\ rpc'[t] = "pending" /\ runs'[t] = "asked" /\ runs[t] = "none"
                 /\ open.alive
              \/ phase'[t] = "refused" /\ rpc' = rpc /\ runs' = runs
<1>. AttemptTyped /\ RuntimeTyped /\ Knows(t) /\ Answered(t) /\ PhaseOwned
  BY DEF Inductive, TypeOK, Core, PhaseKnows, AnswersKnown
<1>1. /\ phase[t] = "ready" /\ rpc[t] = "none" /\ disp[t] = "attempted" /\ inflight = t /\ runs[t] = "none"
      /\ UNCHANGED <<local, disp, turnId, inflight, queue, timer, view, held, open, server, link, told>>
  BY DEF StartTurn, Knows, Answered, PhaseOwned, Sending, Prepared, session
<1>2. CASE local[t] = "pending" /\ open.alive
  BY <1>1, <1>2 DEF StartTurn, AttemptTyped, RuntimeTyped, Ids
<1>3. CASE ~(local[t] = "pending" /\ open.alive)
  BY <1>1, <1>3 DEF StartTurn, AttemptTyped
<1>. QED
  BY <1>2, <1>3

LEMMA StartTurnCore ==
    ASSUME Inductive, NEW t \in Turns, StartTurn(t)
    PROVE  Core'
<1>. SessionTyped /\ Core
  BY DEF Inductive, TypeOK
<1>1. /\ UNCHANGED <<local, disp, turnId, inflight, queue, timer, view>>
      /\ phase[t] = "ready" /\ rpc[t] = "none" /\ disp[t] = "attempted" /\ inflight = t
      /\ \A u \in Turns : u # t => phase'[u] = phase[u] /\ rpc'[u] = rpc[u] /\ runs'[u] = runs[u]
      /\ \/ phase'[t] = "asked" /\ rpc'[t] = "pending" /\ runs'[t] = "asked"
         \/ phase'[t] = "refused" /\ rpc' = rpc /\ runs' = runs
  BY StartTurnEffect DEF Ids
<1>2. PhaseOwned' /\ OwnerHolds' /\ TimerOwned'
  BY <1>1 DEF Core, PhaseOwned, OwnerHolds, TimerOwned, Unresolved, native
<1>3. QueueWaits'
  <2>1. \A k \in 1..Len(queue) : queue[k] \in Turns /\ queue[k] # t
    BY <1>1 DEF SessionTyped, Core, QueueWaits
  <2>. QED
    BY <1>1, <2>1 DEF Core, QueueWaits
<1>4. PhaseKnows'
  BY <1>1 DEF Core, PhaseKnows, Knows, Fresh, Early, Prepared, Opening, Sending, native
<1>5. AnswersKnown'
  BY <1>1 DEF Core, AnswersKnown, Answered, native
<1>. QED
  BY <1>2, <1>3, <1>4, <1>5 DEF Core

\* The answer to turn/start: the turn is named, does not run, or may run.
LEMMA AnswersEffect ==
    ASSUME Inductive, NEW t \in Turns, Answers(t)
    PROVE  /\ UNCHANGED <<local, disp, inflight, queue, timer, open, server, link, told>> /\ held' = <<>>
           /\ phase[t] = "asked" /\ disp[t] = "attempted" /\ inflight = t /\ rpc[t] \in {"pending", "unknown"}
           /\ \A u \in Turns : u # t => phase'[u] = phase[u] /\ rpc'[u] = rpc[u] /\ turnId'[u] = turnId[u]
           /\ \A i \in Ids : i # t => runs'[i] = runs[i]
           /\ \/ /\ phase'[t] = "racing" /\ rpc'[t] = "resolved" /\ turnId'[t] = t
                 /\ runs' = runs /\ runs[t] \notin {"none", "asked"}
              \/ /\ phase'[t] = "failed" /\ rpc'[t] = "failed" /\ turnId' = turnId
                 /\ runs[t] = "asked" /\ runs'[t] = "none"
              \/ /\ phase'[t] = "failed" /\ rpc'[t] = "unknown" /\ turnId' = turnId /\ runs' = runs
<1>. AttemptTyped /\ RuntimeTyped /\ Knows(t) /\ PhaseOwned
  BY DEF Inductive, TypeOK, Core, PhaseKnows
<1>1. /\ UNCHANGED <<local, disp, inflight, queue, timer, open, server, link, told>> /\ held' = <<>>
      /\ phase[t] = "asked" /\ disp[t] = "attempted" /\ inflight = t /\ rpc[t] \in {"pending", "unknown"}
  BY DEF Answers, TurnAccepted, TurnRefused, AnswerLost, FlushHeld, Knows, PhaseOwned, Sending, session, runtime
<1>2. CASE TurnAccepted(t)
  BY <1>1, <1>2 DEF TurnAccepted, AttemptTyped, runtime
<1>3. CASE TurnRefused(t)
  BY <1>1, <1>3 DEF TurnRefused, AttemptTyped, RuntimeTyped, Ids
<1>4. CASE AnswerLost(t)
  BY <1>1, <1>4 DEF AnswerLost, AttemptTyped, runtime
<1>. QED
  BY <1>2, <1>3, <1>4 DEF Answers

LEMMA AnswersCore ==
    ASSUME Inductive, NEW t \in Turns, Answers(t)
    PROVE  Core'
<1>. SessionTyped /\ Core
  BY DEF Inductive, TypeOK
<1>0. ViewMoves /\ \A u \in Turns : (native[u] # "unknown" => native'[u] = native[u])
  BY AnswersView DEF ViewMoves, native
<1>1. /\ UNCHANGED <<local, disp, inflight, queue, timer>>
      /\ phase[t] = "asked" /\ disp[t] = "attempted" /\ inflight = t /\ rpc[t] \in {"pending", "unknown"}
      /\ \A u \in Turns : u # t => /\ phase'[u] = phase[u] /\ rpc'[u] = rpc[u] /\ turnId'[u] = turnId[u]
                                   /\ runs'[u] = runs[u]
      /\ \/ /\ phase'[t] = "racing" /\ rpc'[t] = "resolved" /\ turnId'[t] = t
            /\ runs' = runs /\ runs[t] \notin {"none", "asked"}
         \/ /\ phase'[t] = "failed" /\ rpc'[t] = "failed" /\ turnId' = turnId
            /\ runs[t] = "asked" /\ runs'[t] = "none"
         \/ phase'[t] = "failed" /\ rpc'[t] = "unknown" /\ turnId' = turnId /\ runs' = runs
  BY AnswersEffect DEF Ids
<1>2. PhaseOwned' /\ OwnerHolds' /\ TimerOwned'
  BY <1>0, <1>1 DEF Core, PhaseOwned, OwnerHolds, TimerOwned, Unresolved, Sending, Prepared
<1>3. QueueWaits'
  <2>1. \A k \in 1..Len(queue) : queue[k] \in Turns /\ queue[k] # t
    BY <1>1 DEF SessionTyped, Core, QueueWaits
  <2>. QED
    BY <1>1, <2>1 DEF Core, QueueWaits
<1>4. PhaseKnows'
  BY <1>0, <1>1 DEF Core, PhaseKnows, Knows, Fresh, Early, Prepared, Opening, Sending
<1>5. AnswersKnown'
  <2>. SUFFICES ASSUME NEW u \in Turns PROVE Answered(u)'
    BY DEF AnswersKnown
  <2>1. Answered(u)
    BY DEF Core, AnswersKnown
  <2>. QED
    BY <1>0, <1>1, <2>1 DEF Answered, ViewMoves, native
<1>. QED
  BY <1>2, <1>3, <1>4, <1>5 DEF Core

LEMMA AsidesEffect ==
    ASSUME Asides \/ UNCHANGED vars
    PROVE  UNCHANGED <<core, attempt, session, record, server, link, runs, told>>
BY DEF vars, core, attempt, session, runtime, Asides, Steers, Stops, Requests, Push, SteerAnswered,
    SteerTimesOut, InterruptNative, StopAnswered, StopTimesOut, StopReturns, RuntimeAsks, AskEnds,
    Question, QuestionEnds

LEMMA CoreStep ==
    ASSUME Inductive, [Next]_vars
    PROVE  Core'
<1>1. CASE Asides \/ UNCHANGED vars
  <2>1. UNCHANGED <<core, view, runs>>
    BY <1>1, AsidesEffect DEF record
  <2>2. RunsMove
    BY <2>1 DEF Inductive, TypeOK, RuntimeTyped, RunsMove
  <2>. QED
    BY <2>1, <2>2, CoreQuiet
<1>2. CASE Outside
  BY <1>2, OutsideRuns, CoreQuiet
<1>3. CASE \/ Dismissals \/ Kill
           \/ \E i \in Ids : Frames(i)
  BY <1>3, TellingTells, TellsCore
<1>4. ASSUME NEW t \in Turns, Enters(t) \/ Prepares(t) \/ SendAdmits(t) \/ Registers(t)
      PROVE  Core'
  BY <1>4, EntersEffect, EntersCore, PreparesEffect, PreparesCore, SendAdmitsCore, RegistersCore
<1>5. ASSUME NEW t \in Turns, StartTurn(t) \/ Answers(t) \/ Finishes(t)
      PROVE  Core'
  BY <1>5, StartTurnCore, AnswersCore, TurnResolvesEnds, EndsTurnCore, PreparesEffect, PreparesCore,
    TurnFailsCore DEF Finishes
<1>. QED
  BY <1>1, <1>2, <1>3, <1>4, <1>5, NextCases

----------------------------------------------------------------------------
(* Callers, and the turns that were given up                               *)

LocalMoves ==
    \A t \in Turns :
        \/ local'[t] = local[t]
        \/ local[t] = "none" /\ local'[t] \in {"pending", "rejected"}
        \/ local[t] = "pending" /\ local'[t] = "rejected"
        \/ local[t] = "pending" /\ local'[t] = "resolved" /\ native'[t] # "unknown"

LEMMA LocalMovesStep ==
    ASSUME Inductive, [Next]_vars
    PROVE  LocalMoves
<1>. AttemptTyped /\ SessionTyped /\ PhaseKnows
  BY DEF Inductive, TypeOK, Core
<1>1. CASE UNCHANGED local
  BY <1>1 DEF LocalMoves
<1>2. CASE Outside \/ Asides \/ UNCHANGED vars
  BY <1>1, <1>2, AsidesEffect, OutsideRuns DEF core
<1>3. CASE \/ Dismissals \/ Kill
           \/ \E i \in Ids : Frames(i)
  BY <1>3, TellingTells DEF Tells, LocalMoves
<1>4. ASSUME NEW t \in Turns, Enters(t) PROVE LocalMoves
  BY <1>4, EntersEffect DEF EntersTurn, LocalMoves, PhaseKnows, Knows
<1>5. ASSUME NEW t \in Turns, Prepares(t) \/ TurnEnds(t) PROVE LocalMoves
  BY <1>1, <1>5, PreparesEffect DEF PreparesTurn
<1>6. ASSUME NEW t \in Turns, SendAdmits(t) PROVE LocalMoves
  <2>1. local[t] = "none"
    BY <1>6 DEF SendAdmits, PhaseKnows, Knows, Fresh
  <2>. QED
    BY <1>6, <2>1 DEF SendAdmits, LocalMoves, AttemptTyped
<1>7. ASSUME NEW t \in Turns, Registers(t) PROVE LocalMoves
  <2>1. local' = local \/ local' = Told({t})
    BY <1>7 DEF Registers, RegistrationDone, RegistrationFails
  <2>. QED
    BY <2>1, ToldSettles DEF LocalMoves
<1>8. ASSUME NEW t \in Turns, StartTurn(t) \/ Answers(t) PROVE LocalMoves
  BY <1>1, <1>8, StartTurnEffect, AnswersEffect
<1>9. ASSUME NEW t \in Turns, TurnResolves(t) PROVE LocalMoves
  <2>1. native'[t] # "unknown"
    BY <1>9, TurnResolvesView DEF Terminal
  <2>. QED
    BY <1>9, <2>1 DEF TurnResolves, LocalMoves, AttemptTyped
<1>10. ASSUME NEW t \in Turns, TurnFails(t) PROVE LocalMoves
  BY <1>10, TurnFailsEffect DEF Settles, LocalMoves
<1>. QED
  BY <1>2, <1>3, <1>4, <1>5, <1>6, <1>7, <1>8, <1>9, <1>10, NextCases DEF Finishes

\* Only the answers and kill() move rpc of a turn that was asked for.
LossMoves ==
    /\ \A t \in Turns : rpc[t] # "none" => server # "none"
    /\ server # "none" /\ ~open.host => ~open'.host
    /\ \A t \in Turns :
         \/ rpc'[t] = rpc[t] /\ (phase'[t] = "asked" => phase[t] = "asked")
         \/ rpc[t] = "pending" /\ rpc'[t] = "unknown" /\ phase'[t] = phase[t]
            /\ ~open'.host /\ local'[t] \in {"rejected", local[t]} /\ local'[t] # "pending"
         \/ rpc[t] = "none" /\ rpc'[t] = "pending" /\ local[t] = "pending"
         \/ phase[t] = "asked" /\ phase'[t] # "asked" /\ rpc'[t] \in {"resolved", "failed", "unknown"}

LEMMA LossMovesStep ==
    ASSUME Inductive, [Next]_vars
    PROVE  LossMoves
<1>. AttemptTyped /\ SessionTyped /\ HostKnown /\ Core
  BY DEF Inductive, TypeOK
<1>0. \A t \in Turns : rpc[t] # "none" => server # "none"
  BY DEF HostKnown
<1>1. CASE UNCHANGED <<rpc, phase>> /\ (server # "none" => open'.host = open.host)
  BY <1>0, <1>1 DEF LossMoves
<1>2. CASE Outside \/ Asides \/ UNCHANGED vars
  BY <1>1, <1>2, AsidesEffect, OutsideRuns DEF core, session
<1>3. CASE Dismissals \/ \E i \in Ids : Frames(i)
  <2>1. UNCHANGED <<rpc, phase>> /\ open'.host = open.host
    BY <1>3 DEF Dismissals, Interrupt, TimerFires, HostDied, Frames, ReadFrame, ReadTerminal, ReadAfter,
      attempt, session, SessionTyped
  <2>. QED
    BY <1>1, <2>1
<1>4. CASE Kill
  <2>1. ~open'.host /\ phase' = phase
    BY <1>4 DEF Kill, SessionTyped
  <2>2. ASSUME NEW t \in Turns, rpc'[t] # rpc[t]
        PROVE  /\ rpc[t] = "pending" /\ rpc'[t] = "unknown"
               /\ local'[t] \in {"rejected", local[t]} /\ local'[t] # "pending"
    <3>1. t = inflight /\ rpc[t] = "pending" /\ rpc'[t] = "unknown"
      BY <1>4, <2>2 DEF Kill, AttemptTyped
    <3>2. local'[t] = IF local[t] = "pending" THEN "rejected" ELSE local[t]
      BY <1>4, <3>1 DEF Kill, RejectAll, Told
    <3>. QED
      BY <3>1, <3>2
  <2>. QED
    BY <1>0, <2>1, <2>2 DEF LossMoves
<1>5. ASSUME NEW t \in Turns, Enters(t) \/ Prepares(t) \/ SendAdmits(t) \/ Registers(t) \/ Finishes(t)
      PROVE  LossMoves
  <2>1. rpc' = rpc
    BY <1>5 DEF Enters, SendRefused, SendStarts, SendEnters, SendStarted, Prepares, OpenAnswered,
      OpenFails, BindingPersisted, BindingFails, SendAdmits, Registers, RegistrationDone, RegistrationFails,
      Finishes, TurnResolves, TurnEnds, TurnFails
  <2>2. open'.host = open.host
    <3>1. CASE open' = open
      BY <3>1
    <3>2. CASE OpenAnswered(t) \/ BindingPersisted(t) \/ SendStarts(t)
      BY <3>2 DEF OpenAnswered, BindingPersisted, SendStarts, Launch, SessionTyped
    <3>. QED
      BY <1>5, <3>1, <3>2 DEF session, Enters, SendRefused, SendEnters, SendStarted, Prepares,
        OpenFails, BindingFails, SendAdmits, Registers, RegistrationDone, RegistrationFails,
        Finishes, TurnResolves, TurnEnds, TurnFails
  <2>3. \A u \in Turns : phase'[u] = "asked" => phase[u] = "asked"
    <3>1. CASE Enters(t)
      BY <3>1, EntersEffect DEF EntersTurn, Fresh
    <3>2. CASE Prepares(t) \/ TurnEnds(t)
      BY <3>2, PreparesEffect DEF PreparesTurn, Prepared, Opening
    <3>3. ASSUME NEW u \in Turns, Leaves(u) PROVE \A w \in Turns : phase'[w] = "asked" => phase[w] = "asked"
      BY <3>3, QueueHead DEF Leaves, Dispatches, Goes, Opens
    <3>4. CASE SendAdmits(t)
      <4>1. \E p \in Phases \ {"asked"} : phase' = [phase EXCEPT ![t] = p]
        BY <3>4, OpenPhases DEF SendAdmits, DispatchPhase, Opens, Phases, Opening
      <4>. QED
        BY <4>1 DEF AttemptTyped
    <3>5. CASE Registers(t)
      <4>1. CASE ProcessNextTurn(t, NoTurn)
        BY <3>3, <4>1, ProcessNextTurnLeaves
      <4>2. CASE phase' = [phase EXCEPT ![t] = OpenPhase]
        BY <4>2, OpenPhases DEF AttemptTyped, Opens
      <4>. QED
        BY <3>5, <4>1, <4>2, RegistersEffect
    <3>6. CASE TurnResolves(t)
      BY <3>3, <3>6, TurnResolvesEnds DEF EndsTurn
    <3>7. CASE TurnFails(t)
      BY <3>7, TurnFailsEffect DEF Goes
    <3>. QED
      BY <1>5, <3>1, <3>2, <3>4, <3>5, <3>6, <3>7 DEF Finishes
  <2>. QED
    BY <1>0, <2>1, <2>2, <2>3 DEF LossMoves
<1>6. ASSUME NEW t \in Turns, StartTurn(t) PROVE LossMoves
  <2>1. phase'[t] = "asked" => local[t] = "pending"
    BY <1>6 DEF StartTurn, AttemptTyped
  <2>. QED
    BY <1>0, <1>6, <2>1, StartTurnEffect DEF LossMoves
<1>7. ASSUME NEW t \in Turns, Answers(t) PROVE LossMoves
  BY <1>0, <1>7, AnswersEffect DEF LossMoves
<1>. QED
  BY <1>2, <1>3, <1>4, <1>5, <1>6, <1>7, NextCases

LEMMA LossKnownStep ==
    ASSUME Inductive, [Next]_vars
    PROVE  LossKnown' /\ \A t \in Turns : GivenUp(t) => GivenUp(t)'
<1>. LossKnown /\ LossMoves /\ LocalMoves /\ PhaseKnows /\ AttemptTyped
  BY LossMovesStep, LocalMovesStep DEF Inductive, TypeOK, Core
<1>1. ASSUME NEW t \in Turns
      PROVE  /\ local[t] = "rejected" => local'[t] = "rejected"
             /\ local[t] # "none" => local'[t] # "none"
  BY DEF LocalMoves
<1>2. ASSUME NEW t \in Turns
      PROVE  \/ rpc'[t] = rpc[t] /\ (phase'[t] = "asked" => phase[t] = "asked")
             \/ rpc[t] = "pending" /\ rpc'[t] = "unknown" /\ phase'[t] = phase[t]
                /\ ~open'.host /\ local'[t] \in {"rejected", local[t]} /\ local'[t] # "pending"
             \/ rpc[t] = "none" /\ rpc'[t] = "pending" /\ local[t] = "pending"
             \/ phase[t] = "asked" /\ phase'[t] # "asked" /\ rpc'[t] \in {"resolved", "failed", "unknown"}
  BY DEF LossMoves
<1>3. ASSUME NEW t \in Turns, rpc[t] # "none", ~open.host PROVE ~open'.host
  BY <1>3 DEF LossMoves
<1>4. ASSUME NEW t \in Turns
      PROVE  /\ phase[t] = "asked" => rpc[t] \in {"pending", "unknown"} /\ local[t] \in {"pending", "rejected"}
             /\ phase[t] = "asked" /\ rpc[t] = "unknown" => ~open.host /\ local[t] = "rejected"
             /\ rpc[t] = "pending" => phase[t] = "asked"
  <2>1. /\ phase[t] = "asked" => rpc[t] \in {"pending", "unknown"}
        /\ rpc[t] = "pending" => phase[t] = "asked"
        /\ local[t] = "resolved" => phase[t] = "end"
    BY DEF PhaseKnows, Knows
  <2>2. local[t] \in {"none", "pending", "resolved", "rejected"}
    BY DEF AttemptTyped
  <2>3. phase[t] = "asked" => local[t] # "none" /\ (rpc[t] = "unknown" => ~open.host /\ local[t] = "rejected")
    BY DEF LossKnown
  <2>. QED
    BY <2>1, <2>2, <2>3
<1>5. ASSUME NEW t \in Turns, phase'[t] = "asked"
      PROVE  local'[t] # "none" /\ (rpc'[t] = "unknown" => ~open'.host /\ local'[t] = "rejected")
  BY <1>1, <1>2, <1>3, <1>4, <1>5
<1>6. ASSUME NEW t \in Turns, GivenUp(t) PROVE GivenUp(t)'
  BY <1>1, <1>2, <1>3, <1>4, <1>6 DEF GivenUp
<1>. QED
  BY <1>5, <1>6 DEF LossKnown

----------------------------------------------------------------------------
(* The host, the frames read and the frames held                            *)

LEMMA HostKnownStep ==
    ASSUME Inductive, [Next]_vars
    PROVE  HostKnown'
<1>. HostKnown /\ AttemptTyped /\ SessionTyped
  BY DEF Inductive, TypeOK
<1>1. CASE UNCHANGED <<open, server, link, rpc>>
  BY <1>1 DEF HostKnown
<1>2. CASE Outside
  <2>1. /\ server # "none" => server' # "none" /\ link' \in {link, "closed"} /\ open'.host = open.host
        /\ open'.alive => server' # "none"
        /\ open'.host => server' # "none"
        /\ rpc' = rpc
    BY <1>2, OutsideRuns DEF core
  <2>. QED
    BY <2>1 DEF HostKnown
<1>3. CASE Asides \/ UNCHANGED vars
  BY <1>1, <1>3, AsidesEffect DEF attempt, session
<1>4. CASE Dismissals \/ Kill
  <2>1. UNCHANGED <<server, link>>
    BY <1>4 DEF Dismissals, Interrupt, TimerFires, HostDied, Kill, runtime
  <2>2. \/ open'.host = open.host /\ (open'.alive => open.alive) /\ rpc' = rpc
        \/ ~open'.host /\ ~open'.alive /\ open.host
    BY <1>4 DEF Dismissals, Interrupt, TimerFires, HostDied, Kill, SessionTyped
  <2>3. \A t \in Turns : rpc'[t] = rpc[t] \/ (rpc[t] = "pending" /\ rpc'[t] = "unknown")
    BY <1>4, TellingTells DEF Tells
  <2>. QED
    BY <2>1, <2>2, <2>3 DEF HostKnown
<1>5. ASSUME NEW i \in Ids, Frames(i) PROVE HostKnown'
  BY <1>1, <1>5 DEF Frames, ReadFrame, ReadTerminal, ReadAfter, attempt, session
<1>6. ASSUME NEW t \in Turns, Enters(t) \/ Prepares(t) \/ SendAdmits(t) \/ Registers(t) \/ Finishes(t)
      PROVE  HostKnown'
  <2>1. UNCHANGED <<server, link, rpc>>
    BY <1>6 DEF runtime, Enters, SendRefused, SendStarts, SendEnters, SendStarted, Prepares, OpenAnswered,
      OpenFails, BindingPersisted, BindingFails, SendAdmits, Registers, RegistrationDone, RegistrationFails,
      Finishes, TurnResolves, TurnEnds, TurnFails
  <2>2. open'.host = open.host /\ open'.alive = open.alive
    <3>1. CASE open' = open
      BY <3>1
    <3>2. CASE OpenAnswered(t) \/ BindingPersisted(t) \/ SendStarts(t)
      BY <3>2 DEF OpenAnswered, BindingPersisted, SendStarts, Launch, SessionTyped
    <3>. QED
      BY <1>6, <3>1, <3>2 DEF session, Enters, SendRefused, SendEnters, SendStarted, Prepares,
        OpenFails, BindingFails, SendAdmits, Registers, RegistrationDone, RegistrationFails,
        Finishes, TurnResolves, TurnEnds, TurnFails
  <2>. QED
    BY <2>1, <2>2 DEF HostKnown
<1>7. ASSUME NEW t \in Turns, StartTurn(t) PROVE HostKnown'
  <2>1. /\ UNCHANGED <<open, server, link>> /\ rpc[t] = "none"
        /\ \A u \in Turns : u # t => rpc'[u] = rpc[u]
        /\ (rpc'[t] = "pending" /\ open.alive) \/ rpc' = rpc
    BY <1>7, StartTurnEffect
  <2>. QED
    BY <2>1 DEF HostKnown
<1>8. ASSUME NEW t \in Turns, Answers(t) PROVE HostKnown'
  <2>1. /\ UNCHANGED <<open, server, link>> /\ rpc[t] \in {"pending", "unknown"}
        /\ \A u \in Turns : u # t => rpc'[u] = rpc[u]
    BY <1>8, AnswersEffect
  <2>. QED
    BY <2>1 DEF HostKnown
<1>. QED
  BY <1>2, <1>3, <1>4, <1>5, <1>6, <1>7, <1>8, NextCases

\* A turn that runs is not taken back.
RunsGrow ==
    \A i \in Ids : runs[i] \notin {"none", "asked"} =>
        runs'[i] = runs[i] \/ (runs[i] = "running" /\ runs'[i] = "completed")

\* No step but a frame's own moves told, and none takes back what ran.
LEMMA RunsGrows ==
    ASSUME Inductive, [Next]_vars
    PROVE  RunsGrow /\ (told' = told \/ \E i \in Ids : Frames(i))
<1>1. CASE Asides \/ UNCHANGED vars
  BY <1>1, AsidesEffect DEF RunsGrow
<1>2. CASE Outside
  BY <1>2, OutsideRuns DEF RunsMove, RunsGrow
<1>3. CASE \E i \in Ids : Frames(i)
  BY <1>3 DEF Frames, ReadFrame, ReadTerminal, ReadAfter, RunsGrow
<1>4. CASE Dismissals \/ Kill
  BY <1>4 DEF Dismissals, Interrupt, TimerFires, HostDied, Kill, runtime, RunsGrow
<1>5. ASSUME NEW t \in Turns, Enters(t) \/ Prepares(t) \/ SendAdmits(t) \/ Registers(t) \/ Finishes(t)
      PROVE  UNCHANGED <<runs, told>>
  BY <1>5 DEF runtime, Enters, SendRefused, SendStarts, SendEnters, SendStarted, Prepares, OpenAnswered,
    OpenFails, BindingPersisted, BindingFails, SendAdmits, Registers, RegistrationDone, RegistrationFails,
    Finishes, TurnResolves, TurnEnds, TurnFails
<1>6. ASSUME NEW t \in Turns, StartTurn(t) PROVE RunsGrow /\ told' = told
  <2>1. /\ told' = told /\ \A i \in Ids : i # t => runs'[i] = runs[i]
        /\ runs[t] = "none" \/ runs' = runs
    BY <1>6, StartTurnEffect
  <2>. QED
    BY <2>1 DEF RunsGrow
<1>7. ASSUME NEW t \in Turns, Answers(t) PROVE RunsGrow /\ told' = told
  <2>1. /\ told' = told /\ \A i \in Ids : i # t => runs'[i] = runs[i]
        /\ runs[t] = "asked" \/ runs' = runs
    BY <1>7, AnswersEffect
  <2>. QED
    BY <2>1 DEF RunsGrow
<1>8. ASSUME UNCHANGED <<runs, told>> PROVE RunsGrow /\ told' = told
  BY <1>8 DEF RunsGrow
<1>. QED
  BY <1>1, <1>2, <1>3, <1>4, <1>5, <1>6, <1>7, <1>8, NextCases

LEMMA ToldKnowsStep ==
    ASSUME Inductive, [Next]_vars
    PROVE  ToldKnows'
<1>. ToldKnows /\ RuntimeTyped
  BY DEF Inductive, TypeOK
<1>1. CASE told' = told
  BY <1>1, RunsGrows DEF ToldKnows, RunsGrow, Terminal
<1>2. ASSUME NEW i \in Ids, Frames(i) PROVE ToldKnows'
  <2>1. runs' = runs /\ \A j \in Ids : j # i => told'[j] = told[j]
    BY <1>2 DEF Frames, ReadFrame, ReadTerminal, ReadAfter, RuntimeTyped
  <2>2. \/ told'[i] = 1 /\ runs[i] \notin {"none", "asked"}
        \/ told'[i] \in {2, 3} /\ runs[i] \in Terminal
    <3>1. CASE ReadFrame(i)
      BY <3>1 DEF ReadFrame, RuntimeTyped
    <3>2. CASE ReadTerminal(i)
      BY <3>2 DEF ReadTerminal, RuntimeTyped, Terminal
    <3>3. CASE ReadAfter(i)
      <4>1. told[i] = 2 /\ told'[i] = 3
        BY <3>3 DEF ReadAfter, RuntimeTyped
      <4>. QED
        BY <4>1 DEF ToldKnows
    <3>. QED
      BY <1>2, <3>1, <3>2, <3>3 DEF Frames
  <2>3. runs[i] \in Terminal => runs[i] \notin {"none", "asked"}
    BY DEF Terminal
  <2>. QED
    BY <2>1, <2>2, <2>3 DEF ToldKnows
<1>. QED
  BY <1>1, <1>2, RunsGrows

\* The frame that is held is of the turn in flight or of one Muse runs itself.
LEMMA HoldsRight ==
    ASSUME Inductive, NEW i \in Ids, NEW f \in Frame, f.of = i, Hold(i),
           runs[i] \notin {"none", "asked"}, f.last => runs[i] \in Terminal,
           held' = Append(held, f), UNCHANGED <<inflight, rpc, runs>>
    PROVE  HeldRight'
<1>. HeldRight /\ held \in Seq(Frame)
  BY DEF Inductive, TypeOK, RecordTyped
<1>1. inflight # NoTurn /\ rpc[inflight] = "pending"
  BY DEF Hold
<1>2. i \in {inflight, Own}
  <2>1. i \in Turns /\ rpc[i] = "unknown" /\ disp[i] = "attempted" => i = inflight
    BY DEF Inductive, Core, OwnerHolds, Unresolved, AnswersKnown, Answered
  <2>. QED
    BY <2>1, ReadableTurn DEF Hold, Ids
<1>3. /\ Len(held') = Len(held) + 1 /\ held'[Len(held) + 1] = f /\ Len(held) \in Nat
      /\ \A k \in 1..Len(held) : held'[k] = held[k]
  OBVIOUS
<1>4. ASSUME NEW k \in 1..Len(held')
      PROVE  /\ held'[k].of \in {inflight, Own} /\ runs[held'[k].of] \notin {"none", "asked"}
             /\ held'[k].last => runs[held'[k].of] \in Terminal
  <2>1. CASE k \in 1..Len(held)
    BY <1>3, <2>1 DEF HeldRight
  <2>2. CASE k = Len(held) + 1
    BY <1>2, <1>3, <2>2
  <2>. QED
    BY <1>3, <2>1, <2>2
<1>. QED
  BY <1>1, <1>4 DEF HeldRight

LEMMA HeldRightStep ==
    ASSUME Inductive, [Next]_vars
    PROVE  HeldRight'
<1>. HeldRight /\ held \in Seq(Frame) /\ SessionTyped /\ Core
  BY DEF Inductive, TypeOK, RecordTyped
<1>1. CASE held' = <<>>
  BY <1>1 DEF HeldRight
<1>2. CASE UNCHANGED <<held, inflight, rpc>>
  <2>1. \A k \in 1..Len(held) : held[k].of \in Ids
    <3>1. \A k \in 1..Len(held) : held[k] \in Frame
      OBVIOUS
    <3>. QED
      BY <3>1 DEF Frame
  <2>. QED
    BY <1>2, <2>1, RunsGrows DEF HeldRight, RunsGrow, Terminal
<1>3. CASE Asides \/ UNCHANGED vars
  BY <1>2, <1>3, AsidesEffect DEF core, record
<1>4. CASE Outside
  <2>1. UNCHANGED <<held, inflight, rpc>>
    BY <1>4, OutsideRuns DEF core
  <2>. QED
    BY <1>2, <2>1
<1>5. CASE Dismissals
  BY <1>2, <1>5 DEF Dismissals, Interrupt, TimerFires, HostDied, record
<1>6. CASE Kill
  BY <1>1, <1>6 DEF Kill
<1>7. ASSUME NEW i \in Ids, Frames(i) PROVE HeldRight'
  <2>1. UNCHANGED <<inflight, rpc, runs>>
    BY <1>7 DEF Frames, ReadFrame, ReadTerminal, ReadAfter, attempt, session
  <2>2. /\ runs[i] \notin {"none", "asked"}
        /\ \/ Observe(i, FALSE)
           \/ Observe(i, TRUE) /\ runs[i] \in Terminal
    BY <1>7, FrameObserved
  <2>3. CASE ~Hold(i)
    BY <1>2, <2>1, <2>2, <2>3 DEF Observe
  <2>4. CASE Hold(i)
    <3>1. PICK f \in Frame : f.of = i /\ held' = Append(held, f) /\ (f.last => runs[i] \in Terminal)
      <4>1. [of |-> i, last |-> TRUE] \in Frame /\ [of |-> i, last |-> FALSE] \in Frame
        BY DEF Frame
      <4>. QED
        BY <2>2, <2>4, <4>1 DEF Observe
    <3>. QED
      BY <2>1, <2>2, <2>4, <3>1, HoldsRight
  <2>. QED
    BY <2>3, <2>4
<1>8. ASSUME NEW t \in Turns, Enters(t) \/ Prepares(t) PROVE HeldRight'
  BY <1>2, <1>8 DEF Enters, SendRefused, SendStarts, SendEnters, SendStarted, Prepares, OpenAnswered,
    OpenFails, BindingPersisted, BindingFails, record, session
<1>9. ASSUME NEW t \in Turns, SendAdmits(t) \/ Registers(t) \/ StartTurn(t) \/ Finishes(t)
      PROVE  HeldRight'
  <2>1. held' = held
    BY <1>9 DEF SendAdmits, Registers, RegistrationDone, RegistrationFails, StartTurn, Finishes, TurnResolves,
      TurnEnds, TurnFails, record
  <2>2. CASE inflight = t
    <3>1. phase[t] # "asked"
      BY <1>9 DEF SendAdmits, Registers, RegistrationDone, RegistrationFails, StartTurn, Finishes, TurnResolves,
        TurnEnds, TurnFails
    <3>2. held = <<>>
      BY <2>2, <3>1 DEF HeldRight, Core, PhaseKnows, Knows
    <3>. QED
      BY <1>1, <2>1, <3>2
  <2>3. CASE SendAdmits(t)
    <3>1. rpc' = rpc
      BY <2>3 DEF SendAdmits
    <3>2. CASE inflight = NoTurn
      BY <1>1, <2>1, <3>2 DEF HeldRight
    <3>3. CASE inflight # NoTurn
      BY <1>2, <2>1, <2>3, <3>1, <3>3 DEF SendAdmits
    <3>. QED
      BY <3>2, <3>3
  <2>4. CASE ~SendAdmits(t)
    <3>1. phase[t] \in Sending \cup {"registering"}
      BY <1>9, <2>4 DEF Registers, RegistrationDone, RegistrationFails, StartTurn, Finishes, TurnResolves,
        TurnEnds, TurnFails, Sending, Prepared
    <3>. QED
      BY <2>2, <3>1 DEF Core, PhaseOwned
  <2>. QED
    BY <2>3, <2>4
<1>10. ASSUME NEW t \in Turns, Answers(t) PROVE HeldRight'
  BY <1>1, <1>10, AnswersEffect
<1>. QED
  BY <1>3, <1>4, <1>5, <1>6, <1>7, <1>8, <1>9, <1>10, NextCases

----------------------------------------------------------------------------
(* Approvals, questions, steers and stops                                   *)

LEMMA PutCounts ==
    ASSUME NEW q \in Quizzes, quiz[q].put = 0
    PROVE  PutCount(q) \in {0, 1}
BY DEF PutCount

QuizRecord == [st : Waits, of : Maybe, to : Turns \cup {NoTurn}, put : 0..2]

\* A question goes to its handler for turn i.
Decided(z, i, p, a) == [z EXCEPT !.st = "deciding", !.of = i, !.put = p, !.to = a]
DecidedRight(w) ==
    /\ w \in QuizRecord
    /\ w.of # NoTurn /\ (w.to # NoTurn => w.to = w.of) /\ w.put <= 1 /\ w.st = "deciding"

LEMMA QuizDecides ==
    ASSUME NEW z \in QuizRecord, NEW i \in Maybe, i # NoTurn, NEW p \in {0, 1},
           NEW a \in Turns \cup {NoTurn}, a # NoTurn => a = i
    PROVE  DecidedRight(Decided(z, i, p, a))
<1>. PICK w : w = Decided(z, i, p, a)
  OBVIOUS
<1>1. w.st = "deciding" /\ w.of = i /\ w.put = p /\ w.to = a
  BY DEF Decided, QuizRecord
<1>2. w = [st |-> w.st, of |-> w.of, to |-> w.to, put |-> w.put]
  BY DEF Decided, QuizRecord
<1>3. w.st \in Waits /\ w.of \in Maybe /\ w.to \in Turns \cup {NoTurn} /\ w.put \in 0..2
  BY <1>1 DEF Waits
<1>4. w \in QuizRecord
  BY <1>2, <1>3 DEF QuizRecord
<1>5. DecidedRight(w)
  BY <1>1, <1>4 DEF DecidedRight
<1>. QED
  BY <1>5

\* What waits goes on for the turn whose name it bears.
LEMMA ReleasesRight ==
    ASSUME Inductive, NEW cur, cur \in {inflight, NoTurn}, ReleaseAck(cur)
    PROVE  RequestsRight' /\ RequestsTyped'
<1>. RequestsTyped /\ RequestsRight /\ SessionTyped
  BY DEF Inductive, TypeOK
<1>1. ASSUME NEW r \in Asks
      PROVE  /\ ask'[r] \in [st : Waits, of : Maybe, to : Turns \cup {NoTurn}]
             /\ ask'[r].st \in {"waiting", "deciding"} => ask'[r].of # NoTurn
             /\ ask'[r].to # NoTurn => ask'[r].to = ask'[r].of
  <2>1. CASE ask[r].st # "waiting"
    BY <2>1 DEF ReleaseAck, RequestsTyped, RequestsRight
  <2>2. CASE ask[r].st = "waiting"
    <3>1. ask'[r] = [ask[r] EXCEPT !.st = "deciding", !.to = AdmissionOf(ask[r].of, cur)]
      BY <2>2 DEF ReleaseAck
    <3>2. /\ AdmissionOf(ask[r].of, cur) \in Turns \cup {NoTurn}
          /\ AdmissionOf(ask[r].of, cur) # NoTurn => AdmissionOf(ask[r].of, cur) = ask[r].of
      BY <2>2 DEF AdmissionOf, RequestsRight, SessionTyped
    <3>. QED
      BY <2>2, <3>1, <3>2 DEF RequestsTyped, RequestsRight, Waits
  <2>. QED
    BY <2>1, <2>2
<1>2. ASSUME NEW q \in Quizzes
      PROVE  /\ quiz'[q] \in [st : Waits, of : Maybe, to : Turns \cup {NoTurn}, put : 0..2]
             /\ quiz'[q].st \in {"waiting", "deciding"} => quiz'[q].of # NoTurn
             /\ quiz'[q].to # NoTurn => quiz'[q].to = quiz'[q].of
             /\ quiz'[q].put <= 1 /\ (quiz'[q].st \in {"none", "waiting"} => quiz'[q].put = 0 /\ quiz'[q].to = NoTurn)
  <2>1. CASE quiz[q].st # "waiting"
    BY <2>1 DEF ReleaseAck, RequestsTyped, RequestsRight
  <2>2. CASE quiz[q].st = "waiting"
    <3>1. quiz'[q] = [quiz[q] EXCEPT !.st = "deciding", !.put = PutCount(q), !.to = AdmissionOf(quiz[q].of, cur)]
      BY <2>2 DEF ReleaseAck
    <3>2. /\ AdmissionOf(quiz[q].of, cur) \in Turns \cup {NoTurn}
          /\ AdmissionOf(quiz[q].of, cur) # NoTurn => AdmissionOf(quiz[q].of, cur) = quiz[q].of
      BY <2>2 DEF AdmissionOf, RequestsRight, SessionTyped
    <3>3. PutCount(q) \in {0, 1}
      BY <2>2, PutCounts DEF RequestsRight
    <3>4. quiz[q].of \in Maybe /\ quiz[q].of # NoTurn
      BY <2>2 DEF RequestsTyped, RequestsRight
    <3>. QED
      <4>1. quiz'[q] = Decided(quiz[q], quiz[q].of, PutCount(q), AdmissionOf(quiz[q].of, cur))
        BY <3>1 DEF RequestsTyped, Decided
      <4>2. quiz[q] \in QuizRecord
        BY DEF RequestsTyped, QuizRecord
      <4>3. DecidedRight(quiz'[q])
        BY <3>2, <3>3, <3>4, <4>1, <4>2, QuizDecides
      <4>. QED
        BY <4>3 DEF DecidedRight, QuizRecord
  <2>. QED
    BY <2>1, <2>2
<1>3. DOMAIN ask' = Asks /\ ask' = [r \in Asks |-> ask'[r]] /\ quiz' = [q \in Quizzes |-> quiz'[q]]
  BY DEF ReleaseAck
<1>. QED
  BY <1>1, <1>2, <1>3 DEF RequestsTyped, RequestsRight

LEMMA WithdrawsRight ==
    ASSUME Inductive, WithdrawRequests
    PROVE  RequestsRight' /\ RequestsTyped'
<1>. RequestsTyped /\ RequestsRight
  BY DEF Inductive, TypeOK
<1>1. ASSUME NEW r \in Asks
      PROVE  /\ ask'[r] \in [st : Waits, of : Maybe, to : Turns \cup {NoTurn}]
             /\ ask'[r].st \in {"waiting", "deciding"} => ask'[r].of # NoTurn
             /\ ask'[r].to # NoTurn => ask'[r].to = ask'[r].of
  <2>1. ask'[r] = ask[r] \/ ask'[r] = Over(ask[r])
    BY DEF WithdrawRequests, Withdrawn, RequestsTyped
  <2>. QED
    BY <2>1 DEF Over, RequestsTyped, RequestsRight, Waits, Maybe
<1>2. ASSUME NEW q \in Quizzes
      PROVE  /\ quiz'[q] \in [st : Waits, of : Maybe, to : Turns \cup {NoTurn}, put : 0..2]
             /\ quiz'[q].st \in {"waiting", "deciding"} => quiz'[q].of # NoTurn
             /\ quiz'[q].to # NoTurn => quiz'[q].to = quiz'[q].of
             /\ quiz'[q].put <= 1 /\ (quiz'[q].st \in {"none", "waiting"} => quiz'[q].put = 0 /\ quiz'[q].to = NoTurn)
  <2>1. quiz'[q] = quiz[q] \/ quiz'[q] = Over(quiz[q])
    BY DEF WithdrawRequests, Withdrawn, RequestsTyped
  <2>. QED
    BY <2>1 DEF Over, RequestsTyped, RequestsRight, Waits, Maybe
<1>3. ask' = [r \in Asks |-> ask'[r]] /\ quiz' = [q \in Quizzes |-> quiz'[q]]
  BY DEF WithdrawRequests, Withdrawn, RequestsTyped
<1>. QED
  BY <1>1, <1>2, <1>3 DEF RequestsTyped, RequestsRight

LEMMA RequestsStep ==
    ASSUME Inductive, [Next]_vars
    PROVE  RequestsRight' /\ RequestsTyped'
<1>. RequestsTyped /\ RequestsRight /\ SessionTyped
  BY DEF Inductive, TypeOK
<1>1. CASE UNCHANGED requests
  BY <1>1 DEF requests, RequestsRight, RequestsTyped
<1>2. ASSUME NEW r \in Asks, RuntimeAsks(r) PROVE RequestsRight' /\ RequestsTyped'
  <2>1. PICK i \in Ids :
           ask' = [ask EXCEPT ![r] = IF due THEN [st |-> "waiting", of |-> i, to |-> NoTurn]
                                     ELSE [st |-> "deciding", of |-> i, to |-> AdmissionOf(i, Named)]]
    BY <1>2, MuseAssumption DEF RuntimeAsks
  <2>2. /\ i # NoTurn /\ AdmissionOf(i, Named) \in Turns \cup {NoTurn}
        /\ AdmissionOf(i, Named) # NoTurn => AdmissionOf(i, Named) = i
    BY NameOfInflight, MuseAssumption DEF AdmissionOf, SessionTyped, Ids
  <2>3. quiz' = quiz
    BY <1>2 DEF RuntimeAsks
  <2>4. ask'[r] = (IF due THEN [st |-> "waiting", of |-> i, to |-> NoTurn]
                   ELSE [st |-> "deciding", of |-> i, to |-> AdmissionOf(i, Named)])
        /\ ask' = [q \in Asks |-> ask'[q]] /\ \A q \in Asks : q # r => ask'[q] = ask[q]
    BY <2>1 DEF RequestsTyped
  <2>. QED
    BY <2>2, <2>3, <2>4 DEF RequestsTyped, RequestsRight, Waits, Maybe
<1>3. ASSUME NEW q \in Quizzes, Question(q) PROVE RequestsRight' /\ RequestsTyped'
  <2>1. PICK i \in Ids :
           quiz' = [quiz EXCEPT ![q] = IF due THEN [@ EXCEPT !.st = "waiting", !.of = i]
                                       ELSE [@ EXCEPT !.st = "deciding", !.of = i, !.put = PutCount(q),
                                                      !.to = AdmissionOf(i, Named)]]
    BY <1>3, MuseAssumption DEF Question
  <2>2. /\ i # NoTurn /\ AdmissionOf(i, Named) \in Turns \cup {NoTurn}
        /\ AdmissionOf(i, Named) # NoTurn => AdmissionOf(i, Named) = i
    BY NameOfInflight, MuseAssumption DEF AdmissionOf, SessionTyped, Ids
  <2>3. ask' = ask /\ quiz[q].st = "none" /\ quiz[q].put = 0
    BY <1>3 DEF Question, RequestsRight
  <2>4. quiz'[q] = (IF due THEN [quiz[q] EXCEPT !.st = "waiting", !.of = i]
                    ELSE [quiz[q] EXCEPT !.st = "deciding", !.of = i, !.put = PutCount(q),
                                         !.to = AdmissionOf(i, Named)])
        /\ quiz' = [p \in Quizzes |-> quiz'[p]] /\ \A p \in Quizzes : p # q => quiz'[p] = quiz[p]
    BY <2>1 DEF RequestsTyped
  <2>5. PutCount(q) \in {0, 1} /\ i \in Maybe /\ quiz[q] \in QuizRecord
    BY <2>3, PutCounts DEF RequestsTyped, QuizRecord, Maybe
  <2>6. /\ quiz'[q] \in QuizRecord /\ quiz'[q].of # NoTurn
        /\ quiz'[q].to # NoTurn => quiz'[q].to = quiz'[q].of
        /\ quiz'[q].put <= 1 /\ (quiz'[q].st \in {"none", "waiting"} => quiz'[q].put = 0 /\ quiz'[q].to = NoTurn)
    <3>1. CASE due
      <4>1. quiz'[q] = [quiz[q] EXCEPT !.st = "waiting", !.of = i]
        BY <2>4, <3>1
      <4>2. quiz'[q].st = "waiting" /\ quiz'[q].of = i /\ quiz'[q].put = 0 /\ quiz'[q].to = quiz[q].to
        BY <2>3, <2>5, <4>1 DEF QuizRecord
      <4>3. quiz'[q] \in QuizRecord
        BY <2>5, <4>1 DEF QuizRecord, Waits
      <4>. QED
        BY <2>2, <2>3, <4>2, <4>3 DEF RequestsRight
    <3>2. CASE ~due
      <4>1. quiz'[q] = Decided(quiz[q], i, PutCount(q), AdmissionOf(i, Named))
        BY <2>4, <3>2 DEF Decided
      <4>2. DecidedRight(quiz'[q])
        BY <2>2, <2>5, <4>1, QuizDecides
      <4>. QED
        BY <4>2 DEF DecidedRight
    <3>. QED
      BY <3>1, <3>2
  <2>7. quiz' \in [Quizzes -> QuizRecord]
    BY <2>4, <2>6 DEF RequestsTyped, QuizRecord
  <2>. QED
    BY <2>3, <2>4, <2>6, <2>7 DEF RequestsTyped, RequestsRight, QuizRecord
<1>4. ASSUME NEW r \in Asks, AskEnds(r) PROVE RequestsRight' /\ RequestsTyped'
  BY <1>4 DEF AskEnds, Over, RequestsTyped, RequestsRight, Waits, Maybe
<1>5. ASSUME NEW q \in Quizzes, QuestionEnds(q) PROVE RequestsRight' /\ RequestsTyped'
  BY <1>5 DEF QuestionEnds, Over, RequestsTyped, RequestsRight, Waits, Maybe
<1>6. CASE Asides \/ UNCHANGED vars
  BY <1>1, <1>2, <1>3, <1>4, <1>5, <1>6 DEF vars, Asides, Steers, Stops, Requests, Push, SteerAnswered,
    SteerTimesOut, InterruptNative, StopAnswered, StopTimesOut, StopReturns
<1>7. CASE Outside
  BY <1>1, <1>7, OutsideRuns
<1>8. CASE TimerFires
  <2>1. turnId[timer] \in {inflight, NoTurn}
    BY <1>8 DEF TimerFires, Inductive, Core, TimerOwned, AnswersKnown, Answered, SessionTyped
  <2>. QED
    BY <1>8, <2>1, ReleasesRight DEF TimerFires
<1>9. CASE Dismissals \/ Kill
  BY <1>1, <1>8, <1>9, WithdrawsRight DEF Dismissals, Interrupt, HostDied, Kill
<1>10. ASSUME NEW i \in Ids, Frames(i) PROVE RequestsRight' /\ RequestsTyped'
  BY <1>1, <1>10 DEF Frames, ReadFrame, ReadTerminal, ReadAfter
<1>11. ASSUME NEW t \in Turns, Enters(t) \/ Prepares(t) \/ SendAdmits(t) \/ Registers(t) \/ StartTurn(t)
       PROVE  RequestsRight' /\ RequestsTyped'
  BY <1>1, <1>11 DEF Enters, SendRefused, SendStarts, SendEnters, SendStarted, Prepares, OpenAnswered,
    OpenFails, BindingPersisted, BindingFails, SendAdmits, Registers, RegistrationDone, RegistrationFails, StartTurn
<1>12. ASSUME NEW t \in Turns, Finishes(t) PROVE RequestsRight' /\ RequestsTyped'
  BY <1>1, <1>12 DEF Finishes, TurnResolves, TurnEnds, TurnFails
<1>13. ASSUME NEW t \in Turns, Answers(t) PROVE RequestsRight' /\ RequestsTyped'
  <2>1. inflight = t
    BY <1>13, AnswersEffect
  <2>2. ReleaseAck(t) \/ ReleaseAck(NoTurn)
    BY <1>13 DEF Answers, TurnAccepted, TurnRefused, AnswerLost, FlushHeld
  <2>. QED
    BY <2>1, <2>2, ReleasesRight
<1>. QED
  BY <1>6, <1>7, <1>9, <1>10, <1>11, <1>12, <1>13, NextCases

----------------------------------------------------------------------------
(* Steers and stops                                                         *)

LEMMA CallsHonestStep ==
    ASSUME Inductive, [Next]_vars
    PROVE  CallsHonest'
<1>. SessionTyped /\ CallsTyped /\ CallsHonest
  BY DEF Inductive, TypeOK
<1>1. \A t \in Turns : native[t] # "unknown" => native'[t] # "unknown"
  BY ViewStep DEF ViewMoves, native
<1>2. CASE UNCHANGED <<taken, steer, stop>>
  BY <1>1, <1>2 DEF CallsHonest
<1>3. CASE Outside
  <2>1. UNCHANGED <<steer, stop, view>> /\ (taken' = taken \/ RuntimeTakes)
    BY <1>3, OutsideRuns DEF calls
  <2>2. RuntimeTakes => steer.st \in {"asked", "unknown"}
    BY DEF RuntimeTakes
  <2>3. native' = native
    BY <2>1 DEF native
  <2>. QED
    BY <2>1, <2>2, <2>3 DEF CallsHonest
<1>4. CASE Steers
  BY <1>1, <1>4 DEF Steers, Push, SteerAnswered, SteerTimesOut, runtime, CallsHonest, CallsTyped
<1>5. CASE Stops
  <2>1. UNCHANGED <<view, taken, steer>>
    BY <1>5 DEF Stops, InterruptNative, StopAnswered, StopTimesOut, StopReturns, record, runtime
  <2>2. CASE InterruptNative
    BY <2>1, <2>2 DEF InterruptNative, Steerable, CallsHonest, SessionTyped, native
  <2>3. CASE StopAnswered \/ StopTimesOut \/ StopReturns
    BY <2>1, <2>3 DEF StopAnswered, StopTimesOut, StopReturns, CallsHonest, CallsTyped, native
  <2>. QED
    BY <1>5, <2>2, <2>3 DEF Stops
<1>6. CASE Requests \/ UNCHANGED vars
  BY <1>2, <1>6 DEF Requests, RuntimeAsks, AskEnds, Question, QuestionEnds, calls, runtime, vars
<1>7. CASE Dismissals \/ Kill
  BY <1>2, <1>7 DEF Dismissals, Interrupt, TimerFires, HostDied, Kill, calls, runtime
<1>8. ASSUME NEW i \in Ids, Frames(i) PROVE CallsHonest'
  BY <1>2, <1>8 DEF Frames, ReadFrame, ReadTerminal, ReadAfter, calls
<1>9. ASSUME NEW t \in Turns, Enters(t) \/ Prepares(t) \/ SendAdmits(t) \/ Registers(t)
      PROVE  CallsHonest'
  BY <1>2, <1>9 DEF Enters, SendRefused, SendStarts, SendEnters, SendStarted, Prepares, OpenAnswered,
    OpenFails, BindingPersisted, BindingFails, SendAdmits, Registers, RegistrationDone, RegistrationFails,
    calls, runtime
<1>10. ASSUME NEW t \in Turns, StartTurn(t) \/ Answers(t) \/ Finishes(t)
       PROVE  CallsHonest'
  BY <1>2, <1>10 DEF StartTurn, Answers, TurnAccepted, TurnRefused, AnswerLost, Finishes, TurnResolves,
    TurnEnds, TurnFails, calls, runtime
<1>. QED
  BY <1>3, <1>4, <1>5, <1>6, <1>7, <1>8, <1>9, <1>10, NextCases DEF Asides

----------------------------------------------------------------------------
(* Types                                                                    *)

LEMMA AttemptTypedStep ==
    ASSUME Inductive, [Next]_vars
    PROVE  AttemptTyped'
<1>. AttemptTyped /\ SessionTyped
  BY DEF Inductive, TypeOK
<1>1. CASE UNCHANGED attempt
  BY <1>1 DEF attempt, AttemptTyped
<1>2. CASE Asides \/ Outside \/ UNCHANGED vars
  BY <1>1, <1>2, AsidesEffect, OutsideRuns DEF core, attempt
<1>3. CASE Dismissals \/ Kill
  <2>1. local' \in [Turns -> LocalOutcomes] /\ UNCHANGED <<disp, turnId, phase>>
    BY <1>3, TellingTells DEF Tells
  <2>2. rpc' \in [Turns -> {"none", "pending", "resolved", "failed", "unknown"}]
    BY <1>3 DEF Dismissals, Interrupt, TimerFires, HostDied, Kill, AttemptTyped
  <2>. QED
    BY <2>1, <2>2 DEF AttemptTyped, LocalOutcomes
<1>4. ASSUME NEW i \in Ids, Frames(i) PROVE AttemptTyped'
  BY <1>1, <1>4 DEF Frames, ReadFrame, ReadTerminal, ReadAfter
<1>5. ASSUME NEW t \in Turns, Enters(t) PROVE AttemptTyped'
  BY <1>5 DEF Enters, SendRefused, SendStarts, SendEnters, SendStarted, AttemptTyped, Phases
<1>6. ASSUME NEW t \in Turns, Prepares(t) \/ TurnEnds(t) PROVE AttemptTyped'
  BY <1>6 DEF Prepares, OpenAnswered, OpenFails, BindingPersisted, BindingFails, TurnEnds, AttemptTyped, Phases,
    Opening
<1>7. ASSUME NEW t \in Turns, SendAdmits(t) PROVE AttemptTyped'
  <2>1. disp' \in [Turns -> {"not-dispatched", "attempted"}]
    BY <1>7, DispatchTurnEffect DEF SendAdmits, AttemptTyped, Inductive, Core, TimerOwned
  <2>2. phase' \in [Turns -> Phases]
    BY <1>7, OpenPhases DEF SendAdmits, DispatchPhase, AttemptTyped, Phases, Opening, Opens
  <2>3. local' \in [Turns -> LocalOutcomes] /\ UNCHANGED <<rpc, turnId>>
    BY <1>7 DEF SendAdmits, AttemptTyped, LocalOutcomes
  <2>. QED
    BY <2>1, <2>2, <2>3 DEF AttemptTyped, LocalOutcomes
<1>8. ASSUME NEW t \in Turns, Registers(t) PROVE AttemptTyped'
  <2>1. local' \in [Turns -> LocalOutcomes] /\ UNCHANGED <<rpc, turnId>>
    BY <1>8, ToldSettles DEF Registers, RegistrationDone, RegistrationFails, AttemptTyped, LocalOutcomes
  <2>2. disp' \in [Turns -> {"not-dispatched", "attempted"}] /\ phase' \in [Turns -> Phases]
    <3>1. CASE ProcessNextTurn(t, NoTurn)
      BY <3>1, ProcessNextTurnLeaves DEF AttemptTyped, Leaves, Dispatches, Goes
    <3>2. CASE WriteTurn(t, NoTurn) /\ phase' = [phase EXCEPT ![t] = OpenPhase]
      BY <3>2, OpenPhases DEF WriteTurn, AttemptTyped, Phases, Opening, Opens
    <3>. QED
      BY <1>8, <3>1, <3>2, RegistersEffect
  <2>. QED
    BY <2>1, <2>2 DEF AttemptTyped, LocalOutcomes
<1>9. ASSUME NEW t \in Turns, StartTurn(t) PROVE AttemptTyped'
  BY <1>9 DEF StartTurn, AttemptTyped, Phases
<1>10. ASSUME NEW t \in Turns, Answers(t) PROVE AttemptTyped'
  BY <1>10 DEF Answers, TurnAccepted, TurnRefused, AnswerLost, AttemptTyped, Phases, Maybe, Ids
<1>11. ASSUME NEW t \in Turns, TurnResolves(t) PROVE AttemptTyped'
  <2>1. local' \in [Turns -> LocalOutcomes] /\ UNCHANGED <<rpc, turnId>>
    BY <1>11 DEF TurnResolves, AttemptTyped, LocalOutcomes
  <2>2. disp' \in [Turns -> {"not-dispatched", "attempted"}] /\ phase' \in [Turns -> Phases]
    BY <1>11, TurnResolvesEnds DEF EndsTurn, AttemptTyped, Leaves, Dispatches, Goes
  <2>. QED
    BY <2>1, <2>2 DEF AttemptTyped, LocalOutcomes
<1>12. ASSUME NEW t \in Turns, TurnFails(t) PROVE AttemptTyped'
  BY <1>12, TurnFailsEffect DEF Settles, Goes, AttemptTyped, LocalOutcomes
<1>. QED
  BY <1>2, <1>3, <1>4, <1>5, <1>6, <1>7, <1>8, <1>9, <1>10, <1>11, <1>12, NextCases DEF Finishes

LEMMA SessionTypedStep ==
    ASSUME Inductive, [Next]_vars
    PROVE  SessionTyped'
<1>. AttemptTyped /\ SessionTyped
  BY DEF Inductive, TypeOK
<1>1. CASE UNCHANGED session
  BY <1>1 DEF session, SessionTyped
<1>2. CASE Asides \/ UNCHANGED vars
  BY <1>1, <1>2, AsidesEffect
<1>3. CASE Outside
  BY <1>3 DEF Outside, Start, Launch, Connected, ConnectFails, LinkCloses, HostExits, RuntimeTakes,
    RuntimeStarts, RuntimeEnds, session, SessionTyped
<1>4. CASE Dismissals \/ Kill
  <2>1. inflight' = inflight /\ queue' \in Seq(Turns) /\ timer' \in {timer, NoTurn}
    BY <1>4, TellingTells DEF Tells
  <2>2. open' \in [host : BOOLEAN, alive : BOOLEAN, once : BOOLEAN, session : BOOLEAN,
                   source : {"start", "resume", "fork"}, id : BOOLEAN, saved : BOOLEAN]
    BY <1>4 DEF Dismissals, Interrupt, TimerFires, HostDied, Kill, SessionTyped
  <2>. QED
    BY <2>1, <2>2 DEF SessionTyped
<1>5. ASSUME NEW i \in Ids, Frames(i) PROVE SessionTyped'
  BY <1>1, <1>5 DEF Frames, ReadFrame, ReadTerminal, ReadAfter
<1>6. ASSUME NEW t \in Turns, Enters(t) PROVE SessionTyped'
  BY <1>6 DEF Enters, SendRefused, SendStarts, Launch, SendEnters, SendStarted, session, SessionTyped
<1>7. ASSUME NEW t \in Turns, Prepares(t) \/ TurnEnds(t) PROVE SessionTyped'
  <2>1. CASE OpenAnswered(t)
    <3>1. open' \in [host : BOOLEAN, alive : BOOLEAN, once : BOOLEAN, session : BOOLEAN,
                     source : {"start", "resume", "fork"}, id : BOOLEAN, saved : BOOLEAN]
      <4>1. CASE phase[t] = "forking"
        BY <2>1, <4>1 DEF OpenAnswered, SessionTyped
      <4>2. CASE phase[t] = "reading"
        <5>1. open' = [open EXCEPT !.session = TRUE, !.id = TRUE, !.source = "resume", !.saved = ~Persisted]
          BY <2>1, <4>2 DEF OpenAnswered
        <5>. QED
          BY <5>1, MuseAssumption DEF SessionTyped
      <4>3. CASE phase[t] \notin {"forking", "reading"}
        BY <2>1, <4>3 DEF OpenAnswered, SessionTyped
      <4>. QED
        BY <4>1, <4>2, <4>3
    <3>. QED
      BY <2>1, <3>1 DEF OpenAnswered, SessionTyped
  <2>2. CASE BindingPersisted(t)
    BY <2>2 DEF BindingPersisted, SessionTyped
  <2>. QED
    BY <1>1, <1>7, <2>1, <2>2 DEF Prepares, OpenFails, BindingFails, TurnEnds
<1>8. ASSUME NEW t \in Turns, SendAdmits(t) PROVE SessionTyped'
  <2>1. inflight' \in Turns \cup {NoTurn} /\ timer' \in Turns \cup {NoTurn}
    <3>1. inflight = NoTurn => timer = NoTurn
      BY DEF Inductive, Core, TimerOwned
    <3>. QED
      BY <1>8, <3>1, DispatchTurnEffect DEF SendAdmits, SessionTyped
  <2>2. queue' \in Seq(Turns) /\ open' = open
    <3>1. (queue' = queue \/ queue' = Append(queue, t)) /\ open' = open
      BY <1>8 DEF SendAdmits
    <3>. QED
      BY <3>1 DEF SessionTyped
  <2>. QED
    BY <2>1, <2>2 DEF SessionTyped
<1>9. ASSUME NEW t \in Turns, Leaves(t), open' = open PROVE SessionTyped'
  BY <1>9, QueueHead DEF Leaves, Dispatches, Goes, SessionTyped
<1>10. ASSUME NEW t \in Turns, Registers(t) PROVE SessionTyped'
  <2>1. open' = open
    BY <1>10 DEF Registers, RegistrationDone, RegistrationFails
  <2>2. CASE WriteTurn(t, NoTurn) /\ UNCHANGED <<inflight, queue>>
    BY <2>1, <2>2 DEF WriteTurn, SessionTyped
  <2>. QED
    BY <1>9, <1>10, <2>1, <2>2, RegistersEffect, ProcessNextTurnLeaves
<1>11. ASSUME NEW t \in Turns, TurnResolves(t) PROVE SessionTyped'
  BY <1>9, <1>11, TurnResolvesEnds DEF EndsTurn, TurnResolves
<1>12. ASSUME NEW t \in Turns, TurnFails(t) PROVE SessionTyped'
  BY <1>12, TurnFailsEffect DEF TurnFails, Settles, SessionTyped
<1>13. ASSUME NEW t \in Turns, StartTurn(t) \/ Answers(t) PROVE SessionTyped'
  BY <1>1, <1>13 DEF StartTurn, Answers, TurnAccepted, TurnRefused, AnswerLost
<1>. QED
  BY <1>2, <1>3, <1>4, <1>5, <1>6, <1>7, <1>8, <1>10, <1>11, <1>12, <1>13, NextCases DEF Finishes

LEMMA NoFrames == <<>> \in Seq(Frame)
OBVIOUS

LEMMA RecordTypedStep ==
    ASSUME Inductive, [Next]_vars
    PROVE  RecordTyped'
<1>. RecordTyped /\ TypeOK
  BY DEF Inductive, TypeOK
<1>1. view' \in View
  BY ViewStep DEF ViewMoves
<1>2. CASE UNCHANGED <<held, due, ended>>
  BY <1>1, <1>2 DEF RecordTyped
<1>3. CASE Asides \/ Outside \/ UNCHANGED vars
  BY <1>2, <1>3, AsidesEffect, OutsideRuns DEF record
<1>4. CASE Dismissals \/ Kill
  <2>1. held' \in Seq(Frame)
    BY <1>4, NoFrames DEF Dismissals, Interrupt, TimerFires, HostDied, Kill, record, RecordTyped
  <2>2. due' \in BOOLEAN
    BY <1>4 DEF Dismissals, Interrupt, TimerFires, HostDied, Kill, ReleaseAck, record, RecordTyped
  <2>3. ended' \in BOOLEAN
    BY <1>4 DEF Dismissals, Interrupt, TimerFires, HostDied, Kill, TurnDone, record, RecordTyped
  <2>. QED
    BY <1>1, <2>1, <2>2, <2>3 DEF RecordTyped
<1>5. ASSUME NEW i \in Ids, Frames(i) PROVE RecordTyped'
  <2>1. /\ [of |-> i, last |-> TRUE] \in Frame /\ [of |-> i, last |-> FALSE] \in Frame
        /\ UNCHANGED <<due, ended>>
    BY <1>5 DEF Frame, Frames, ReadFrame, ReadTerminal, ReadAfter
  <2>2. \/ held' = held
        \/ \E f \in Frame : held' = Append(held, f)
    BY <1>5, <2>1, FrameObserved DEF Observe
  <2>3. held' \in Seq(Frame)
    BY <2>2 DEF RecordTyped
  <2>. QED
    BY <1>1, <2>1, <2>3 DEF RecordTyped
<1>6. ASSUME NEW t \in Turns, Enters(t) \/ Prepares(t) \/ SendAdmits(t) \/ Registers(t) \/ Finishes(t)
      PROVE  RecordTyped'
  BY <1>2, <1>6 DEF Enters, SendRefused, SendStarts, SendEnters, SendStarted, Prepares, OpenAnswered,
    OpenFails, BindingPersisted, BindingFails, SendAdmits, Registers, RegistrationDone, RegistrationFails,
    Finishes, TurnResolves, TurnEnds, TurnFails, record
<1>7. ASSUME NEW t \in Turns, StartTurn(t) PROVE RecordTyped'
  BY <1>1, <1>7 DEF StartTurn, RecordTyped
<1>8. ASSUME NEW t \in Turns, Answers(t) PROVE RecordTyped'
  <2>1. held' = <<>> /\ due' = FALSE /\ ended' = ended
    BY <1>8 DEF Answers, TurnAccepted, TurnRefused, AnswerLost, FlushHeld, ReleaseAck
  <2>. QED
    BY <1>1, <2>1, NoFrames DEF RecordTyped
<1>. QED
  BY <1>3, <1>4, <1>5, <1>6, <1>7, <1>8, NextCases

LEMMA CallsTypedStep ==
    ASSUME Inductive, [Next]_vars
    PROVE  CallsTyped'
<1>. AttemptTyped /\ SessionTyped /\ CallsTyped
  BY DEF Inductive, TypeOK
<1>1. CASE UNCHANGED calls
  BY <1>1 DEF calls, CallsTyped
<1>2. CASE Requests \/ Outside \/ UNCHANGED vars
  BY <1>1, <1>2, OutsideRuns DEF vars, Requests, RuntimeAsks, AskEnds, Question, QuestionEnds
<1>3. CASE Push \/ InterruptNative
  BY <1>3 DEF Push, InterruptNative, Steerable, CallsTyped, AttemptTyped, SessionTyped, Maybe, Ids
<1>4. CASE SteerAnswered \/ SteerTimesOut \/ StopAnswered \/ StopTimesOut \/ StopReturns
  BY <1>4 DEF SteerAnswered, SteerTimesOut, StopAnswered, StopTimesOut, StopReturns, CallsTyped
<1>5. CASE Dismissals \/ Kill
  BY <1>1, <1>5 DEF Dismissals, Interrupt, TimerFires, HostDied, Kill
<1>6. ASSUME NEW i \in Ids, Frames(i) PROVE CallsTyped'
  BY <1>1, <1>6 DEF Frames, ReadFrame, ReadTerminal, ReadAfter
<1>7. ASSUME NEW t \in Turns, Enters(t) \/ Prepares(t) \/ SendAdmits(t) \/ Registers(t)
      PROVE  CallsTyped'
  BY <1>1, <1>7 DEF Enters, SendRefused, SendStarts, SendEnters, SendStarted, Prepares, OpenAnswered,
    OpenFails, BindingPersisted, BindingFails, SendAdmits, Registers, RegistrationDone, RegistrationFails
<1>8. ASSUME NEW t \in Turns, StartTurn(t) \/ Answers(t) \/ Finishes(t)
      PROVE  CallsTyped'
  BY <1>1, <1>8 DEF StartTurn, Answers, TurnAccepted, TurnRefused, AnswerLost, Finishes, TurnResolves,
    TurnEnds, TurnFails
<1>. QED
  BY <1>2, <1>3, <1>4, <1>5, <1>6, <1>7, <1>8, NextCases DEF Asides, Steers, Stops

LEMMA RuntimeTypedStep ==
    ASSUME Inductive, [Next]_vars
    PROVE  RuntimeTyped'
<1>. RuntimeTyped
  BY DEF Inductive, TypeOK
<1>1. CASE UNCHANGED runtime
  BY <1>1 DEF runtime, RuntimeTyped
<1>2. CASE Asides \/ Dismissals \/ Kill \/ UNCHANGED vars
  BY <1>1, <1>2 DEF vars, Asides, Steers, Stops, Requests, Push, SteerAnswered, SteerTimesOut,
    InterruptNative, StopAnswered, StopTimesOut, StopReturns, RuntimeAsks, AskEnds, Question,
    QuestionEnds, Dismissals, Interrupt, TimerFires, HostDied, Kill
<1>3. CASE Outside
  <2>1. /\ server' \in {"none", "up", "gone"} /\ link' \in {"none", "open", "closed"} /\ taken' \in BOOLEAN
    BY <1>3 DEF Outside, Start, Connected, ConnectFails, LinkCloses, HostExits, RuntimeTakes,
      RuntimeStarts, RuntimeEnds, runtime, RuntimeTyped
  <2>. QED
    BY <1>3, <2>1, OutsideRuns DEF RunsMove, RuntimeTyped
<1>4. ASSUME NEW i \in Ids, Frames(i) PROVE RuntimeTyped'
  <2>1. \E n \in {1, 2, 3} : told' = [told EXCEPT ![i] = n]
    BY <1>4 DEF Frames, ReadFrame, ReadTerminal, ReadAfter
  <2>2. told' \in [Ids -> 0..3]
    BY <2>1 DEF RuntimeTyped
  <2>3. UNCHANGED <<server, link, runs, taken>>
    BY <1>4 DEF Frames, ReadFrame, ReadTerminal, ReadAfter
  <2>. QED
    BY <2>2, <2>3 DEF RuntimeTyped
<1>5. ASSUME NEW t \in Turns, Enters(t) \/ Prepares(t) \/ SendAdmits(t) \/ Registers(t) \/ Finishes(t)
      PROVE  RuntimeTyped'
  BY <1>1, <1>5 DEF Enters, SendRefused, SendStarts, SendEnters, SendStarted, Prepares, OpenAnswered,
    OpenFails, BindingPersisted, BindingFails, SendAdmits, Registers, RegistrationDone, RegistrationFails,
    Finishes, TurnResolves, TurnEnds, TurnFails
<1>6. ASSUME NEW t \in Turns, StartTurn(t) \/ Answers(t) PROVE RuntimeTyped'
  BY <1>6 DEF StartTurn, Answers, TurnAccepted, TurnRefused, AnswerLost, runtime, RuntimeTyped
<1>. QED
  BY <1>2, <1>3, <1>4, <1>5, <1>6, NextCases

LEMMA TypeInit == Init => TypeOK
<1>. SUFFICES ASSUME Init PROVE TypeOK
  OBVIOUS
<1>1. AttemptTyped
  BY DEF Init, AttemptTyped, Phases, Maybe
<1>2. SessionTyped
  <2>1. PICK s \in {"start", "resume", "fork"} :
           open = [host |-> FALSE, alive |-> FALSE, once |-> FALSE, session |-> FALSE,
                   source |-> s, id |-> s = "resume", saved |-> FALSE]
    BY MuseAssumption DEF Init
  <2>2. open \in [host : BOOLEAN, alive : BOOLEAN, once : BOOLEAN, session : BOOLEAN,
                  source : {"start", "resume", "fork"}, id : BOOLEAN, saved : BOOLEAN]
    BY <2>1
  <2>. QED
    BY <2>2, EmptyQueue DEF Init, SessionTyped
<1>3. RecordTyped
  <2>1. view \in View
    BY DEF Init, View
  <2>. QED
    BY <2>1, NoFrames DEF Init, RecordTyped
<1>4. RequestsTyped
  <2>1. /\ [st |-> "none", of |-> NoTurn, to |-> NoTurn] \in [st : Waits, of : Maybe, to : Turns \cup {NoTurn}]
        /\ [st |-> "none", of |-> NoTurn, to |-> NoTurn, put |-> 0]
               \in [st : Waits, of : Maybe, to : Turns \cup {NoTurn}, put : 0..2]
    BY DEF Waits, Maybe
  <2>. QED
    BY <2>1 DEF Init, RequestsTyped
<1>5. CallsTyped
  BY DEF Init, CallsTyped, Maybe
<1>6. RuntimeTyped
  <2>1. told \in [Ids -> 0..3]
    BY DEF Init
  <2>. QED
    BY <2>1 DEF Init, RuntimeTyped
<1>. QED
  BY <1>1, <1>2, <1>3, <1>4, <1>5, <1>6 DEF TypeOK

----------------------------------------------------------------------------
(* The theorems                                                             *)

LEMMA InductiveInit == Init => Inductive
<1>. SUFFICES ASSUME Init PROVE Inductive
  OBVIOUS
<1>1. Core
  <2>1. PhaseOwned /\ OwnerHolds /\ TimerOwned /\ QueueWaits
    BY DEF Init, PhaseOwned, OwnerHolds, Unresolved, TimerOwned, QueueWaits, Prepared, Sending, Opening
  <2>2. PhaseKnows
    BY DEF Init, PhaseKnows, Knows, Fresh, Early, Prepared, Sending, Opening
  <2>3. AnswersKnown
    BY MuseAssumption DEF Init, AnswersKnown, Answered, native, Ids
  <2>. QED
    BY <2>1, <2>2, <2>3 DEF Core
<1>2. HostKnown /\ LossKnown /\ ToldKnows
  BY DEF Init, HostKnown, LossKnown, ToldKnows
<1>3. HeldRight /\ Sorted(view)
  BY DEF Init, HeldRight, Sorted, Ids
<1>4. RequestsRight /\ CallsHonest
  BY DEF Init, RequestsRight, CallsHonest
<1>. QED
  BY <1>1, <1>2, <1>3, <1>4, TypeInit DEF Inductive

LEMMA InductiveStep == ASSUME Inductive, [Next]_vars PROVE Inductive'
<1>1. TypeOK'
  BY AttemptTypedStep, SessionTypedStep, RecordTypedStep, RequestsStep, CallsTypedStep, RuntimeTypedStep
  DEF TypeOK
<1>2. Sorted(view)'
  BY ViewStep, LossKnownStep DEF ViewMoves, Sorted
<1>. QED
  BY <1>1, <1>2, CoreStep, HostKnownStep, LossKnownStep, ToldKnowsStep, HeldRightStep, RequestsStep, CallsHonestStep
  DEF Inductive

\* The inductive invariant holds in every state, for any sends, registrations,
\* timeouts, requests and faults (muse-session.ts send(), _sendTurn, _classify).
THEOREM Invariance == Spec => []Inductive
BY InductiveInit, InductiveStep, PTL DEF Spec

\* Every variable has its type.
THEOREM TypeCorrect == Spec => []TypeOK
<1>1. Inductive => TypeOK
  BY DEF Inductive
<1>. QED
  BY <1>1, Invariance, PTL

\* What the evidence says is what the host did (muse-session.ts _sendTurn, _terminal,
\* push(), interruptNative()), in whatever order the answer and the frames come.
THEOREM EvidenceHonest == Spec => []HonestEvidence
<1>1. ASSUME Inductive PROVE HonestEvidence
  <2>. /\ RuntimeTyped /\ view \in View /\ OwnerHolds /\ PhaseKnows /\ AnswersKnown /\ CallsHonest
    BY <1>1 DEF Inductive, TypeOK, Core, RecordTyped
  <2>1. \A t \in Turns : /\ native[t] # "unknown" => runs[t] = native[t]
                         /\ local[t] = "resolved" => native[t] # "unknown" /\ rpc[t] = "resolved"
                         /\ disp[t] = "not-dispatched" => runs[t] = "none"
    BY DEF AnswersKnown, Answered, PhaseKnows, Knows
  <2>2. stop.st = "acknowledged" => runs[stop.of] \in {"completed", "failed"}
    BY <2>1 DEF CallsHonest, View, native
  <2>3. (steer.st = "ignored" => ~taken) /\ (steer.st = "steered" => taken)
    BY DEF CallsHonest
  <2>4. \A t \in Turns : runs[t] \in {"asked", "running"} => t = inflight
    BY <2>1 DEF AnswersKnown, Answered, OwnerHolds, Unresolved, View, native
  <2>. QED
    BY <2>1, <2>2, <2>3, <2>4 DEF HonestEvidence
<1>. QED
  BY <1>1, Invariance, PTL

\* Work is credited to the one who asked for it (muse-session.ts _classify, _flushHeld,
\* _approval, _question).
THEOREM RightlyCredited == Spec => []CreditedRight
<1>1. Inductive => CreditedRight
  BY DEF Inductive, Sorted, RequestsRight, CreditedRight
<1>. QED
  BY <1>1, Invariance, PTL

----------------------------------------------------------------------------
(* The session implements TurnOwnership                                     *)

\* A turn is written, is refused, or was not written after all.
Unanswered == {"pending", "unknown"}
SentMoves ==
    \A t \in Turns :
        \/ disp'[t] = disp[t] /\ (rpc'[t] = "failed" <=> rpc[t] = "failed")
        \/ disp'[t] = disp[t] /\ rpc[t] \in Unanswered /\ rpc'[t] = "failed"
        \/ rpc[t] = "none" /\ rpc' = rpc /\ disp[t] = "attempted" /\ disp'[t] = "not-dispatched"
        \/ /\ rpc[t] = "none" /\ rpc' = rpc /\ disp[t] = "not-dispatched" /\ disp'[t] = "attempted"
           /\ local[t] \in {"none", "pending"}

LEMMA SentMovesStep ==
    ASSUME Inductive, [Next]_vars
    PROVE  SentMoves
<1>. AttemptTyped /\ SessionTyped /\ PhaseKnows
  BY DEF Inductive, TypeOK, Core
<1>1. CASE UNCHANGED <<disp, rpc>>
  BY <1>1 DEF SentMoves
<1>2. CASE Outside \/ Asides \/ UNCHANGED vars
  BY <1>1, <1>2, AsidesEffect, OutsideRuns DEF core
<1>3. CASE \/ Dismissals \/ Kill
           \/ \E i \in Ids : Frames(i)
  BY <1>3, TellingTells DEF Tells, SentMoves
<1>4. ASSUME NEW t \in Turns, Enters(t) PROVE SentMoves
  BY <1>1, <1>4, EntersEffect DEF EntersTurn
<1>5. ASSUME NEW t \in Turns, Prepares(t) \/ TurnEnds(t) PROVE SentMoves
  BY <1>1, <1>5, PreparesEffect DEF PreparesTurn
<1>6. ASSUME NEW t \in Turns, disp[t] = "not-dispatched", disp'[t] \in {disp[t], "attempted"},
             \A u \in Turns : u # t => disp'[u] = disp[u],
             local[t] \in {"none", "pending"}, rpc[t] = "none", rpc' = rpc
      PROVE  SentMoves
  BY <1>6 DEF SentMoves
<1>7. ASSUME NEW t \in Turns, Leaves(t), rpc' = rpc PROVE SentMoves
  <2>1. CASE queue # <<>> /\ Dispatches(Head(queue))
    <3>. PICK h \in Turns : h = Head(queue)
      BY <2>1, QueueHead
    <3>1. local[h] = "pending" /\ phase[h] = "queued"
      BY <2>1, QueueHead DEF Inductive, Core, QueueWaits
    <3>2. disp[h] = "not-dispatched" /\ rpc[h] = "none"
      BY <3>1 DEF PhaseKnows, Knows, Early
    <3>. QED
      BY <1>6, <1>7, <2>1, <3>1, <3>2 DEF Dispatches
  <2>. QED
    BY <1>1, <1>7, <2>1 DEF Leaves
<1>8. ASSUME NEW t \in Turns, SendAdmits(t) PROVE SentMoves
  <2>1. local[t] = "none" /\ disp[t] = "not-dispatched" /\ rpc[t] = "none" /\ rpc' = rpc
    BY <1>8 DEF SendAdmits, PhaseKnows, Knows, Fresh, Early
  <2>2. CASE inflight = NoTurn /\ DispatchTurn(t, timer)
    <3>1. timer = NoTurn
      BY <2>2 DEF Inductive, Core, TimerOwned
    <3>. QED
      BY <1>6, <2>1, <2>2, <3>1, DispatchTurnEffect
  <2>. QED
    BY <1>1, <1>8, <2>1, <2>2 DEF SendAdmits
<1>9. ASSUME NEW t \in Turns, Registers(t) PROVE SentMoves
  <2>1. disp[t] = "not-dispatched" /\ rpc[t] = "none" /\ rpc' = rpc
    BY <1>9, RegistersEffect
  <2>2. CASE ProcessNextTurn(t, NoTurn)
    BY <1>7, <2>1, <2>2, ProcessNextTurnLeaves
  <2>3. CASE WriteTurn(t, NoTurn) /\ local[t] = "pending"
    BY <1>6, <2>1, <2>3 DEF WriteTurn, AttemptTyped
  <2>. QED
    BY <1>9, <2>2, <2>3, RegistersEffect
<1>10. ASSUME NEW t \in Turns, StartTurn(t) PROVE SentMoves
  BY <1>10, StartTurnEffect DEF SentMoves
<1>11. ASSUME NEW t \in Turns, Answers(t) PROVE SentMoves
  BY <1>11, AnswersEffect DEF SentMoves, Unanswered
<1>12. ASSUME NEW t \in Turns, TurnResolves(t) PROVE SentMoves
  BY <1>7, <1>12, TurnResolvesEnds DEF EndsTurn
<1>13. ASSUME NEW t \in Turns, TurnFails(t) PROVE SentMoves
  <2>1. phase[t] = "refused" => disp[t] = "attempted" /\ rpc[t] = "none"
    BY DEF PhaseKnows, Knows, Prepared, Sending
  <2>2. /\ phase[t] \in {"failed", "refused"} /\ rpc' = rpc
        /\ disp'[t] = IF phase[t] = "refused" THEN "not-dispatched" ELSE disp[t]
        /\ \A u \in Turns : u # t => disp'[u] = disp[u]
    BY <1>13, TurnFailsEffect
  <2>. QED
    BY <2>1, <2>2 DEF SentMoves
<1>. QED
  BY <1>2, <1>3, <1>4, <1>5, <1>8, <1>9, <1>10, <1>11, <1>12, <1>13, NextCases DEF Finishes

LEMMA MovesMap ==
    ASSUME Inductive, Inductive', LocalMoves, SentMoves, ViewMoves
    PROVE  Ownership!Step
<1>. /\ AttemptTyped /\ AttemptTyped' /\ view \in View /\ view' \in View /\ AnswersKnown /\ OwnerHolds'
  BY DEF Inductive, TypeOK, RecordTyped, Core
<1>1. /\ local' \in [Turns -> LocalOutcomes]
      /\ Sent' \in [Turns -> {"not-dispatched", "attempted"}]
      /\ native' \in [Turns -> {"unknown", "completed", "failed"}]
  BY DEF AttemptTyped, LocalOutcomes, Sent, View, native
<1>2. ASSUME NEW t \in Turns
      PROVE  Ownership!LocalStep(t) /\ Ownership!DispatchStep(t) /\ Ownership!NativeStep(t)
  <2>1. /\ Sent[t] = IF rpc[t] = "failed" THEN "not-dispatched" ELSE disp[t]
        /\ Sent'[t] = IF rpc'[t] = "failed" THEN "not-dispatched" ELSE disp'[t]
    BY DEF Sent
  <2>2. Answered(t)
    BY DEF AnswersKnown
  <2>3. Ownership!LocalStep(t)
    BY DEF LocalMoves, Ownership!LocalStep
  <2>4. Ownership!DispatchStep(t)
    BY <2>1, <2>2 DEF SentMoves, Unanswered, Answered, Ownership!DispatchStep
  <2>5. Ownership!NativeStep(t)
    <3>1. rpc[t] = "failed" => rpc'[t] = "failed"
      BY DEF SentMoves
    <3>. QED
      BY <2>1, <3>1 DEF ViewMoves, Terminal, native, Ownership!NativeStep, Ownership!Unresolved
  <2>. QED
    BY <2>3, <2>4, <2>5
<1>3. Ownership!AtMostOneUnresolved'
  <2>1. \A t \in Turns : Sent'[t] = IF rpc'[t] = "failed" THEN "not-dispatched" ELSE disp'[t]
    BY DEF Sent
  <2>. QED
    BY <2>1 DEF OwnerHolds, Unresolved, Ownership!AtMostOneUnresolved, Ownership!Unresolved
<1>. QED
  BY <1>1, <1>2, <1>3
  DEF Ownership!Step, Ownership!LocalOutcome, Ownership!Dispatch, Ownership!NativeOutcome, LocalOutcomes

\* Every step of muse-session.ts is a step of TurnOwnership or a stutter.
THEOREM KeepsOwnership == Spec => ImplementsOwnership
<1>1. Init => Ownership!Init
  BY DEF Init, native, Sent, Ownership!Init
<1>2. Inductive /\ [Next]_vars => [Ownership!Step]_(Ownership!vars)
  BY InductiveStep, LocalMovesStep, SentMovesStep, ViewStep, MovesMap
<1>. QED
  BY <1>1, <1>2, Invariance, PTL DEF Spec, ImplementsOwnership, Ownership!Spec
=============================================================================
