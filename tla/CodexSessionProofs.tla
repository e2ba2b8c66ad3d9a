------------------------- MODULE CodexSessionProofs -------------------------
(***************************************************************************)
(* Proofs about CodexSession: types; which send owns the session and where *)
(* each stands (Core); what a turn's record says is what the app-server    *)
(* did with it (HonestEvidence); gates and tool counts (GatesAndTools);    *)
(* nothing is written or answered late (NothingLate); and the session      *)
(* implements TurnOwnership.  For any turns, approvals, gates and faults.  *)
(*                                                                         *)
(* Each action's effect is stated once, as a lemma about what it leaves    *)
(* and what it moves; each part of the invariant is proved from those.     *)
(***************************************************************************)
EXTENDS CodexSession, TLAPS

LocalOutcomes == {"none", "pending", "resolved", "rejected"}

----------------------------------------------------------------------------
(* The actions, by what they touch                                          *)

\* The process and the app-server; no attempt, call or item.
Outside ==
    \/ Start \/ HelloAnswered \/ ExitNoticed \/ RuntimeTakes \/ ServerExits
    \/ \E i \in Ids : RuntimeStarts(i) \/ \E how \in {"completed", "failed"} : RuntimeEnds(i, how)

\* Only the calls beside the turns: push(), interruptNative(), approvals.
Asides ==
    \/ Push \/ InterruptNative \/ SteerAnswered \/ SteerTimesOut \/ StopAnswered \/ StopTimesOut
    \/ StopReturns
    \/ \E r \in Asks : RuntimeAsks(r) \/ \E v \in {"allow", "deny"} : GateDecides(r, v)

\* Lines that do no more to the turns than to give up one that was never written.
GivesUp == ReadOther \/ \E r \in Asks : RuntimeWithdraws(r)

ToolLines == \E i \in Ids : ReadToolStarted(i) \/ ReadToolCompleted(i)

\* Callers are told, and what waits for an answer goes on without it.
Endings == StartAgain \/ Kill \/ HelloFails \/ ReadEof \/ OutputCloses \/ ExitSettles
Dismissals == Interrupt \/ TimerFires

\* send() before it admits the turn; _sendTurn before turn/start.
Enters(t) == SendRefused(t) \/ SendStarts(t) \/ SendEnters(t) \/ SendStarted(t)
Prepares(t) ==
    \/ ThreadConfigured(t) \/ BindingPersisted(t) \/ BindingFails(t)
    \/ \E a \in {"bound", "gone", "failed"} : ThreadAnswered(t, a)
    \/ \E a \in {"ready", "failed"} : InventoryAnswered(t, a)

Sends(t) ==
    \/ SendAdmits(t) \/ RegistrationDone(t) \/ RegistrationFails(t) \/ StartTurn(t)
    \/ ThreadGone(t) \/ TurnResolves(t) \/ TurnFails(t)
    \/ \E a \in {"turn", "error", "malformed"} : ReadTurnAnswer(t, a)

LEMMA NextCases ==
    ASSUME Next
    PROVE  \/ Outside \/ Asides \/ ToolLines \/ Endings \/ Dismissals
           \/ \E t \in Turns : Enters(t) \/ Prepares(t) \/ Sends(t)
           \/ \E i \in Ids : ReadStarted(i) \/ ReadCompleted(i)
           \/ GivesUp
BY DEF Next, Handlers, Callers, Runtime, Outside, Asides, ToolLines, Endings, Dismissals, Enters,
       Prepares, Sends, GivesUp

----------------------------------------------------------------------------
(* What the helpers do                                                      *)

\* Callers who wait are told of a failure, the queue is kept or emptied.
Settles ==
    /\ local' \in [Turns -> LocalOutcomes]
    /\ \A t \in Turns : local'[t] = local[t] \/ (local[t] = "pending" /\ local'[t] = "rejected")
    /\ queue' \in Seq(Turns) /\ (queue' = <<>> \/ (queue' = queue /\ local' = local))
    /\ timer' \in Turns \cup {NoTurn}

LEMMA ToldSettles ==
    ASSUME AttemptTyped, NEW ts
    PROVE  /\ Told(ts) \in [Turns -> LocalOutcomes]
           /\ \A t \in Turns : Told(ts)[t] = local[t] \/ (local[t] = "pending" /\ Told(ts)[t] = "rejected")
BY DEF AttemptTyped, Told, LocalOutcomes

LEMMA EmptyQueue == <<>> \in Seq(Turns)
OBVIOUS

LEMMA RejectAllSettles ==
    ASSUME AttemptTyped, SessionTyped, RejectAll
    PROVE  Settles /\ queue' = <<>>
BY ToldSettles, EmptyQueue DEF SessionTyped, RejectAll, Settles

LEMMA RejectInflightSettles ==
    ASSUME AttemptTyped, SessionTyped, RejectInflight
    PROVE  Settles
<1>1. CASE inflight = NoTurn
  BY <1>1 DEF AttemptTyped, SessionTyped, RejectInflight, Settles, LocalOutcomes
<1>2. CASE inflight # NoTurn
  BY <1>2, ToldSettles, EmptyQueue DEF RejectInflight, Settles
<1>. QED
  BY <1>1, <1>2

\* After a line the turn in flight is the same, or one that was never written is given up.
Kept == inflight' = inflight \/ (inflight' = NoTurn /\ NoSend)

LEMMA GivesUpEffect ==
    ASSUME GivesUp
    PROVE  /\ UNCHANGED <<attempt, queue, timer, admitted, seen, open, hello, exitw, steer, stop, said,
                          items, runtime>>
           /\ Kept
           /\ ask' = ask \/ \E r \in Asks : ask' = [ask EXCEPT ![r] = "withdrawn"]
BY DEF GivesUp, ReadOther, RuntimeWithdraws, ReleaseNoSend, Kept, calls

\* A request that fails moves its turn on.
Fails ==
    /\ phase' \in [Turns -> Phases]
    /\ \A t \in Turns : phase'[t] = phase[t] \/ (phase[t] \in Requesting /\ phase'[t] = "failed")

LEMMA RejectPendingFails ==
    ASSUME AttemptTyped, RejectPending
    PROVE  Fails
BY DEF AttemptTyped, RejectPending, Fails, Phases

LEMMA QueueHead ==
    ASSUME SessionTyped, queue # <<>>
    PROVE  /\ Head(queue) \in Turns /\ Tail(queue) \in Seq(Turns) /\ Head(queue) = queue[1]
           /\ 1 \in 1..Len(queue)
BY DEF SessionTyped

LEMMA AfterThreadPhase == AfterThread \in {"mcp", "ready"}
BY DEF AfterThread

\* The turn that leaves ends; the next is taken from the queue, or none is.
LEMMA DispatchTurnEffect ==
    ASSUME AttemptTyped, SessionTyped, NEW t \in Turns, NEW tm \in Turns \cup {NoTurn},
           DispatchTurn(t, tm)
    PROVE  /\ inflight' = t /\ timer' \in Turns \cup {NoTurn}
           /\ disp' \in [Turns -> {"not-dispatched", "attempted"}]
           /\ \A u \in Turns : u # t => disp'[u] = disp[u]
           /\ \/ DispatchPhase(t) = "registering" /\ disp'[t] = disp[t]
              \/ DispatchPhase(t) \in {"thread", "mcp", "ready"} /\ disp'[t] = "attempted"
BY AfterThreadPhase DEF AttemptTyped, SessionTyped, DispatchTurn, WriteTurn, DispatchPhase

\* phase[t] goes to p, and nothing else of phase changes.
Goes(t, p) ==
    /\ phase' \in [Turns -> Phases] /\ phase'[t] = p
    /\ \A u \in Turns : u # t => phase'[u] = phase[u]

LEMMA GoesTo ==
    ASSUME AttemptTyped, NEW t \in Turns, NEW p \in Phases, phase' = [phase EXCEPT ![t] = p]
    PROVE  Goes(t, p)
BY DEF AttemptTyped, Goes

\* A turn is dispatched: it waits for its registration, or it was written.
Dispatches(t) ==
    /\ inflight' = t
    /\ disp' \in [Turns -> {"not-dispatched", "attempted"}]
    /\ \A u \in Turns : u # t => disp'[u] = disp[u]
    /\ \/ phase'[t] = "registering" /\ disp'[t] = disp[t]
       \/ phase'[t] \in {"thread", "mcp", "ready"} /\ disp'[t] = "attempted"

Leaves(t) ==
    /\ phase' \in [Turns -> Phases] /\ timer' \in Turns \cup {NoTurn}
    /\ queue' \in Seq(Turns)
    /\ \/ /\ queue # <<>> /\ queue' = Tail(queue) /\ open.alive
          /\ Head(queue) # t => phase'[t] = "end"
          /\ Dispatches(Head(queue))
          /\ \A u \in Turns : u \notin {t, Head(queue)} => phase'[u] = phase[u]
       \/ /\ inflight' = NoTurn /\ queue' = queue /\ disp' = disp
          /\ Goes(t, "end")

LEMMA ProcessNextTurnLeaves ==
    ASSUME AttemptTyped, SessionTyped, NEW t \in Turns, NEW tm \in Turns \cup {NoTurn},
           ProcessNextTurn(t, tm)
    PROVE  Leaves(t)
<1>1. CASE queue # <<>> /\ open.alive
  <2>. PICK h \in Turns : h = Head(queue)
    BY <1>1, QueueHead
  <2>1. /\ DispatchTurn(h, tm) /\ queue' = Tail(queue)
        /\ queue' \in Seq(Turns)
        /\ phase' = [phase EXCEPT ![t] = "end", ![h] = DispatchPhase(h)]
    BY <1>1, QueueHead DEF ProcessNextTurn
  <2>2. /\ inflight' = h /\ timer' \in Turns \cup {NoTurn}
        /\ disp' \in [Turns -> {"not-dispatched", "attempted"}]
        /\ \A u \in Turns : u # h => disp'[u] = disp[u]
        /\ \/ DispatchPhase(h) = "registering" /\ disp'[h] = disp[h]
           \/ DispatchPhase(h) \in {"thread", "mcp", "ready"} /\ disp'[h] = "attempted"
    BY <2>1, DispatchTurnEffect
  <2>3. /\ phase' \in [Turns -> Phases] /\ phase'[h] = DispatchPhase(h)
        /\ \A u \in Turns : u \notin {t, h} => phase'[u] = phase[u]
        /\ h # t => phase'[t] = "end"
    BY <2>1, <2>2 DEF AttemptTyped, Phases
  <2>4. Dispatches(h)
    BY <2>2, <2>3 DEF Dispatches
  <2>. QED
    BY <1>1, <2>1, <2>2, <2>3, <2>4 DEF Leaves
<1>2. CASE ~(queue # <<>> /\ open.alive)
  <2>1. /\ inflight' = NoTurn /\ queue' = queue /\ disp' = disp /\ timer' = tm
        /\ phase' = [phase EXCEPT ![t] = "end"]
    BY <1>2 DEF ProcessNextTurn
  <2>2. Goes(t, "end")
    BY <2>1, GoesTo DEF Phases
  <2>. QED
    BY <2>1, <2>2 DEF Leaves, Goes, SessionTyped
<1>. QED
  BY <1>1, <1>2

----------------------------------------------------------------------------
(* Types                                                                    *)

LEMMA TypeInit == Init => TypeOK
<1>. SUFFICES ASSUME Init PROVE TypeOK
  OBVIOUS
<1>1. AttemptTyped
  BY DEF Init, AttemptTyped, Phases, Maybe
<1>2. SessionTyped
  BY DEF Init, SessionTyped
<1>3. CallsTyped
  BY DEF Init, CallsTyped, Maybe
<1>4. ServerTyped
  <2>1. tools \in [Turns -> [uses : Nat, results : Nat]]
    <3>1. [uses |-> 0, results |-> 0] \in [uses : Nat, results : Nat]
      OBVIOUS
    <3>. QED
      BY <3>1 DEF Init
  <2>2. told \in [Ids -> 0..2] /\ runs \in [Ids -> {"none", "asked", "running", "completed", "failed"}]
    BY DEF Init
  <2>. QED
    BY <2>1, <2>2 DEF Init, ServerTyped
<1>. QED
  BY <1>1, <1>2, <1>3, <1>4 DEF TypeOK

LEMMA AttemptTypedStep == ASSUME TypeOK, [Next]_vars PROVE AttemptTyped'
<1>. /\ AttemptTyped /\ SessionTyped
  BY DEF TypeOK
<1>1. CASE UNCHANGED attempt
  BY <1>1 DEF attempt, AttemptTyped
<1>2. CASE Outside \/ Asides \/ ToolLines \/ GivesUp \/ UNCHANGED vars
  <2>. UNCHANGED attempt
    BY <1>2, GivesUpEffect DEF vars, Outside, Asides, ToolLines, Start, HelloAnswered, ExitNoticed,
      RuntimeTakes, ServerExits,
      RuntimeStarts, RuntimeEnds, Push, InterruptNative, SteerAnswered, SteerTimesOut, StopAnswered,
      StopTimesOut, StopReturns, RuntimeAsks, GateDecides, ReadToolStarted,
      ReadToolCompleted
  <2>. QED
    BY <1>1
<1>3. CASE Endings
  <2>1. UNCHANGED <<disp, native, rpc, settled, turnId>>
    BY <1>3 DEF Endings, StartAgain, Kill, HelloFails, ReadEof, OutputCloses, Eof, ExitSettles
  <2>2. local' \in [Turns -> LocalOutcomes] /\ phase' \in [Turns -> Phases]
    <3>1. CASE HelloFails
      BY <3>1 DEF HelloFails, Told, AttemptTyped, LocalOutcomes, Phases
    <3>2. CASE RejectAll /\ RejectPending
      BY <3>2, RejectAllSettles, RejectPendingFails DEF Settles, Fails
    <3>3. CASE UNCHANGED <<local, phase>>
      BY <3>3 DEF AttemptTyped, LocalOutcomes
    <3>. QED
      BY <1>3, <3>1, <3>2, <3>3
      DEF Endings, StartAgain, Kill, KillEffects, ReadEof, OutputCloses, Eof, ExitSettles
  <2>. QED
    BY <2>1, <2>2 DEF AttemptTyped, LocalOutcomes
<1>4. CASE Dismissals
  <2>1. UNCHANGED <<disp, native, rpc, settled, turnId, phase>> /\ RejectInflight
    BY <1>4 DEF Dismissals, Interrupt, TimerFires
  <2>. QED
    BY <2>1, RejectInflightSettles DEF AttemptTyped, LocalOutcomes, Settles
<1>5. ASSUME NEW t \in Turns, Enters(t) PROVE AttemptTyped'
  BY <1>5 DEF Enters, SendRefused, SendStarts, SendEnters, SendStarted, AttemptTyped, Phases
<1>6. ASSUME NEW t \in Turns, Prepares(t) PROVE AttemptTyped'
  BY <1>6, AfterThreadPhase DEF Prepares, ThreadConfigured, BindingPersisted, BindingFails,
    ThreadAnswered,
    InventoryAnswered, AttemptTyped, Phases
<1>7. ASSUME NEW t \in Turns, SendAdmits(t) PROVE AttemptTyped'
  <2>1. disp' \in [Turns -> {"not-dispatched", "attempted"}]
    BY <1>7, DispatchTurnEffect DEF SendAdmits, SessionTyped, AttemptTyped
  <2>2. phase' \in [Turns -> Phases]
    BY <1>7, AfterThreadPhase DEF SendAdmits, DispatchPhase, AttemptTyped, Phases
  <2>3. local' \in [Turns -> LocalOutcomes] /\ UNCHANGED <<native, rpc, settled, turnId>>
    BY <1>7 DEF SendAdmits, AttemptTyped, LocalOutcomes
  <2>. QED
    BY <2>1, <2>2, <2>3 DEF AttemptTyped, LocalOutcomes
<1>8. ASSUME NEW t \in Turns, RegistrationDone(t) \/ RegistrationFails(t) PROVE AttemptTyped'
  <2>1. local' \in [Turns -> LocalOutcomes] /\ UNCHANGED <<native, rpc, settled, turnId>>
    BY <1>8, ToldSettles DEF RegistrationDone, RegistrationFails, AttemptTyped, LocalOutcomes
  <2>2. disp' \in [Turns -> {"not-dispatched", "attempted"}] /\ phase' \in [Turns -> Phases]
    <3>1. CASE ProcessNextTurn(t, timer)
      BY <3>1, ProcessNextTurnLeaves DEF SessionTyped, AttemptTyped, Leaves, Dispatches, Goes
    <3>2. CASE /\ WriteTurn(t, timer)
               /\ phase' = [phase EXCEPT ![t] = IF open.ready THEN AfterThread ELSE "thread"]
      BY <3>2, AfterThreadPhase DEF WriteTurn, AttemptTyped, Phases
    <3>3. CASE phase' = [phase EXCEPT ![t] = "end"] /\ disp' = disp
      BY <3>3 DEF AttemptTyped, Phases
    <3>. QED
      BY <1>8, <3>1, <3>2, <3>3 DEF RegistrationDone, RegistrationFails
  <2>. QED
    BY <2>1, <2>2 DEF AttemptTyped, LocalOutcomes
<1>9. ASSUME NEW t \in Turns, StartTurn(t) PROVE AttemptTyped'
  BY <1>9 DEF StartTurn, AttemptTyped, Phases
<1>10. ASSUME NEW t \in Turns, TurnResolves(t) PROVE AttemptTyped'
  <2>1. /\ local' \in [Turns -> LocalOutcomes] /\ settled' \in [Turns -> BOOLEAN]
        /\ UNCHANGED <<native, rpc, turnId>>
    BY <1>10 DEF TurnResolves, AttemptTyped, LocalOutcomes
  <2>2. disp' \in [Turns -> {"not-dispatched", "attempted"}] /\ phase' \in [Turns -> Phases]
    BY <1>10, ProcessNextTurnLeaves DEF TurnResolves, AttemptTyped, Leaves, Dispatches, Goes
  <2>. QED
    BY <2>1, <2>2 DEF AttemptTyped, LocalOutcomes
<1>11. ASSUME NEW t \in Turns, TurnFails(t) PROVE AttemptTyped'
  <2>1. /\ settled' \in [Turns -> BOOLEAN] /\ disp' \in [Turns -> {"not-dispatched", "attempted"}]
        /\ phase' \in [Turns -> Phases]
    BY <1>11 DEF TurnFails, FailTurn, AttemptTyped, Phases
  <2>2. rpc' \in [Turns -> {"none", "pending", "resolved", "failed", "unknown"}]
    BY <1>11 DEF TurnFails, FailTurn, AttemptTyped
  <2>3. local' \in [Turns -> LocalOutcomes] /\ UNCHANGED <<native, turnId>>
    BY <1>11, RejectInflightSettles DEF TurnFails, FailTurn, Settles, AttemptTyped, LocalOutcomes
  <2>. QED
    BY <2>1, <2>2, <2>3 DEF AttemptTyped, LocalOutcomes
<1>14. ASSUME NEW t \in Turns, ThreadGone(t) PROVE AttemptTyped'
  BY <1>14 DEF ThreadGone, AttemptTyped, Phases
<1>12. ASSUME NEW t \in Turns, NEW a \in {"turn", "error", "malformed"}, ReadTurnAnswer(t, a)
       PROVE  AttemptTyped'
  BY <1>12 DEF ReadTurnAnswer, AttemptTyped, Phases, Maybe, Ids
<1>13. ASSUME NEW i \in Ids, ReadStarted(i) \/ ReadCompleted(i)
       PROVE  AttemptTyped'
  BY <1>13 DEF ReadStarted, ReadCompleted, Recorded, AttemptTyped, SessionTyped, Maybe
<1>. QED
  BY <1>2, <1>3, <1>4, <1>5, <1>6, <1>7, <1>8, <1>9, <1>10, <1>11, <1>12, <1>13,
    <1>14, NextCases DEF Sends

LEMMA SessionTypedStep == ASSUME TypeOK, [Next]_vars PROVE SessionTyped'
<1>. /\ AttemptTyped /\ SessionTyped
  BY DEF TypeOK
<1>1. CASE UNCHANGED session
  BY <1>1 DEF session, SessionTyped
<1>2. CASE Asides \/ ToolLines \/ UNCHANGED vars
  <2>. UNCHANGED session
    BY <1>2 DEF vars, Asides, ToolLines,
      Push, InterruptNative, SteerAnswered, SteerTimesOut, StopAnswered,
      StopTimesOut, StopReturns, RuntimeAsks, GateDecides, ReadToolStarted,
      ReadToolCompleted
  <2>. QED
    BY <1>1
<1>3. CASE Outside
  BY <1>3 DEF Outside, Start, Launch, HelloAnswered, ExitNoticed, RuntimeTakes, ServerExits,
      RuntimeStarts, RuntimeEnds, session, SessionTyped
<1>15. CASE GivesUp
  BY <1>15, GivesUpEffect DEF Kept, SessionTyped
<1>4. CASE Endings
  <2>1. /\ UNCHANGED <<inflight, admitted, seen>>
        /\ open' \in [proc : BOOLEAN, alive : BOOLEAN, once : BOOLEAN, ready : BOOLEAN, binding : BOOLEAN]
        /\ hello' \in {"none", "sent", "answered", "failed", "over"}
        /\ exitw' \in {"none", "draining", "done"}
    BY <1>4 DEF Endings, StartAgain, Kill, KillEffects, RejectPending, HelloFails, ReadEof,
      OutputCloses, Eof,
      ExitSettles, SessionTyped
  <2>2. queue' \in Seq(Turns) /\ timer' \in Turns \cup {NoTurn}
    <3>1. queue' \in {queue, <<>>} /\ timer' \in {timer, NoTurn}
      BY <1>4 DEF Endings, StartAgain, Kill, KillEffects, RejectAll, HelloFails, ReadEof,
        OutputCloses,
        Eof, ExitSettles
    <3>. QED
      BY <3>1, EmptyQueue DEF SessionTyped
  <2>. QED
    BY <2>1, <2>2 DEF SessionTyped
<1>5. CASE Dismissals
  BY <1>5, RejectInflightSettles DEF Dismissals, Interrupt, TimerFires, Settles, SessionTyped
<1>6. ASSUME NEW t \in Turns, Enters(t) PROVE SessionTyped'
  BY <1>6 DEF Enters, SendRefused, SendStarts, Launch, SendEnters, SendStarted, session,
    SessionTyped
<1>7. ASSUME NEW t \in Turns, Prepares(t) PROVE SessionTyped'
  BY <1>7, CodexAssumption DEF Prepares, ThreadConfigured, BindingPersisted, BindingFails,
    ThreadAnswered,
    InventoryAnswered, session, SessionTyped
<1>8. ASSUME NEW t \in Turns, SendAdmits(t) PROVE SessionTyped'
  <2>1. inflight' \in Turns \cup {NoTurn} /\ timer' \in Turns \cup {NoTurn}
    BY <1>8, DispatchTurnEffect DEF SendAdmits, SessionTyped
  <2>2. queue' \in Seq(Turns)
    BY <1>8 DEF SendAdmits, SessionTyped
  <2>. QED
    BY <1>8, <2>1, <2>2 DEF SendAdmits, SessionTyped
<1>9. ASSUME NEW t \in Turns, RegistrationDone(t) \/ RegistrationFails(t) \/ TurnResolves(t)
      PROVE SessionTyped'
  <2>1. UNCHANGED <<admitted, seen, open, hello, exitw>>
    BY <1>9 DEF RegistrationDone, RegistrationFails, TurnResolves
  <2>2. /\ queue' \in Seq(Turns) /\ inflight' \in Turns \cup {NoTurn} /\ timer' \in Turns \cup {NoTurn}
    <3>1. CASE ProcessNextTurn(t, timer) \/ ProcessNextTurn(t, NoTurn)
      BY <3>1, ProcessNextTurnLeaves, QueueHead DEF SessionTyped, Leaves, Dispatches, Goes
    <3>2. CASE WriteTurn(t, timer) /\ UNCHANGED <<inflight, queue>>
      BY <3>2 DEF WriteTurn, SessionTyped
    <3>3. CASE UNCHANGED <<inflight, queue, timer>>
      BY <3>3 DEF SessionTyped
    <3>. QED
      BY <1>9, <3>1, <3>2, <3>3 DEF RegistrationDone, RegistrationFails, TurnResolves
  <2>. QED
    BY <2>1, <2>2 DEF SessionTyped
<1>10. ASSUME NEW t \in Turns, StartTurn(t) PROVE SessionTyped'
  BY <1>10 DEF StartTurn, SessionTyped
<1>11. ASSUME NEW t \in Turns, TurnFails(t) PROVE SessionTyped'
  BY <1>11, RejectInflightSettles DEF TurnFails, FailTurn, Settles, SessionTyped
<1>16. ASSUME NEW t \in Turns, ThreadGone(t) PROVE SessionTyped'
  BY <1>1, <1>16 DEF ThreadGone
<1>12. ASSUME NEW t \in Turns, NEW a \in {"turn", "error", "malformed"}, ReadTurnAnswer(t, a)
       PROVE  SessionTyped'
  BY <1>1, <1>12 DEF ReadTurnAnswer
<1>13. ASSUME NEW i \in Ids, ReadStarted(i)
       PROVE  SessionTyped'
  BY <1>13 DEF ReadStarted, ReleaseNoSend, SessionTyped
<1>14. ASSUME NEW i \in Ids, ReadCompleted(i)
       PROVE  SessionTyped'
  BY <1>14 DEF ReadCompleted, ReleaseNoSend, SessionTyped
<1>. QED
  BY <1>2, <1>3, <1>4, <1>5, <1>6, <1>7, <1>8, <1>9, <1>10, <1>11, <1>12, <1>13, <1>14,
    <1>15, <1>16, NextCases DEF Sends

LEMMA CallsTypedStep == ASSUME TypeOK, [Next]_vars PROVE CallsTyped'
<1>. /\ SessionTyped /\ CallsTyped /\ AttemptTyped
  BY DEF TypeOK
<1>1. CASE UNCHANGED calls
  BY <1>1 DEF calls, CallsTyped
<1>2. CASE Outside \/ ToolLines \/ Dismissals \/ UNCHANGED vars
  <2>. UNCHANGED calls
    BY <1>2 DEF vars, Outside, ToolLines, Dismissals, Start, HelloAnswered, ExitNoticed,
      RuntimeTakes, ServerExits,
      RuntimeStarts, RuntimeEnds, ReadToolStarted, ReadToolCompleted, Interrupt, TimerFires
  <2>. QED
    BY <1>1
<1>3. ASSUME NEW t \in Turns, Enters(t) \/ Prepares(t) \/ Sends(t)
      PROVE  CallsTyped'
  <2>. UNCHANGED calls
    BY <1>3 DEF Enters, Prepares, Sends, SendRefused, SendStarts, SendEnters, SendStarted,
      ThreadConfigured,
      BindingPersisted, BindingFails, ThreadAnswered, InventoryAnswered, SendAdmits,
      RegistrationDone,
      RegistrationFails, StartTurn, ThreadGone, TurnResolves, TurnFails, FailTurn, ReadTurnAnswer
  <2>. QED
    BY <1>1
<1>4. ASSUME NEW i \in Ids, ReadStarted(i) \/ ReadCompleted(i)
      PROVE  CallsTyped'
  BY <1>1, <1>4 DEF ReadStarted, ReadCompleted
<1>5. CASE Endings
  <2>1. said' = said
    BY <1>5 DEF Endings, StartAgain, Kill, HelloFails, ReadEof, OutputCloses, Eof, ExitSettles
  <2>2. ask' \in [Asks -> {"none", "deciding", "accepted", "declined", "refused", "withdrawn", "dropped"}]
    BY <1>5 DEF Endings, StartAgain, Kill, KillEffects, WithdrawRequests, HelloFails, ReadEof,
      OutputCloses, Eof, ExitSettles, CallsTyped
  <2>3. /\ steer' \in [st : {"none", "asked", "steered", "ignored", "unknown"}, of : Maybe,
                       threw : BOOLEAN]
        /\ stop' \in [st : {"none", "asked", "polling", "acknowledged", "unacknowledged"},
                      of : Maybe]
    BY <1>5 DEF Endings, StartAgain, Kill, KillEffects, RejectPending, HelloFails, ReadEof,
      OutputCloses, Eof, ExitSettles, CallsTyped
  <2>. QED
    BY <2>1, <2>2, <2>3 DEF CallsTyped
<1>6. CASE Push \/ InterruptNative
  <2>1. inflight \in Turns => turnId[inflight] \in Maybe /\ inflight \in Maybe
    BY DEF AttemptTyped, Maybe, Ids
  <2>2. NoTurn \in Maybe /\ (Steerable => inflight \in Turns)
    BY DEF Maybe, Steerable, SessionTyped
  <2>3. CASE Push
    <3>1. UNCHANGED <<ask, stop, said>>
      BY <2>3 DEF Push
    <3>2. \E st \in {"ignored", "asked", "unknown"}, m \in Maybe, b \in BOOLEAN :
            steer' = [st |-> st, of |-> m, threw |-> b]
      BY <2>1, <2>2, <2>3 DEF Push
    <3>3. steer' \in [st : {"none", "asked", "steered", "ignored", "unknown"}, of : Maybe,
                      threw : BOOLEAN]
      BY <3>2
    <3>. QED
      BY <3>1, <3>3 DEF CallsTyped
  <2>4. CASE InterruptNative
    BY <2>1, <2>2, <2>4 DEF InterruptNative, CallsTyped
  <2>. QED
    BY <1>6, <2>3, <2>4
<1>7. CASE SteerAnswered \/ SteerTimesOut \/ StopAnswered \/ StopTimesOut \/ StopReturns
  BY <1>7 DEF SteerAnswered, SteerTimesOut, StopAnswered, StopTimesOut, StopReturns, CallsTyped
<1>8. ASSUME NEW r \in Asks, RuntimeAsks(r) PROVE CallsTyped'
  BY <1>8 DEF RuntimeAsks, Decided, CallsTyped
<1>10. CASE GivesUp
  BY <1>10, GivesUpEffect DEF CallsTyped
<1>9. ASSUME NEW r \in Asks, NEW v \in {"allow", "deny"}, GateDecides(r, v) PROVE CallsTyped'
  BY <1>9 DEF GateDecides, Decided, CallsTyped
<1>. QED
  BY <1>2, <1>3, <1>4, <1>5, <1>6, <1>7, <1>8, <1>9, <1>10, NextCases DEF Asides

LEMMA ServerTypedStep == ASSUME TypeOK, [Next]_vars PROVE ServerTyped'
<1>. /\ ServerTyped /\ SessionTyped /\ AttemptTyped
  BY DEF TypeOK
<1>1. CASE UNCHANGED <<items, runtime>>
  BY <1>1 DEF items, runtime, ServerTyped
<1>2. CASE Asides \/ Dismissals \/ GivesUp \/ UNCHANGED vars
  <2>. UNCHANGED <<items, runtime>>
    BY <1>2, GivesUpEffect DEF vars, Asides, Dismissals, Push, InterruptNative, SteerAnswered,
      SteerTimesOut,
      StopAnswered, StopTimesOut, StopReturns, RuntimeAsks, GateDecides,
      Interrupt,
      TimerFires
  <2>. QED
    BY <1>1
<1>3. CASE Outside
  BY <1>3 DEF Outside, Start, Launch, HelloAnswered, ExitNoticed, RuntimeTakes, ServerExits,
      RuntimeStarts, RuntimeEnds, items, runtime, ServerTyped
<1>4. CASE ToolLines
  <2>. PICK i \in Ids : ReadToolStarted(i) \/ ReadToolCompleted(i)
    BY <1>4 DEF ToolLines
  <2>1. inflight \in Turns /\ UNCHANGED runtime /\ tool' \in {"none", "open", "completed"}
    BY DEF ReadToolStarted, ReadToolCompleted, Owned, SessionTyped
  <2>2. tools' \in [Turns -> [uses : Nat, results : Nat]]
    BY <2>1 DEF ReadToolStarted, ReadToolCompleted, ServerTyped
  <2>. QED
    BY <2>1, <2>2 DEF ServerTyped, runtime
<1>5. CASE Endings
  BY <1>5 DEF Endings, StartAgain, Kill, HelloFails, ReadEof, OutputCloses, Eof, ExitSettles,
    items, runtime, ServerTyped
<1>6. ASSUME NEW t \in Turns, Enters(t) \/ Prepares(t) PROVE ServerTyped'
  BY <1>6 DEF Enters, Prepares, SendRefused, SendStarts, Launch, SendEnters, SendStarted,
    ThreadConfigured,
      BindingPersisted, BindingFails, ThreadAnswered, InventoryAnswered, items, runtime, ServerTyped
<1>7. ASSUME NEW t \in Turns, Sends(t) PROVE ServerTyped'
  <2>1. CASE UNCHANGED <<items, runtime>>
    BY <1>1, <2>1
  <2>2. CASE StartTurn(t)
    BY <2>2 DEF StartTurn, ServerTyped
  <2>3. ASSUME NEW a \in {"turn", "error", "malformed"}, ReadTurnAnswer(t, a) PROVE ServerTyped'
    BY <2>3 DEF ReadTurnAnswer, items, ServerTyped
  <2>. QED
    BY <1>7, <2>1, <2>2, <2>3 DEF Sends, SendAdmits, RegistrationDone, RegistrationFails,
      ThreadGone, TurnResolves, TurnFails, FailTurn
<1>8. ASSUME NEW i \in Ids, ReadStarted(i) \/ ReadCompleted(i)
      PROVE  ServerTyped'
  BY <1>8 DEF ReadStarted, ReadCompleted, items, ServerTyped
<1>. QED
  BY <1>2, <1>3, <1>4, <1>5, <1>6, <1>7, <1>8, NextCases

LEMMA TypeStep == ASSUME TypeOK, [Next]_vars PROVE TypeOK'
BY AttemptTypedStep, SessionTypedStep, CallsTypedStep, ServerTypedStep DEF TypeOK

----------------------------------------------------------------------------
(* The inductive invariant                                                  *)

Fresh    == {"idle", "starting", "hooks"}
Early    == Fresh \cup {"queued", "registering"}
Prepared == {"thread", "bound", "gone", "binding", "mcp", "ready"}
Sending  == Prepared \cup {"started", "awaiting", "failed"}

\* _sendTurn goes on only for the turn in flight, but to find that it was not written.
PhaseOwned == \A t \in Turns : phase[t] \in Sending => inflight = t

\* Work whose outcome is unknown is that of the turn in flight.
OwnerHolds == \A t \in Turns : Unresolved(t) => inflight = t

\* What is queued waits, is waited for, and is queued once, behind a turn whose
\* caller waits.
QueueWaits ==
    /\ inflight # NoTurn /\ local[inflight] # "pending" => queue = <<>>
    /\ \A k \in 1..Len(queue) : phase[queue[k]] = "queued" /\ local[queue[k]] = "pending"
    /\ \A j, k \in 1..Len(queue) : queue[j] = queue[k] => j = k

\* What the place where a send stands says of its evidence.
Knows(t) ==
    /\ phase[t] \in Fresh => local[t] = "none"
    /\ phase[t] \in Early \cup {"unsent"} => disp[t] = "not-dispatched"
    /\ phase[t] \in Sending => disp[t] = "attempted"
    /\ phase[t] \in Early \cup Prepared \cup {"unsent"} => rpc[t] = "none"
    /\ phase[t] = "awaiting" => rpc[t] = "resolved"
    /\ settled[t] => phase[t] = "end"
    /\ local[t] = "resolved" => phase[t] = "end" /\ native[t] # "unknown" /\ rpc[t] = "resolved"
PhaseKnows == \A t \in Turns : Knows(t)

\* Before turn/start is written the server knows nothing of a turn, and no line
\* is taken for it.
NoTools == [uses |-> 0, results |-> 0]
Unknown(t) ==
    /\ runs[t] = "none" /\ native[t] = "unknown" /\ turnId[t] = NoTurn /\ admitted # t
    /\ tools[t] = NoTools
Unasked == \A t \in Turns : IF rpc[t] = "none" THEN Unknown(t) ELSE disp[t] = "attempted"

Core == PhaseOwned /\ OwnerHolds /\ QueueWaits /\ PhaseKnows /\ Unasked

core == <<local, disp, native, rpc, settled, turnId, phase, queue, admitted, tools>>

\* Giving up a turn that was never written takes nothing from its owner.
LEMMA KeptOwns ==
    ASSUME TypeOK, Core, UNCHANGED <<local, disp, native, phase, queue>>, Kept
    PROVE  PhaseOwned' /\ OwnerHolds' /\ QueueWaits'
<1>1. CASE inflight' = inflight
  BY <1>1 DEF Core, PhaseOwned, OwnerHolds, Unresolved, QueueWaits
<1>2. CASE inflight' = NoTurn /\ NoSend
  <2>1. inflight \in Turns /\ disp[inflight] = "not-dispatched"
    BY <1>2 DEF NoSend, TypeOK, SessionTyped
  <2>2. PhaseOwned'
    BY <1>2, <2>1 DEF Core, PhaseOwned, PhaseKnows, Knows
  <2>3. OwnerHolds'
    BY <1>2, <2>1 DEF Core, OwnerHolds, Unresolved
  <2>4. QueueWaits'
    BY <1>2 DEF Core, QueueWaits
  <2>. QED
    BY <2>2, <2>3, <2>4
<1>. QED
  BY <1>1, <1>2 DEF Kept

\* Steps that leave the turns alone, and start nothing the session asked for.
LEMMA CoreQuiet ==
    ASSUME TypeOK, Core, UNCHANGED core, Kept, \A t \in Turns : runs[t] = "none" => runs'[t] = "none"
    PROVE  Core'
<1>. USE DEF Core, core
<1>1. PhaseOwned' /\ OwnerHolds' /\ QueueWaits'
  BY KeptOwns
<1>2. PhaseKnows'
  BY DEF PhaseKnows, Knows
<1>3. Unasked'
  BY DEF Unasked, Unknown
<1>. QED
  BY <1>1, <1>2, <1>3

\* What a failure of the session, or of its first request, does to the turns.
Tells ==
    /\ UNCHANGED <<disp, native, rpc, settled, turnId, inflight, admitted, tools, runs>>
    /\ \A t \in Turns :
         \/ phase'[t] = phase[t]
         \/ phase[t] \in Requesting /\ phase'[t] = "failed"
         \/ phase[t] = "starting" /\ phase'[t] = "end"
    /\ \A t \in Turns :
         \/ local'[t] = local[t]
         \/ local[t] = "pending" /\ local'[t] = "rejected"
         \/ phase[t] = "starting" /\ phase'[t] = "end" /\ local'[t] = "rejected"
    /\ \/ queue' = <<>>
       \/ queue' = queue /\ \A t \in Turns : local[t] = "pending" => local'[t] = "pending"

LEMMA EndingsTell ==
    ASSUME TypeOK, Core, Endings \/ Dismissals
    PROVE  Tells
<1>. AttemptTyped /\ SessionTyped
  BY DEF TypeOK
<1>1. CASE Dismissals
  <2>1. Settles
    BY <1>1, RejectInflightSettles DEF Dismissals, Interrupt, TimerFires
  <2>. QED
    BY <1>1, <2>1 DEF Dismissals, Interrupt, TimerFires, items, runtime, Settles, Tells
<1>2. CASE HelloFails
  <2>1. UNCHANGED <<disp, native, rpc, settled, turnId, inflight, admitted, tools, runs>>
    BY <1>2 DEF HelloFails, items, runtime
  <2>2. \A t \in Turns :
         \/ phase'[t] = phase[t]
         \/ phase[t] \in Requesting /\ phase'[t] = "failed"
         \/ phase[t] = "starting" /\ phase'[t] = "end"
    BY <1>2 DEF HelloFails
  <2>3. \A t \in Turns : phase[t] = "starting" => phase'[t] = "end"
    BY <1>2 DEF HelloFails
  <2>4. CASE open.proc
    BY <1>2, <2>1, <2>2, <2>3, <2>4, ToldSettles DEF HelloFails, Tells
  <2>5. CASE ~open.proc
    <3>1. /\ queue' = queue
          /\ \A t \in Turns : local'[t] = IF phase[t] = "starting" THEN "rejected" ELSE local[t]
      BY <1>2, <2>5 DEF HelloFails
    <3>2. \A t \in Turns : phase[t] = "starting" => local[t] # "pending"
      BY DEF Core, PhaseKnows, Knows, Fresh
    <3>. QED
      BY <2>1, <2>2, <2>3, <3>1, <3>2 DEF Tells
  <2>. QED
    BY <2>4, <2>5
<1>3. CASE Endings /\ RejectAll /\ RejectPending
  <2>1. Settles /\ Fails /\ queue' = <<>>
    BY <1>3, RejectAllSettles, RejectPendingFails
  <2>. QED
    BY <1>2, <1>3, <2>1 DEF Endings, StartAgain, Kill, ReadEof, OutputCloses, Eof, ExitSettles,
       items, runtime, Settles, Fails, Tells
<1>4. CASE Endings /\ UNCHANGED <<local, queue, phase>>
  BY <1>2, <1>4 DEF Endings, StartAgain, Kill, ReadEof, OutputCloses, Eof, ExitSettles,
    items, runtime, Tells
<1>. QED
  BY <1>1, <1>2, <1>3, <1>4 DEF Endings, StartAgain, Kill, KillEffects, ReadEof, OutputCloses,
    Eof, ExitSettles

LEMMA TellsCore ==
    ASSUME TypeOK, Core, Tells
    PROVE  Core'
<1>. USE DEF Core, Tells
<1>1. PhaseOwned'
  BY DEF PhaseOwned, Sending, Prepared, Requesting
<1>2. OwnerHolds'
  BY DEF OwnerHolds, Unresolved
<1>3. QueueWaits'
  <2>1. CASE queue' = <<>>
    BY <2>1 DEF QueueWaits
  <2>2. CASE queue' = queue /\ \A t \in Turns : local[t] = "pending" => local'[t] = "pending"
    <3>1. \A k \in 1..Len(queue) : queue[k] \in Turns
      BY DEF TypeOK, SessionTyped
    <3>. QED
      BY <2>2, <3>1 DEF TypeOK, SessionTyped, QueueWaits, Requesting
  <2>. QED
    BY <2>1, <2>2
<1>4. PhaseKnows'
  <2>. SUFFICES ASSUME NEW t \in Turns PROVE Knows(t)'
    BY DEF PhaseKnows
  <2>1. Knows(t)
    BY DEF PhaseKnows
  <2>. QED
    BY <2>1 DEF Knows, Requesting, Fresh, Early, Prepared, Sending
<1>5. Unasked'
  BY DEF Unasked, Unknown
<1>. QED
  BY <1>1, <1>2, <1>3, <1>4, <1>5

\* A send that is not admitted yet goes on, or is refused.
EntersTurn(t) ==
    /\ UNCHANGED <<disp, native, rpc, settled, turnId, inflight, queue, admitted, tools, runs>>
    /\ phase[t] \in Fresh
    /\ \A u \in Turns : u # t => phase'[u] = phase[u] /\ local'[u] = local[u]
    /\ \/ phase'[t] \in Fresh /\ local'[t] = local[t]
       \/ phase'[t] = "end" /\ local'[t] = "rejected"

LEMMA EntersEffect ==
    ASSUME TypeOK, NEW t \in Turns, Enters(t)
    PROVE  EntersTurn(t)
<1>. AttemptTyped
  BY DEF TypeOK
<1>1. UNCHANGED <<disp, native, rpc, settled, turnId, inflight, queue, admitted, tools, runs>>
  BY DEF Enters, SendRefused, SendStarts, SendEnters, SendStarted, session, items, runtime
<1>2. /\ phase[t] \in Fresh
      /\ \E p \in {"starting", "hooks", "end"} : phase' = [phase EXCEPT ![t] = p]
      /\ \/ phase'[t] # "end" /\ local' = local
         \/ phase'[t] = "end" /\ local' = [local EXCEPT ![t] = "rejected"]
  BY DEF Enters, SendRefused, SendStarts, SendEnters, SendStarted, Fresh, AttemptTyped
<1>. QED
  BY <1>1, <1>2 DEF AttemptTyped, EntersTurn, Fresh

LEMMA EntersCore ==
    ASSUME TypeOK, Core, NEW t \in Turns, EntersTurn(t)
    PROVE  Core'
<1>. USE DEF Core, EntersTurn
<1>1. PhaseOwned'
  BY DEF PhaseOwned, Sending, Prepared, Fresh
<1>2. OwnerHolds'
  BY DEF OwnerHolds, Unresolved
<1>3. QueueWaits'
  <2>1. \A k \in 1..Len(queue) : queue[k] \in Turns /\ queue[k] # t
    BY DEF TypeOK, SessionTyped, QueueWaits, Fresh
  <2>2. local[t] = "none"
    BY DEF PhaseKnows, Knows
  <2>. QED
    BY <2>1, <2>2 DEF TypeOK, SessionTyped, QueueWaits
<1>4. PhaseKnows'
  BY DEF PhaseKnows, Knows, Fresh, Early, Prepared, Sending
<1>5. Unasked'
  BY DEF Unasked, Unknown
<1>. QED
  BY <1>1, <1>2, <1>3, <1>4, <1>5

\* _sendTurn goes from one await of the preparation to the next, or fails.
PreparesTurn(t) ==
    /\ UNCHANGED <<local, disp, native, rpc, settled, turnId, inflight, queue, admitted, tools, runs>>
    /\ phase[t] \in Prepared /\ phase'[t] \in Prepared \cup {"failed"}
    /\ \A u \in Turns : u # t => phase'[u] = phase[u]

LEMMA PreparesEffect ==
    ASSUME TypeOK, NEW t \in Turns, Prepares(t)
    PROVE  PreparesTurn(t)
<1>1. UNCHANGED <<local, disp, native, rpc, settled, turnId, inflight, queue, admitted, tools, runs>>
  BY DEF Prepares, ThreadConfigured, BindingPersisted, BindingFails, ThreadAnswered,
    InventoryAnswered,
     session, items, runtime
<1>2. /\ phase[t] \in Prepared
      /\ \E p \in Prepared \cup {"failed"} : phase' = [phase EXCEPT ![t] = p]
  BY AfterThreadPhase
  DEF Prepares, ThreadConfigured, BindingPersisted, BindingFails, ThreadAnswered, InventoryAnswered,
      Prepared
<1>. QED
  BY <1>1, <1>2 DEF TypeOK, AttemptTyped, PreparesTurn

LEMMA PreparesCore ==
    ASSUME TypeOK, Core, NEW t \in Turns, PreparesTurn(t)
    PROVE  Core'
<1>. USE DEF Core, PreparesTurn
<1>1. PhaseOwned'
  BY DEF PhaseOwned, Sending, Prepared
<1>2. OwnerHolds'
  BY DEF OwnerHolds, Unresolved
<1>3. QueueWaits'
  <2>1. \A k \in 1..Len(queue) : queue[k] \in Turns /\ queue[k] # t
    BY DEF TypeOK, SessionTyped, QueueWaits, Prepared
  <2>. QED
    BY <2>1 DEF QueueWaits
<1>4. PhaseKnows'
  BY DEF PhaseKnows, Knows, Fresh, Early, Prepared, Sending
<1>5. Unasked'
  BY DEF Unasked, Unknown
<1>. QED
  BY <1>1, <1>2, <1>3, <1>4, <1>5

----------------------------------------------------------------------------
(* Dispatch and settlement                                                  *)

\* Whoever is dispatched was never written, and nothing else is unresolved.
LEMMA SendAdmitsCore ==
    ASSUME TypeOK, Core, NEW t \in Turns, SendAdmits(t)
    PROVE  Core'
<1>. USE DEF Core
<1>. AttemptTyped /\ SessionTyped
  BY DEF TypeOK
<1>1. /\ phase[t] = "hooks" /\ disp[t] = "not-dispatched" /\ rpc[t] = "none" /\ ~settled[t]
      /\ UNCHANGED <<native, rpc, settled, turnId, admitted, tools, runs>>
  BY DEF SendAdmits, PhaseKnows, Knows, Early, Fresh, items, runtime
<1>2. \A k \in 1..Len(queue) : queue[k] \in Turns /\ queue[k] # t
  BY <1>1 DEF SessionTyped, QueueWaits
<1>3. Unasked'
  <2>1. \A u \in Turns : disp[u] = "attempted" => disp'[u] = "attempted"
    BY DispatchTurnEffect DEF SendAdmits, SessionTyped
  <2>. QED
    BY <1>1, <2>1 DEF Unasked, Unknown
<1>4. CASE /\ local' = [local EXCEPT ![t] = "rejected"] /\ phase' = [phase EXCEPT ![t] = "end"]
           /\ UNCHANGED <<inflight, queue, timer, disp>>
  <2>1. EntersTurn(t)
    BY <1>1, <1>4 DEF AttemptTyped, EntersTurn, Fresh
  <2>. QED
    BY <2>1, EntersCore
<1>5. CASE /\ local' = [local EXCEPT ![t] = "pending"] /\ inflight = NoTurn
           /\ DispatchTurn(t, timer) /\ phase' = [phase EXCEPT ![t] = DispatchPhase(t)]
           /\ UNCHANGED queue
  <2>1. Dispatches(t) /\ \A u \in Turns : u # t => phase'[u] = phase[u] /\ local'[u] = local[u]
    BY <1>5, DispatchTurnEffect, AfterThreadPhase DEF Dispatches, AttemptTyped, SessionTyped,
      DispatchPhase
  <2>2. local'[t] = "pending"
    BY <1>5 DEF AttemptTyped
  <2>3. PhaseOwned'
    BY <1>5, <2>1, CodexAssumption DEF PhaseOwned, Dispatches
  <2>4. OwnerHolds'
    BY <1>1, <1>5, <2>1, CodexAssumption DEF OwnerHolds, Unresolved, Dispatches
  <2>5. QueueWaits'
    BY <1>2, <1>5, <2>1, <2>2 DEF QueueWaits, Dispatches
  <2>6. PhaseKnows'
    BY <1>1, <2>1, <2>2 DEF PhaseKnows, Knows, Fresh, Early, Prepared, Sending, Dispatches
  <2>. QED
    BY <1>3, <2>3, <2>4, <2>5, <2>6
<1>6. CASE /\ local' = [local EXCEPT ![t] = "pending"] /\ local[inflight] = "pending"
           /\ queue' = Append(queue, t) /\ phase' = [phase EXCEPT ![t] = "queued"]
           /\ UNCHANGED <<inflight, timer, disp>>
  <2>1. /\ phase'[t] = "queued" /\ local'[t] = "pending"
        /\ \A u \in Turns : u # t => phase'[u] = phase[u] /\ local'[u] = local[u]
    BY <1>6 DEF AttemptTyped
  <2>2. PhaseOwned' /\ OwnerHolds'
    BY <1>1, <1>6, <2>1 DEF PhaseOwned, OwnerHolds, Unresolved, Sending, Prepared
  <2>3. /\ Len(queue') = Len(queue) + 1 /\ Len(queue) \in Nat /\ queue'[Len(queue) + 1] = t
        /\ \A k \in 1..Len(queue) : queue'[k] = queue[k]
    BY <1>6 DEF SessionTyped
  <2>4. QueueWaits'
    BY <1>2, <1>6, <2>1, <2>3 DEF QueueWaits, SessionTyped
  <2>5. PhaseKnows'
    BY <1>1, <1>6, <2>1 DEF PhaseKnows, Knows, Fresh, Early, Prepared, Sending
  <2>. QED
    BY <1>3, <2>2, <2>4, <2>5
<1>. QED
  BY <1>4, <1>5, <1>6 DEF SendAdmits

\* The turn in flight ends: registered for nothing, or answered.
EndsTurn(t) ==
    /\ UNCHANGED <<native, rpc, turnId, admitted, tools, runs>>
    /\ inflight = t /\ phase[t] \in {"registering", "awaiting"} /\ ~Unresolved(t)
    /\ \A u \in Turns : u # t => local'[u] = local[u] /\ settled'[u] = settled[u]
    /\ local'[t] = "resolved" => native[t] # "unknown" /\ rpc[t] = "resolved"
    /\ Leaves(t)

LEMMA EndsTurnCore ==
    ASSUME TypeOK, Core, NEW t \in Turns, EndsTurn(t)
    PROVE  Core'
<1>. USE DEF Core
<1>. /\ SessionTyped
  BY DEF TypeOK
<1>1. /\ inflight = t /\ \A u \in Turns : ~Unresolved(u)
      /\ \A k \in 1..Len(queue) : queue[k] \in Turns /\ queue[k] # t
      /\ \A u \in Turns : u # t => phase[u] \notin Sending
  BY DEF EndsTurn, PhaseOwned, OwnerHolds, SessionTyped, QueueWaits
<1>2. CASE inflight' = NoTurn /\ queue' = queue /\ disp' = disp /\ Goes(t, "end")
  <2>1. PhaseOwned' /\ OwnerHolds'
    BY <1>1, <1>2 DEF EndsTurn, Goes, PhaseOwned, OwnerHolds, Unresolved, Sending, Prepared
  <2>2. QueueWaits'
    BY <1>1, <1>2 DEF EndsTurn, Goes, QueueWaits
  <2>3. PhaseKnows'
    BY <1>2 DEF EndsTurn, Goes, PhaseKnows, Knows, Fresh, Early, Prepared, Sending
  <2>4. Unasked'
    BY <1>2 DEF EndsTurn, Unasked, Unknown
  <2>. QED
    BY <2>1, <2>2, <2>3, <2>4
<1>3. CASE /\ queue # <<>> /\ queue' = Tail(queue)
           /\ Head(queue) # t => phase'[t] = "end"
           /\ Dispatches(Head(queue))
           /\ \A u \in Turns : u \notin {t, Head(queue)} => phase'[u] = phase[u]
  <2>. PICK h \in Turns : h = Head(queue)
    BY <1>3, QueueHead
  <2>1. /\ h = queue[1] /\ h # t /\ phase[h] = "queued" /\ local[h] = "pending"
        /\ disp[h] = "not-dispatched" /\ rpc[h] = "none"
        /\ phase'[t] = "end" /\ Dispatches(h)
        /\ \A u \in Turns : u \notin {t, h} => phase'[u] = phase[u]
    BY <1>1, <1>3, QueueHead DEF QueueWaits, PhaseKnows, Knows, Early
  <2>2. PhaseOwned' /\ OwnerHolds'
    BY <1>1, <2>1 DEF EndsTurn, Dispatches, PhaseOwned, OwnerHolds, Unresolved, Sending, Prepared
  <2>3. QueueWaits'
    <3>1. /\ Len(queue') = Len(queue) - 1 /\ Len(queue) \in Nat
          /\ \A k \in 1..Len(queue') : queue'[k] = queue[k + 1]
      BY <1>3 DEF SessionTyped
    <3>2. \A k \in 1..Len(queue') :
            /\ k + 1 \in 1..Len(queue) /\ queue'[k] \in Turns \ {t, h}
            /\ phase[queue'[k]] = "queued" /\ local[queue'[k]] = "pending"
      BY <1>1, <2>1, <3>1 DEF QueueWaits
    <3>3. \A j, k \in 1..Len(queue') : queue'[j] = queue'[k] => j = k
      BY <3>1, <3>2 DEF QueueWaits
    <3>4. \A u \in Turns \ {t, h} : phase'[u] = phase[u] /\ local'[u] = local[u]
      BY <2>1 DEF EndsTurn
    <3>5. inflight' = h /\ local'[h] = "pending"
      BY <2>1 DEF EndsTurn, Dispatches
    <3>. QED
      BY <3>2, <3>3, <3>4, <3>5 DEF QueueWaits
  <2>4. PhaseKnows'
    BY <2>1 DEF EndsTurn, Dispatches, PhaseKnows, Knows, Fresh, Early, Prepared, Sending
  <2>5. Unasked'
    BY <2>1 DEF EndsTurn, Dispatches, Unasked, Unknown
  <2>. QED
    BY <2>2, <2>3, <2>4, <2>5
<1>. QED
  BY <1>2, <1>3 DEF EndsTurn, Leaves

LEMMA RegistrationCore ==
    ASSUME TypeOK, Core, NEW t \in Turns, RegistrationDone(t) \/ RegistrationFails(t)
    PROVE  Core'
<1>. USE DEF Core
<1>. /\ AttemptTyped /\ SessionTyped
  BY DEF TypeOK
<1>1. /\ phase[t] = "registering" /\ disp[t] = "not-dispatched" /\ rpc[t] = "none"
      /\ UNCHANGED <<native, rpc, settled, turnId, admitted, tools, runs>>
  BY DEF RegistrationDone, RegistrationFails, PhaseKnows, Knows, Early, items, runtime
<1>2. CASE /\ inflight = t /\ ProcessNextTurn(t, timer) /\ (local' = local \/ local' = Told({t}))
  <2>1. Leaves(t)
    BY <1>2, ProcessNextTurnLeaves DEF SessionTyped
  <2>2. \A u \in Turns : (u # t => local'[u] = local[u]) /\ local'[u] \in {local[u], "rejected"}
    BY <1>2 DEF Told, AttemptTyped
  <2>3. EndsTurn(t)
    BY <1>1, <1>2, <2>1, <2>2 DEF EndsTurn, Unresolved, PhaseKnows, Knows
  <2>. QED
    BY <2>3, EndsTurnCore
<1>3. CASE /\ inflight = t /\ WriteTurn(t, timer) /\ local' = local /\ UNCHANGED <<inflight, queue>>
           /\ phase' = [phase EXCEPT ![t] = IF open.ready THEN AfterThread ELSE "thread"]
  <2>1. /\ phase'[t] \in {"thread", "mcp", "ready"} /\ disp'[t] = "attempted"
        /\ \A u \in Turns : u # t => phase'[u] = phase[u] /\ disp'[u] = disp[u]
    BY <1>3, AfterThreadPhase DEF WriteTurn, AttemptTyped
  <2>2. PhaseOwned' /\ OwnerHolds'
    BY <1>1, <1>3, <2>1 DEF PhaseOwned, OwnerHolds, Unresolved
  <2>3. QueueWaits'
    <3>1. \A k \in 1..Len(queue) : queue[k] \in Turns /\ queue[k] # t
      BY <1>1 DEF SessionTyped, QueueWaits
    <3>. QED
      BY <1>3, <2>1, <3>1 DEF QueueWaits
  <2>4. PhaseKnows'
    BY <1>1, <1>3, <2>1 DEF PhaseKnows, Knows, Fresh, Early, Prepared, Sending
  <2>5. Unasked'
    BY <1>1, <2>1 DEF Unasked, Unknown
  <2>. QED
    BY <2>2, <2>3, <2>4, <2>5
<1>4. CASE /\ inflight # t /\ phase' = [phase EXCEPT ![t] = "end"] /\ (local' = local \/ local' = Told({t}))
           /\ UNCHANGED <<disp, inflight, queue>>
  <2>1. /\ Goes(t, "end") /\ local'[t] \in {local[t], "rejected"}
        /\ \A u \in Turns : u # t => local'[u] = local[u]
    BY <1>4, GoesTo DEF Told, AttemptTyped, Phases
  <2>2. PhaseOwned' /\ OwnerHolds'
    BY <1>1, <1>4, <2>1 DEF Goes, PhaseOwned, OwnerHolds, Unresolved, Sending, Prepared
  <2>3. QueueWaits'
    <3>1. \A k \in 1..Len(queue) : queue[k] \in Turns /\ queue[k] # t
      BY <1>1 DEF SessionTyped, QueueWaits
    <3>. QED
      BY <1>4, <2>1, <3>1 DEF Goes, QueueWaits, SessionTyped
  <2>4. PhaseKnows'
    BY <1>1, <1>4, <2>1 DEF Goes, PhaseKnows, Knows, Fresh, Early, Prepared, Sending
  <2>5. Unasked'
    BY <1>1, <1>4 DEF Unasked, Unknown
  <2>. QED
    BY <2>2, <2>3, <2>4, <2>5
<1>. QED
  BY <1>2, <1>3, <1>4 DEF RegistrationDone, RegistrationFails

LEMMA TurnResolvesCore ==
    ASSUME TypeOK, Core, NEW t \in Turns, TurnResolves(t)
    PROVE  Core'
<1>. /\ AttemptTyped /\ SessionTyped
  BY DEF TypeOK
<1>1. Leaves(t)
  BY ProcessNextTurnLeaves DEF TurnResolves
<1>2. /\ UNCHANGED <<native, rpc, turnId, admitted, tools, runs>>
      /\ \A u \in Turns : u # t => local'[u] = local[u] /\ settled'[u] = settled[u]
  BY DEF TurnResolves, AttemptTyped, items, runtime
<1>3. EndsTurn(t)
  BY <1>1, <1>2 DEF EndsTurn, TurnResolves, Unresolved, Core, PhaseKnows, Knows
<1>. QED
  BY <1>3, EndsTurnCore

\* The thread is gone: the turn was never written.
LEMMA ThreadGoneEffect ==
    ASSUME TypeOK, NEW t \in Turns, ThreadGone(t)
    PROVE  /\ UNCHANGED <<local, native, rpc, settled, turnId, inflight, queue, admitted, tools, runs>>
           /\ phase[t] = "gone" /\ Goes(t, "unsent") /\ disp'[t] = "not-dispatched"
           /\ \A u \in Turns : u # t => disp'[u] = disp[u]
<1>. AttemptTyped
  BY DEF TypeOK
<1>. QED
  BY GoesTo DEF ThreadGone, session, items, runtime, Phases, AttemptTyped

LEMMA ThreadGoneCore ==
    ASSUME TypeOK, Core, NEW t \in Turns, ThreadGone(t)
    PROVE  Core'
<1>. USE DEF Core
<1>1. /\ UNCHANGED <<local, native, rpc, settled, turnId, inflight, queue, admitted, tools, runs>>
      /\ phase[t] = "gone" /\ Goes(t, "unsent") /\ disp'[t] = "not-dispatched"
      /\ \A u \in Turns : u # t => disp'[u] = disp[u]
  BY ThreadGoneEffect
<1>2. PhaseOwned' /\ OwnerHolds'
  BY <1>1 DEF Goes, PhaseOwned, OwnerHolds, Unresolved, Sending, Prepared
<1>3. QueueWaits'
  <2>1. \A k \in 1..Len(queue) : queue[k] \in Turns /\ queue[k] # t
    BY <1>1 DEF TypeOK, SessionTyped, QueueWaits
  <2>. QED
    BY <1>1, <2>1 DEF Goes, QueueWaits
<1>4. PhaseKnows'
  BY <1>1 DEF Goes, PhaseKnows, Knows, Fresh, Early, Prepared, Sending
<1>5. Unasked'
  <2>1. rpc[t] = "none"
    BY <1>1 DEF PhaseKnows, Knows, Prepared
  <2>. QED
    BY <1>1, <2>1 DEF Unasked, Unknown
<1>. QED
  BY <1>2, <1>3, <1>4, <1>5

\* A failed turn stays in flight unless its outcome is known or nothing can have run.
LEMMA TurnFailsEffect ==
    ASSUME TypeOK, Core, NEW t \in Turns, TurnFails(t)
    PROVE  /\ phase[t] \in {"failed", "unsent"} /\ Goes(t, "end")
           /\ UNCHANGED <<disp, native, turnId, admitted, tools, runs>>
           /\ \A u \in Turns : u # t => rpc'[u] = rpc[u] /\ settled'[u] = settled[u]
           /\ Settles
           /\ \/ /\ inflight # t /\ phase[t] = "unsent"
                 /\ UNCHANGED <<settled, rpc, local, queue, inflight>>
              \/ /\ inflight = t /\ rpc'[t] = IF rpc[t] = "pending" THEN "unknown" ELSE rpc[t]
                 /\ \/ inflight' = t
                    \/ inflight' = NoTurn /\ (phase[t] = "unsent" \/ native[t] # "unknown")
<1>. /\ AttemptTyped /\ SessionTyped
  BY DEF TypeOK
<1>1. phase[t] \in {"failed", "unsent"} /\ Goes(t, "end")
  BY GoesTo DEF TurnFails, FailTurn, Phases
<1>2. Settles
  BY RejectInflightSettles DEF TurnFails, FailTurn, Settles, AttemptTyped, SessionTyped, LocalOutcomes
<1>3. inflight # t => phase[t] = "unsent"
  BY <1>1 DEF Core, PhaseOwned, Sending
<1>. QED
  BY <1>1, <1>2, <1>3 DEF TurnFails, FailTurn, CanRelease, AttemptTyped, items, runtime

LEMMA TurnFailsCore ==
    ASSUME TypeOK, Core, NEW t \in Turns, TurnFails(t)
    PROVE  Core'
<1>. USE DEF Core
<1>. SessionTyped
  BY DEF TypeOK
<1>1. /\ phase[t] \in {"failed", "unsent"} /\ Goes(t, "end")
      /\ UNCHANGED <<disp, native, turnId, admitted, tools, runs>>
      /\ \A u \in Turns : u # t => rpc'[u] = rpc[u] /\ settled'[u] = settled[u]
      /\ Settles
      /\ \/ /\ inflight # t /\ phase[t] = "unsent"
            /\ UNCHANGED <<settled, rpc, local, queue, inflight>>
         \/ /\ inflight = t /\ rpc'[t] = IF rpc[t] = "pending" THEN "unknown" ELSE rpc[t]
            /\ \/ inflight' = t
               \/ inflight' = NoTurn /\ (phase[t] = "unsent" \/ native[t] # "unknown")
  BY TurnFailsEffect
<1>2. phase[t] = "unsent" => disp[t] = "not-dispatched"
  BY DEF PhaseKnows, Knows
<1>3. PhaseOwned' /\ OwnerHolds'
  BY <1>1, <1>2 DEF Goes, PhaseOwned, OwnerHolds, Unresolved, Sending, Prepared
<1>4. QueueWaits'
  <2>1. \A k \in 1..Len(queue) : queue[k] \in Turns /\ queue[k] # t
    BY <1>1 DEF SessionTyped, QueueWaits
  <2>2. CASE queue' = <<>>
    BY <2>2 DEF QueueWaits
  <2>3. CASE queue' = queue /\ local' = local
    BY <1>1, <2>1, <2>3 DEF Goes, QueueWaits
  <2>. QED
    BY <1>1, <2>2, <2>3 DEF Settles
<1>5. PhaseKnows'
  <2>1. local[t] # "resolved" /\ local'[t] # "resolved"
    BY <1>1 DEF PhaseKnows, Knows, Settles
  <2>. QED
    BY <1>1, <2>1 DEF Goes, Settles, PhaseKnows, Knows, Fresh, Early, Prepared, Sending
<1>6. Unasked'
  BY <1>1 DEF Unasked, Unknown, PhaseKnows, Knows, Prepared
<1>. QED
  BY <1>3, <1>4, <1>5, <1>6

----------------------------------------------------------------------------
(* turn/start, its answer and its notifications                             *)

LEMMA StartTurnEffect ==
    ASSUME TypeOK, Core, NEW t \in Turns, StartTurn(t)
    PROVE  /\ UNCHANGED <<local, disp, native, settled, turnId, inflight, queue, tools>>
           /\ phase[t] = "ready" /\ phase'[t] \in {"started", "failed"}
           /\ \A u \in Turns : u # t => phase'[u] = phase[u] /\ rpc'[u] = rpc[u] /\ runs'[u] = runs[u]
           /\ runs'[Other] = runs[Other]
           /\ \/ /\ admitted' = t /\ rpc'[t] = "pending" /\ runs'[t] \in {runs[t], "asked"}
                 /\ tool' = "none" /\ Admissible(t)
              \/ /\ admitted' = admitted /\ rpc' = rpc /\ runs' = runs /\ tool' = tool
                 /\ phase'[t] = "failed"
BY CodexAssumption DEF StartTurn, TypeOK, AttemptTyped, ServerTyped, Ids

LEMMA StartTurnCore ==
    ASSUME TypeOK, Core, NEW t \in Turns, StartTurn(t)
    PROVE  Core'
<1>. USE DEF Core
<1>1. /\ UNCHANGED <<local, disp, native, settled, turnId, inflight, queue, tools>>
      /\ phase[t] = "ready" /\ phase'[t] \in {"started", "failed"}
      /\ \A u \in Turns : u # t => phase'[u] = phase[u] /\ rpc'[u] = rpc[u] /\ runs'[u] = runs[u]
      /\ \/ admitted' = t /\ rpc'[t] = "pending"
         \/ admitted' = admitted /\ rpc' = rpc /\ runs' = runs /\ phase'[t] = "failed"
  BY StartTurnEffect
<1>2. PhaseOwned' /\ OwnerHolds'
  BY <1>1 DEF PhaseOwned, OwnerHolds, Unresolved, Sending, Prepared
<1>3. QueueWaits'
  <2>1. \A k \in 1..Len(queue) : queue[k] \in Turns /\ queue[k] # t
    BY <1>1 DEF TypeOK, SessionTyped, QueueWaits
  <2>. QED
    BY <1>1, <2>1 DEF QueueWaits
<1>4. PhaseKnows'
  BY <1>1 DEF PhaseKnows, Knows, Fresh, Early, Prepared, Sending
<1>5. Unasked'
  <2>1. disp[t] = "attempted" /\ rpc[t] = "none"
    BY <1>1 DEF PhaseKnows, Knows, Sending, Prepared
  <2>. QED
    BY <1>1, <2>1 DEF Unasked, Unknown
<1>. QED
  BY <1>2, <1>3, <1>4, <1>5

LEMMA ReadTurnAnswerEffect ==
    ASSUME TypeOK, NEW t \in Turns, NEW a \in {"turn", "error", "malformed"}, ReadTurnAnswer(t, a)
    PROVE  /\ UNCHANGED <<local, disp, native, settled, inflight, queue, admitted, tools, seen, tool>>
           /\ phase[t] = "started" /\ rpc'[t] \in {"failed", "resolved"}
           /\ \/ phase'[t] = "awaiting" /\ rpc'[t] = "resolved" /\ turnId'[t] = t
              \/ phase'[t] = "failed" /\ turnId' = turnId
           /\ turnId[t] \in {NoTurn, turnId'[t]}
           /\ \A u \in Turns : u # t => /\ phase'[u] = phase[u] /\ rpc'[u] = rpc[u]
                                        /\ turnId'[u] = turnId[u] /\ runs'[u] = runs[u]
           /\ runs'[Other] = runs[Other]
           /\ runs'[t] = runs[t] \/ (runs[t] = "asked" /\ runs'[t] = "none")
BY CodexAssumption
DEF ReadTurnAnswer, TypeOK, AttemptTyped, ServerTyped, Ids, session, items

LEMMA ReadTurnAnswerCore ==
    ASSUME TypeOK, Core, NEW t \in Turns, NEW a \in {"turn", "error", "malformed"}, ReadTurnAnswer(t, a)
    PROVE  Core'
<1>. USE DEF Core
<1>1. /\ UNCHANGED <<local, disp, native, settled, inflight, queue, admitted, tools>>
      /\ phase[t] = "started" /\ rpc'[t] \in {"failed", "resolved"}
      /\ \/ phase'[t] = "awaiting" /\ rpc'[t] = "resolved" /\ turnId'[t] = t
         \/ phase'[t] = "failed" /\ turnId' = turnId
      /\ \A u \in Turns : u # t => /\ phase'[u] = phase[u] /\ rpc'[u] = rpc[u]
                                   /\ turnId'[u] = turnId[u] /\ runs'[u] = runs[u]
  BY ReadTurnAnswerEffect
<1>2. PhaseOwned' /\ OwnerHolds'
  BY <1>1 DEF PhaseOwned, OwnerHolds, Unresolved, Sending, Prepared
<1>3. QueueWaits'
  <2>1. \A k \in 1..Len(queue) : queue[k] \in Turns /\ queue[k] # t
    BY <1>1 DEF TypeOK, SessionTyped, QueueWaits
  <2>. QED
    BY <1>1, <2>1 DEF QueueWaits
<1>4. PhaseKnows'
  BY <1>1 DEF PhaseKnows, Knows, Fresh, Early, Prepared, Sending
<1>5. Unasked'
  <2>1. disp[t] = "attempted"
    BY <1>1 DEF PhaseKnows, Knows, Sending, Prepared
  <2>. QED
    BY <1>1, <2>1 DEF Unasked, Unknown
<1>. QED
  BY <1>2, <1>3, <1>4, <1>5

\* The turn in flight is named by the first line of its thread.
LEMMA ReadStartedEffect ==
    ASSUME TypeOK, NEW i \in Ids, ReadStarted(i)
    PROVE  /\ UNCHANGED <<local, disp, native, rpc, settled, phase, queue, admitted, tools, runs,
                          seen, tool>>
           /\ Kept
           /\ runs[i] \notin {"none", "asked"}
           /\ \A u \in Turns : \/ turnId'[u] = turnId[u]
                               \/ /\ u = inflight /\ admitted = u /\ i \notin seen /\ turnId'[u] = i
                                  /\ turnId[u] = NoTurn
BY DEF ReadStarted, ReleaseNoSend, Kept, TypeOK, AttemptTyped, items

LEMMA ReadStartedCore ==
    ASSUME TypeOK, Core, NEW i \in Ids, ReadStarted(i)
    PROVE  Core'
<1>. USE DEF Core
<1>1. /\ UNCHANGED <<local, disp, native, rpc, settled, phase, queue, admitted, tools, runs>> /\ Kept
      /\ \A u \in Turns : turnId'[u] = turnId[u] \/ admitted = u
  BY ReadStartedEffect
<1>2. PhaseOwned' /\ OwnerHolds' /\ QueueWaits'
  BY <1>1, KeptOwns
<1>3. PhaseKnows'
  BY <1>1 DEF PhaseKnows, Knows
<1>4. Unasked'
  BY <1>1 DEF Unasked, Unknown
<1>. QED
  BY <1>2, <1>3, <1>4

\* A terminal is recorded for the turn in flight, which was asked for.
LEMMA ReadCompletedEffect ==
    ASSUME TypeOK, Core, NEW i \in Ids, ReadCompleted(i)
    PROVE  /\ UNCHANGED <<local, disp, rpc, settled, turnId, phase, queue, admitted, tools, runs, tool>>
           /\ \/ UNCHANGED <<native, seen>> /\ Kept
              \/ /\ inflight \in Turns /\ rpc[inflight] # "none" /\ turnId[inflight] = i
                 /\ i \notin seen /\ seen' = seen \cup {i}
                 /\ runs[i] \in {"completed", "failed"} /\ native'[inflight] = runs[i]
                 /\ \A u \in Turns : u # inflight => native'[u] = native[u]
                 /\ inflight' = inflight \/ (inflight' = NoTurn /\ settled[inflight])
<1>1. UNCHANGED <<local, disp, rpc, settled, turnId, phase, queue, admitted, tools, runs, tool>>
  BY DEF ReadCompleted, items
<1>2. CASE Owned(i)
  <2>1. inflight \in Turns /\ rpc[inflight] # "none" /\ turnId[inflight] = i /\ i \notin seen
    BY <1>2 DEF Owned, Core, Unasked, Unknown, TypeOK, SessionTyped
  <2>2. /\ native' = [native EXCEPT ![inflight] = runs[i]] /\ seen' = seen \cup {i}
        /\ runs[i] \in {"completed", "failed"}
        /\ inflight' = inflight \/ (inflight' = NoTurn /\ settled[inflight])
    BY <1>2 DEF ReadCompleted, Recorded, CanRelease
  <2>. QED
    BY <1>1, <2>1, <2>2 DEF TypeOK, AttemptTyped
<1>3. CASE ~Owned(i)
  BY <1>1, <1>3 DEF ReadCompleted, ReleaseNoSend, Kept
<1>. QED
  BY <1>2, <1>3

LEMMA ReadCompletedCore ==
    ASSUME TypeOK, Core, NEW i \in Ids, ReadCompleted(i)
    PROVE  Core'
<1>. USE DEF Core
<1>1. UNCHANGED <<local, disp, rpc, settled, turnId, phase, queue, admitted, tools, runs>>
  BY ReadCompletedEffect
<1>2. CASE UNCHANGED native /\ Kept
  BY <1>1, <1>2, CoreQuiet DEF core
<1>3. CASE /\ inflight \in Turns /\ rpc[inflight] # "none"
           /\ native'[inflight] # "unknown"
           /\ \A u \in Turns : u # inflight => native'[u] = native[u]
           /\ inflight' = inflight \/ (inflight' = NoTurn /\ settled[inflight])
  <2>1. PhaseOwned'
    BY <1>1, <1>3 DEF PhaseOwned, PhaseKnows, Knows, Sending, Prepared
  <2>2. OwnerHolds'
    BY <1>1, <1>3 DEF OwnerHolds, Unresolved
  <2>3. QueueWaits'
    BY <1>1, <1>3 DEF QueueWaits
  <2>4. PhaseKnows'
    BY <1>1, <1>3 DEF PhaseKnows, Knows
  <2>5. Unasked'
    BY <1>1, <1>3 DEF Unasked, Unknown
  <2>. QED
    BY <2>1, <2>2, <2>3, <2>4, <2>5
<1>. QED
  BY <1>2, <1>3, ReadCompletedEffect

LEMMA ToolLinesEffect ==
    ASSUME TypeOK, Core, ToolLines
    PROVE  /\ UNCHANGED <<attempt, session, calls, runtime>>
           /\ inflight \in Turns /\ admitted = inflight /\ rpc[inflight] # "none"
           /\ \A u \in Turns : u # inflight => tools'[u] = tools[u]
           /\ \/ /\ tool = "none" /\ tool' = "open"
                 /\ tools'[inflight] = [tools[inflight] EXCEPT !.uses = @ + 1]
              \/ /\ tool = "open" /\ tool' = "completed"
                 /\ tools'[inflight] = [tools[inflight] EXCEPT !.results = @ + 1]
<1>. PICK i \in Ids : ReadToolStarted(i) \/ ReadToolCompleted(i)
  BY DEF ToolLines
<1>1. inflight \in Turns /\ admitted = inflight /\ rpc[inflight] # "none"
  BY DEF ReadToolStarted, ReadToolCompleted, Owned, Core, Unasked, Unknown, TypeOK, SessionTyped
<1>. QED
  BY <1>1 DEF ReadToolStarted, ReadToolCompleted, TypeOK, ServerTyped

LEMMA ToolLinesCore ==
    ASSUME TypeOK, Core, ToolLines
    PROVE  Core'
<1>. USE DEF Core
<1>1. /\ UNCHANGED <<attempt, session, runtime>> /\ rpc[inflight] # "none"
      /\ \A u \in Turns : u # inflight => tools'[u] = tools[u]
  BY ToolLinesEffect
<1>2. PhaseOwned' /\ OwnerHolds' /\ QueueWaits' /\ PhaseKnows'
  BY <1>1 DEF attempt, session, PhaseOwned, OwnerHolds, Unresolved, QueueWaits, PhaseKnows, Knows
<1>3. Unasked'
  BY <1>1 DEF attempt, session, runtime, Unasked, Unknown
<1>. QED
  BY <1>2, <1>3

LEMMA CoreStep == ASSUME TypeOK, Core, [Next]_vars PROVE Core'
<1>1. CASE Outside \/ Asides \/ UNCHANGED vars
  <2>1. UNCHANGED <<attempt, inflight, queue, admitted, tools>>
    BY <1>1 DEF vars, attempt, session, items, Outside, Asides, Start, HelloAnswered, ExitNoticed,
      RuntimeTakes,
      ServerExits, RuntimeStarts, RuntimeEnds, Push, InterruptNative, SteerAnswered, SteerTimesOut,
      StopAnswered, StopTimesOut, StopReturns, RuntimeAsks, GateDecides
  <2>2. \A t \in Turns : runs[t] = "none" => runs'[t] = "none"
    BY <1>1, CodexAssumption DEF vars, runtime, Outside, Asides, Start, HelloAnswered,
      ExitNoticed, RuntimeTakes,
      ServerExits, RuntimeStarts, RuntimeEnds, Push, InterruptNative, SteerAnswered, SteerTimesOut,
      StopAnswered, StopTimesOut, StopReturns, RuntimeAsks, GateDecides, TypeOK,
      ServerTyped, Ids
  <2>. QED
    BY <2>1, <2>2, CoreQuiet DEF core, attempt, Kept
<1>7. CASE GivesUp
  BY <1>7, GivesUpEffect, CoreQuiet DEF core, attempt, items, runtime
<1>2. CASE Endings \/ Dismissals
  BY <1>2, EndingsTell, TellsCore
<1>3. CASE ToolLines
  BY <1>3, ToolLinesCore
<1>4. ASSUME NEW t \in Turns, Enters(t) \/ Prepares(t) PROVE Core'
  BY <1>4, EntersEffect, EntersCore, PreparesEffect, PreparesCore
<1>5. ASSUME NEW t \in Turns, Sends(t) PROVE Core'
  BY <1>5, SendAdmitsCore, RegistrationCore, StartTurnCore, TurnResolvesCore, TurnFailsCore,
     ThreadGoneCore, ReadTurnAnswerCore DEF Sends
<1>6. ASSUME NEW i \in Ids, ReadStarted(i) \/ ReadCompleted(i) PROVE Core'
  BY <1>6, ReadStartedCore, ReadCompletedCore
<1>. QED
  BY <1>1, <1>2, <1>3, <1>4, <1>5, <1>6, <1>7, NextCases

----------------------------------------------------------------------------
(* The session implements TurnOwnership                                     *)

LocalMoves ==
    \A t \in Turns :
        \/ local'[t] = local[t]
        \/ local[t] = "none" /\ local'[t] \in {"pending", "rejected"}
        \/ local[t] = "pending" /\ local'[t] = "rejected"
        \/ local[t] = "pending" /\ local'[t] = "resolved" /\ native'[t] # "unknown"

DispatchMoves ==
    \A t \in Turns :
        \/ disp'[t] = disp[t]
        \/ disp[t] = "attempted" /\ disp'[t] = "not-dispatched" /\ native[t] = "unknown"
        \/ /\ disp[t] = "not-dispatched" /\ disp'[t] = "attempted"
           /\ local[t] \in {"none", "pending"} /\ native[t] = "unknown"

NativeMoves ==
    \A t \in Turns :
        native'[t] = native[t] \/ (Unresolved(t) /\ native'[t] \in {"completed", "failed"})

LEMMA LocalMovesStep ==
    ASSUME TypeOK, Core, [Next]_vars
    PROVE  LocalMoves
<1>. AttemptTyped /\ SessionTyped /\ PhaseKnows
  BY DEF TypeOK, Core
<1>1. CASE UNCHANGED local
  BY <1>1 DEF LocalMoves
<1>2. CASE Outside \/ Asides \/ GivesUp \/ UNCHANGED vars
  BY <1>1, <1>2, GivesUpEffect DEF vars, attempt, Outside, Asides, Start, HelloAnswered, ExitNoticed, RuntimeTakes,
    ServerExits, RuntimeStarts, RuntimeEnds, Push, InterruptNative, SteerAnswered, SteerTimesOut,
    StopAnswered, StopTimesOut, StopReturns, RuntimeAsks, GateDecides
<1>3. CASE Endings \/ Dismissals
  BY <1>3, EndingsTell DEF Tells, LocalMoves, PhaseKnows, Knows, Fresh
<1>4. CASE ToolLines
  BY <1>1, <1>4, ToolLinesEffect DEF attempt
<1>5. ASSUME NEW t \in Turns, Enters(t) PROVE LocalMoves
  BY <1>5, EntersEffect DEF EntersTurn, LocalMoves, PhaseKnows, Knows
<1>6. ASSUME NEW t \in Turns, Prepares(t) PROVE LocalMoves
  BY <1>1, <1>6, PreparesEffect DEF PreparesTurn
<1>7. ASSUME NEW t \in Turns, SendAdmits(t) PROVE LocalMoves
  <2>1. local[t] = "none"
    BY <1>7 DEF SendAdmits, PhaseKnows, Knows, Fresh
  <2>. QED
    BY <1>7, <2>1 DEF SendAdmits, LocalMoves, AttemptTyped
<1>8. ASSUME NEW t \in Turns, RegistrationDone(t) \/ RegistrationFails(t) PROVE LocalMoves
  BY <1>8, ToldSettles DEF RegistrationDone, RegistrationFails, LocalMoves
<1>9. ASSUME NEW t \in Turns, TurnResolves(t) PROVE LocalMoves
  BY <1>9 DEF TurnResolves, LocalMoves, AttemptTyped
<1>10. ASSUME NEW t \in Turns, TurnFails(t) PROVE LocalMoves
  BY <1>10, TurnFailsEffect DEF Settles, LocalMoves
<1>11. ASSUME NEW t \in Turns, NEW a \in {"turn", "error", "malformed"}, ReadTurnAnswer(t, a)
       PROVE  LocalMoves
  BY <1>1, <1>11, ReadTurnAnswerEffect
<1>12. ASSUME NEW t \in Turns, StartTurn(t) \/ ThreadGone(t) PROVE LocalMoves
  BY <1>1, <1>12, StartTurnEffect, ThreadGoneEffect
<1>13. ASSUME NEW i \in Ids, ReadStarted(i) \/ ReadCompleted(i) PROVE LocalMoves
  BY <1>1, <1>13, ReadStartedEffect, ReadCompletedEffect
<1>. QED
  BY <1>2, <1>3, <1>4, <1>5, <1>6, <1>7, <1>8, <1>9, <1>10, <1>11, <1>12, <1>13, NextCases DEF Sends

LEMMA DispatchMovesStep ==
    ASSUME TypeOK, Core, [Next]_vars
    PROVE  DispatchMoves
<1>. /\ AttemptTyped /\ SessionTyped /\ PhaseKnows /\ Unasked
  BY DEF TypeOK, Core
<1>1. CASE UNCHANGED disp
  BY <1>1 DEF DispatchMoves
<1>2. CASE Outside \/ Asides \/ GivesUp \/ UNCHANGED vars
  BY <1>1, <1>2, GivesUpEffect DEF vars, attempt, Outside, Asides, Start, HelloAnswered, ExitNoticed, RuntimeTakes,
    ServerExits, RuntimeStarts, RuntimeEnds, Push, InterruptNative, SteerAnswered, SteerTimesOut,
    StopAnswered, StopTimesOut, StopReturns, RuntimeAsks, GateDecides
<1>3. CASE Endings \/ Dismissals
  BY <1>1, <1>3, EndingsTell DEF Tells
<1>4. CASE ToolLines
  BY <1>1, <1>4, ToolLinesEffect DEF attempt
<1>5. ASSUME NEW t \in Turns, Enters(t) \/ Prepares(t) PROVE DispatchMoves
  BY <1>1, <1>5, EntersEffect, PreparesEffect DEF EntersTurn, PreparesTurn
<1>6. ASSUME NEW t \in Turns, disp[t] = "not-dispatched", disp'[t] \in {disp[t], "attempted"},
             \A u \in Turns : u # t => disp'[u] = disp[u],
             local[t] \in {"none", "pending"}
      PROVE  DispatchMoves
  BY <1>6 DEF DispatchMoves, Unasked, Unknown
<1>7. ASSUME NEW t \in Turns, Leaves(t) PROVE DispatchMoves
  <2>1. CASE queue # <<>> /\ Dispatches(Head(queue))
    <3>1. /\ Head(queue) \in Turns /\ local[Head(queue)] = "pending"
          /\ phase[Head(queue)] = "queued"
      BY <2>1, QueueHead DEF Core, QueueWaits
    <3>2. disp[Head(queue)] = "not-dispatched"
      BY <3>1 DEF PhaseKnows, Knows, Early
    <3>. QED
      BY <1>6, <2>1, <3>1, <3>2 DEF Dispatches
  <2>. QED
    BY <1>1, <1>7, <2>1 DEF Leaves
<1>8. ASSUME NEW t \in Turns, SendAdmits(t) PROVE DispatchMoves
  <2>1. local[t] = "none" /\ disp[t] = "not-dispatched"
    BY <1>8 DEF SendAdmits, PhaseKnows, Knows, Fresh, Early
  <2>2. CASE DispatchTurn(t, timer)
    BY <1>6, <2>1, <2>2, DispatchTurnEffect DEF SessionTyped
  <2>. QED
    BY <1>1, <1>8, <2>2 DEF SendAdmits
<1>9. ASSUME NEW t \in Turns, RegistrationDone(t) \/ RegistrationFails(t) PROVE DispatchMoves
  <2>1. CASE ProcessNextTurn(t, timer)
    BY <1>7, <2>1, ProcessNextTurnLeaves DEF SessionTyped
  <2>3. CASE UNCHANGED disp
    BY <1>1, <2>3
  <2>2. CASE WriteTurn(t, timer) /\ local[t] = "pending"
    <3>1. disp[t] = "not-dispatched"
      BY <1>9 DEF RegistrationDone, RegistrationFails, PhaseKnows, Knows, Early
    <3>. QED
      BY <1>6, <2>2, <3>1 DEF WriteTurn, AttemptTyped
  <2>. QED
    BY <1>9, <2>1, <2>2, <2>3 DEF RegistrationDone, RegistrationFails
<1>10. ASSUME NEW t \in Turns, TurnResolves(t) PROVE DispatchMoves
  BY <1>7, <1>10, ProcessNextTurnLeaves DEF TurnResolves
<1>11. ASSUME NEW t \in Turns, ThreadGone(t) \/ TurnFails(t) PROVE DispatchMoves
  <2>1. phase[t] = "gone" => disp[t] = "attempted" /\ native[t] = "unknown"
    BY DEF PhaseKnows, Knows, Prepared, Sending, Unasked, Unknown
  <2>. QED
    BY <1>1, <1>11, <2>1, TurnFailsEffect, ThreadGoneEffect DEF DispatchMoves
<1>12. ASSUME NEW t \in Turns, NEW a \in {"turn", "error", "malformed"}, ReadTurnAnswer(t, a)
       PROVE  DispatchMoves
  BY <1>1, <1>12, ReadTurnAnswerEffect
<1>13. ASSUME NEW t \in Turns, StartTurn(t) PROVE DispatchMoves
  BY <1>1, <1>13, StartTurnEffect
<1>14. ASSUME NEW i \in Ids, ReadStarted(i) \/ ReadCompleted(i) PROVE DispatchMoves
  BY <1>1, <1>14, ReadStartedEffect, ReadCompletedEffect
<1>. QED
  BY <1>2, <1>3, <1>4, <1>5, <1>8, <1>9, <1>10, <1>11, <1>12, <1>13, <1>14, NextCases DEF Sends

\* A terminal that was recorded named the turn, and is not read again.
Heard == \A t \in Turns : native[t] # "unknown" => turnId[t] \in seen

LEMMA HeardStep ==
    ASSUME TypeOK, Core, Heard, [Next]_vars
    PROVE  Heard'
<1>. AttemptTyped /\ SessionTyped /\ NoTurn \notin Ids
  BY CodexAssumption DEF TypeOK, Ids
<1>1. CASE UNCHANGED <<turnId, native, seen>>
  BY <1>1 DEF Heard
<1>2. CASE Outside \/ Asides \/ ToolLines \/ GivesUp \/ UNCHANGED vars
  BY <1>1, <1>2, ToolLinesEffect, GivesUpEffect DEF vars, attempt, session, Outside, Asides, Start, HelloAnswered,
    ExitNoticed, RuntimeTakes, ServerExits, RuntimeStarts, RuntimeEnds, Push, InterruptNative,
    SteerAnswered, SteerTimesOut, StopAnswered, StopTimesOut, StopReturns, RuntimeAsks,
    GateDecides
<1>3. CASE Endings \/ Dismissals
  BY <1>1, <1>3 DEF Endings, Dismissals, StartAgain, Kill, HelloFails, ReadEof, OutputCloses, Eof,
    ExitSettles, Interrupt, TimerFires
<1>4. ASSUME NEW t \in Turns, Enters(t) \/ Prepares(t) PROVE Heard'
  BY <1>1, <1>4 DEF Enters, Prepares, SendRefused, SendStarts, SendEnters, SendStarted,
    ThreadConfigured, BindingPersisted, BindingFails, ThreadAnswered, InventoryAnswered, session
<1>5. ASSUME NEW t \in Turns, NEW a \in {"turn", "error", "malformed"}, ReadTurnAnswer(t, a)
      PROVE  Heard'
  BY <1>5, ReadTurnAnswerEffect DEF Heard, SessionTyped
<1>6. ASSUME NEW t \in Turns, Sends(t) PROVE Heard'
  BY <1>1, <1>5, <1>6 DEF Sends, SendAdmits, RegistrationDone, RegistrationFails, StartTurn,
    ThreadGone, session, TurnResolves, TurnFails, FailTurn
<1>7. ASSUME NEW i \in Ids, ReadStarted(i) PROVE Heard'
  BY <1>7, ReadStartedEffect DEF Heard, SessionTyped
<1>8. ASSUME NEW i \in Ids, ReadCompleted(i) PROVE Heard'
  BY <1>1, <1>8, ReadCompletedEffect DEF Heard
<1>. QED
  BY <1>2, <1>3, <1>4, <1>6, <1>7, <1>8, NextCases

LEMMA NativeMovesStep ==
    ASSUME TypeOK, Core, Heard, [Next]_vars
    PROVE  NativeMoves
<1>1. CASE UNCHANGED native
  BY <1>1 DEF NativeMoves
<1>2. ASSUME NEW i \in Ids, ReadCompleted(i) PROVE NativeMoves
  <2>1. CASE UNCHANGED native
    BY <1>1, <2>1
  <2>2. CASE /\ inflight \in Turns /\ native'[inflight] \in {"completed", "failed"}
             /\ \A u \in Turns : u # inflight => native'[u] = native[u]
             /\ Unresolved(inflight)
    BY <2>2 DEF NativeMoves
  <2>. QED
    BY <1>2, <2>1, <2>2, ReadCompletedEffect DEF Unresolved, Core, Unasked, Heard
<1>3. CASE Outside \/ Asides \/ GivesUp \/ UNCHANGED vars
  BY <1>1, <1>3, GivesUpEffect DEF vars, attempt, Outside, Asides, Start, HelloAnswered, ExitNoticed, RuntimeTakes,
    ServerExits, RuntimeStarts, RuntimeEnds, Push, InterruptNative, SteerAnswered, SteerTimesOut,
    StopAnswered, StopTimesOut, StopReturns, RuntimeAsks, GateDecides
<1>4. CASE Endings \/ Dismissals \/ ToolLines
  BY <1>1, <1>4, EndingsTell, ToolLinesEffect DEF Tells, attempt
<1>5. ASSUME NEW t \in Turns, Enters(t) \/ Prepares(t) PROVE NativeMoves
  BY <1>1, <1>5, EntersEffect, PreparesEffect DEF EntersTurn, PreparesTurn
<1>6. ASSUME NEW t \in Turns, Sends(t) PROVE NativeMoves
  BY <1>1, <1>6 DEF Sends, SendAdmits, RegistrationDone, RegistrationFails, StartTurn, ThreadGone,
    TurnResolves, TurnFails, FailTurn, ReadTurnAnswer
<1>7. ASSUME NEW i \in Ids, ReadStarted(i) PROVE NativeMoves
  BY <1>1, <1>7 DEF ReadStarted
<1>. QED
  BY <1>2, <1>3, <1>4, <1>5, <1>6, <1>7, NextCases

----------------------------------------------------------------------------
\* When nothing else runs on the thread, a turn is called by its own name only, and a
\* recorded outcome is its own.
NamedOwn ==
    /\ runs[Other] = "none"
    /\ \A t \in Turns : turnId[t] \in {NoTurn, t}
    /\ \A t \in Turns : native[t] # "unknown" => t \in seen /\ runs[t] = native[t]

\* A steer is called what became of it; a stop is acknowledged for an ended turn.
CallsHonest ==
    /\ taken => steer.threw \/ steer.st \in {"asked", "unknown", "steered"}
    /\ steer.threw => steer.st \in {"ignored", "unknown"}
    /\ steer.st = "steered" => taken
    /\ stop.st \in {"asked", "polling", "acknowledged"} => stop.of \in Turns
    /\ stop.st = "acknowledged" => native[stop.of] # "unknown"

\* A gate that is asked is asked because those before it allowed.
Allowed(r) == said[r] = [k \in 1..Len(said[r]) |-> "allow"]
GatesAllow ==
    \A r \in Asks :
        /\ ask[r] \in {"deciding", "accepted"} => Allowed(r)
        /\ ask[r] = "deciding" => Len(said[r]) < Gates
        /\ ask[r] = "accepted" => Len(said[r]) = Gates /\ Gates > 0
        /\ ask[r] = "none" => said[r] = <<>>

\* The open tool item is the admitted turn's.
ToolCounts ==
    /\ \A t \in Turns : tools[t].results <= tools[t].uses /\ tools[t].uses <= 1
    /\ \A t \in Turns : admitted = t /\ tool = "none" => tools[t].uses = 0
    /\ \A t \in Turns : admitted = t /\ tool = "open" => tools[t].uses = 1 /\ tools[t].results = 0

LEMMA NamedOwnStep ==
    ASSUME TypeOK, Core, Undisturbed, NamedOwn, [Next]_vars
    PROVE  NamedOwn'
<1>. AttemptTyped /\ SessionTyped /\ ServerTyped /\ OwnerHolds /\ Unasked
  BY DEF TypeOK, Core
<1>1. ASSUME UNCHANGED <<turnId, native, seen>>, runs'[Other] = runs[Other],
             \A t \in Turns : runs[t] \in {"completed", "failed"} => runs'[t] = runs[t]
      PROVE  NamedOwn'
  BY <1>1 DEF NamedOwn, AttemptTyped
<1>2. CASE Outside
  <2>1. UNCHANGED <<turnId, native, seen>>
    BY <1>2 DEF attempt, session, Outside, Start, HelloAnswered, ExitNoticed, RuntimeTakes,
      ServerExits, RuntimeStarts, RuntimeEnds
  <2>2. CASE UNCHANGED runs
    BY <1>1, <2>1, <2>2
  <2>3. ASSUME NEW i \in Ids, NEW s, runs[i] \in {"asked", "running"}, runs' = [runs EXCEPT ![i] = s]
        PROVE  NamedOwn'
    <3>1. i # Other /\ Other \in Ids /\ Turns \subseteq Ids
      BY <2>3 DEF NamedOwn, Ids
    <3>. QED
      BY <1>1, <2>1, <2>3, <3>1 DEF ServerTyped
  <2>. QED
    BY <1>2, <2>2, <2>3 DEF Outside, Start, HelloAnswered, ExitNoticed, RuntimeTakes,
      ServerExits, RuntimeStarts, RuntimeEnds, runtime, Undisturbed
<1>3. CASE Asides \/ ToolLines \/ GivesUp \/ UNCHANGED vars
  BY <1>1, <1>3, ToolLinesEffect, GivesUpEffect DEF vars, attempt, session, runtime, Asides, Push, InterruptNative,
    SteerAnswered, SteerTimesOut, StopAnswered, StopTimesOut, StopReturns, RuntimeAsks,
    GateDecides
<1>4. CASE Endings \/ Dismissals
  <2>1. seen' = seen
    BY <1>4 DEF Endings, Dismissals, StartAgain, Kill, HelloFails, ReadEof, OutputCloses, Eof,
      ExitSettles, Interrupt, TimerFires
  <2>. QED
    BY <1>1, <1>4, <2>1, EndingsTell DEF Tells
<1>5. ASSUME NEW t \in Turns, Enters(t) \/ Prepares(t) PROVE NamedOwn'
  <2>1. seen' = seen
    BY <1>5 DEF Enters, Prepares, SendRefused, SendStarts, SendEnters, SendStarted,
      ThreadConfigured,
      BindingPersisted, BindingFails, ThreadAnswered, InventoryAnswered, session
  <2>. QED
    BY <1>1, <1>5, <2>1, EntersEffect, PreparesEffect DEF EntersTurn, PreparesTurn
<1>6. ASSUME NEW t \in Turns, SendAdmits(t) \/ RegistrationDone(t) \/ RegistrationFails(t)
                              \/ ThreadGone(t) \/ TurnResolves(t) \/ TurnFails(t)
      PROVE  NamedOwn'
  BY <1>1, <1>6 DEF SendAdmits, RegistrationDone, RegistrationFails, ThreadGone, TurnResolves,
    TurnFails, FailTurn, session, runtime
<1>7. ASSUME NEW t \in Turns, StartTurn(t) PROVE NamedOwn'
  <2>1. seen' = seen /\ rpc[t] = "none"
    BY <1>7 DEF StartTurn, Core, PhaseKnows, Knows, Prepared
  <2>2. runs[t] = "none"
    BY <2>1 DEF Unasked, Unknown
  <2>. QED
    BY <1>1, <1>7, <2>1, <2>2, StartTurnEffect
<1>8. ASSUME NEW t \in Turns, NEW a \in {"turn", "error", "malformed"}, ReadTurnAnswer(t, a)
      PROVE  NamedOwn'
  <2>1. /\ UNCHANGED <<native, seen>> /\ turnId'[t] \in {turnId[t], t}
        /\ \A u \in Turns : u # t => turnId'[u] = turnId[u] /\ runs'[u] = runs[u]
        /\ runs'[Other] = runs[Other]
        /\ runs'[t] = runs[t] \/ (runs[t] = "asked" /\ runs'[t] = "none")
    BY <1>8, ReadTurnAnswerEffect
  <2>. QED
    BY <2>1 DEF NamedOwn, AttemptTyped
<1>9. ASSUME NEW i \in Ids, ReadStarted(i) PROVE NamedOwn'
  <2>1. /\ UNCHANGED <<native, seen, runs>> /\ runs[i] \notin {"none", "asked"}
        /\ \A u \in Turns : \/ turnId'[u] = turnId[u]
                            \/ u = inflight /\ i \notin seen /\ turnId'[u] = i
    BY <1>9, ReadStartedEffect
  <2>2. i \in Turns
    BY <2>1 DEF NamedOwn, Ids
  <2>3. i \notin seen => i = inflight
    BY <2>1, <2>2 DEF NamedOwn, Unasked, Unknown, OwnerHolds, Unresolved
  <2>. QED
    BY <2>1, <2>3 DEF NamedOwn
<1>10. ASSUME NEW i \in Ids, ReadCompleted(i) PROVE NamedOwn'
  <2>1. UNCHANGED <<turnId, runs>>
    BY <1>10, ReadCompletedEffect
  <2>2. CASE UNCHANGED <<native, seen>>
    BY <1>1, <2>1, <2>2
  <2>3. CASE /\ inflight \in Turns /\ turnId[inflight] = i /\ seen' = seen \cup {i}
             /\ native'[inflight] = runs[i]
             /\ \A u \in Turns : u # inflight => native'[u] = native[u]
    <3>1. i = inflight
      BY <2>3, CodexAssumption DEF NamedOwn, Ids
    <3>. QED
      BY <2>1, <2>3, <3>1 DEF NamedOwn
  <2>. QED
    BY <1>10, <2>2, <2>3, ReadCompletedEffect
<1>. QED
  BY <1>2, <1>3, <1>4, <1>5, <1>6, <1>7, <1>8, <1>9, <1>10, NextCases DEF Sends

LEMMA CallsHonestStep ==
    ASSUME TypeOK, Core, Heard, CallsHonest, [Next]_vars
    PROVE  CallsHonest'
<1>. SessionTyped /\ CallsTyped
  BY DEF TypeOK
<1>1. \A t \in Turns : native[t] # "unknown" => native'[t] # "unknown"
  BY NativeMovesStep DEF NativeMoves, Unresolved
<1>2. CASE UNCHANGED <<taken, steer, stop>>
  BY <1>1, <1>2 DEF CallsHonest
<1>3. CASE RuntimeTakes
  <2>1. /\ UNCHANGED <<steer, stop, native>> /\ taken' = TRUE
        /\ steer.threw \/ steer.st \in {"asked", "unknown"}
    BY <1>3 DEF RuntimeTakes, calls, attempt
  <2>. QED
    BY <2>1 DEF CallsHonest
<1>4. CASE Outside \/ UNCHANGED vars
  BY <1>2, <1>3, <1>4 DEF vars, calls, runtime, Outside, Start, HelloAnswered, ExitNoticed,
    ServerExits,
    RuntimeStarts, RuntimeEnds
<1>5. CASE Push \/ SteerAnswered \/ SteerTimesOut
  BY <1>1, <1>5 DEF Push, SteerAnswered, SteerTimesOut, runtime, CallsHonest, CallsTyped
<1>6. CASE InterruptNative \/ StopAnswered \/ StopTimesOut \/ StopReturns
  <2>1. UNCHANGED <<native, taken, steer>>
    BY <1>6 DEF InterruptNative, StopAnswered, StopTimesOut, StopReturns, attempt, runtime
  <2>2. CASE InterruptNative
    BY <2>1, <2>2 DEF InterruptNative, Steerable, CallsHonest, SessionTyped
  <2>3. CASE StopAnswered \/ StopTimesOut \/ StopReturns
    BY <2>1, <2>3 DEF StopAnswered, StopTimesOut, StopReturns, CallsHonest, CallsTyped
  <2>. QED
    BY <1>6, <2>2, <2>3
<1>7. ASSUME NEW r \in Asks, NEW v \in {"allow", "deny"},
             RuntimeAsks(r) \/ GateDecides(r, v)
      PROVE  CallsHonest'
  BY <1>2, <1>7 DEF RuntimeAsks, GateDecides, runtime
<1>15. CASE GivesUp
  BY <1>2, <1>15, GivesUpEffect DEF runtime
<1>8. CASE Asides
  BY <1>5, <1>6, <1>7, <1>8 DEF Asides
<1>9. CASE ToolLines
  BY <1>2, <1>9, ToolLinesEffect DEF calls, runtime
<1>10. CASE Endings
  <2>1. /\ taken' = taken
        /\ steer' \in {steer, [steer EXCEPT !.st = "unknown"]}
        /\ steer' = steer \/ steer.st = "asked"
        /\ stop' \in {stop, [stop EXCEPT !.st = "unacknowledged"]}
    BY <1>10 DEF Endings, StartAgain, Kill, KillEffects, HelloFails, ReadEof, OutputCloses, Eof,
      ExitSettles, RejectPending, runtime
  <2>. QED
    BY <1>1, <2>1 DEF CallsHonest, CallsTyped
<1>11. CASE Dismissals
  BY <1>2, <1>11 DEF Dismissals, Interrupt, TimerFires, calls, runtime
<1>12. ASSUME NEW t \in Turns, Enters(t) \/ Prepares(t)
       PROVE  CallsHonest'
  BY <1>2, <1>12 DEF Enters, Prepares, SendRefused, SendStarts, SendEnters, SendStarted,
    ThreadConfigured, BindingPersisted, BindingFails, ThreadAnswered, InventoryAnswered, calls,
    runtime
<1>13. ASSUME NEW t \in Turns, Sends(t)
       PROVE  CallsHonest'
  BY <1>2, <1>13 DEF Sends, SendAdmits, RegistrationDone, RegistrationFails, StartTurn,
    ThreadGone, TurnResolves,
    TurnFails, FailTurn, ReadTurnAnswer, calls, runtime
<1>14. ASSUME NEW i \in Ids, ReadStarted(i) \/ ReadCompleted(i)
       PROVE  CallsHonest'
  BY <1>2, <1>14 DEF ReadStarted, ReadCompleted, calls
<1>. QED
  BY <1>4, <1>8, <1>9, <1>10, <1>11, <1>12, <1>13, <1>14, <1>15, NextCases

LEMMA AllowsOneMore ==
    ASSUME NEW s \in Seq({"allow", "deny"}), s = [k \in 1..Len(s) |-> "allow"]
    PROVE  /\ Append(s, "allow") = [k \in 1..Len(Append(s, "allow")) |-> "allow"]
           /\ Len(Append(s, "allow")) = Len(s) + 1
<1>1. Len(Append(s, "allow")) = Len(s) + 1 /\ Len(s) \in Nat
  OBVIOUS
<1>2. \A k \in 1..(Len(s) + 1) : Append(s, "allow")[k] = IF k <= Len(s) THEN s[k] ELSE "allow"
  OBVIOUS
<1>3. \A k \in 1..Len(s) : s[k] = "allow"
  OBVIOUS
<1>4. \A k \in 1..(Len(s) + 1) : Append(s, "allow")[k] = "allow"
  BY <1>1, <1>2, <1>3
<1>5. ASSUME NEW a \in Seq({"allow", "deny"})
      PROVE  a = [k \in 1..Len(a) |-> a[k]]
  OBVIOUS
<1>6. Append(s, "allow") = [k \in 1..(Len(s) + 1) |-> Append(s, "allow")[k]]
  <2>1. Append(s, "allow") \in Seq({"allow", "deny"})
    OBVIOUS
  <2>. QED
    BY <1>1, <1>5, <2>1
<1>. QED
  BY <1>1, <1>4, <1>6

LEMMA DecidedCases ==
    ASSUME NEW vs \in Seq({"allow", "deny"})
    PROVE  /\ Decided(vs) \in {"deciding", "dropped", "accepted", "declined"}
           /\ Decided(vs) = "deciding" => Len(vs) < Gates /\ (vs = <<>> \/ Last(vs) = "allow")
           /\ Decided(vs) = "accepted" => /\ vs # <<>> /\ Last(vs) = "allow" /\ ~(Len(vs) < Gates)
                                          /\ open.proc /\ open.alive
           /\ Decided(vs) = "declined" => open.proc /\ open.alive
BY DEF Decided

LEMMA GatesAllowStep ==
    ASSUME TypeOK, GatesAllow, [Next]_vars
    PROVE  GatesAllow'
<1>. CallsTyped
  BY DEF TypeOK
<1>1. CASE UNCHANGED <<ask, said>>
  BY <1>1 DEF GatesAllow, Allowed
<1>2. CASE said' = said /\ \A r \in Asks : ask'[r] \in {ask[r], "withdrawn"}
  BY <1>2 DEF GatesAllow, Allowed
<1>3. ASSUME NEW r \in Asks, RuntimeAsks(r) PROVE GatesAllow'
  <2>1. /\ said' = said /\ said[r] = <<>> /\ ask[r] = "none"
        /\ \A q \in Asks : q # r => ask'[q] = ask[q]
        /\ ask'[r] \in {Decided(<<>>), "refused"}
    BY <1>3 DEF RuntimeAsks, GatesAllow, CallsTyped
  <2>2. <<>> \in Seq({"allow", "deny"}) /\ Len(<<>>) = 0 /\ <<>> = [k \in 1..0 |-> "allow"]
    OBVIOUS
  <2>3. /\ ask'[r] # "accepted" /\ ask'[r] # "none"
        /\ ask'[r] = "deciding" => 0 < Gates
    BY <2>1, <2>2, DecidedCases
  <2>4. Allowed(r)'
    BY <2>1, <2>2 DEF Allowed
  <2>. QED
    BY <2>1, <2>2, <2>3, <2>4 DEF GatesAllow, Allowed
<1>4. ASSUME NEW r \in Asks, NEW v \in {"allow", "deny"}, GateDecides(r, v) PROVE GatesAllow'
  <2>. DEFINE s == said[r]
  <2>1. /\ s \in Seq({"allow", "deny"}) /\ ask[r] = "deciding"
        /\ s = [k \in 1..Len(s) |-> "allow"] /\ Len(s) < Gates /\ Len(s) \in Nat
    BY <1>4 DEF GateDecides, GatesAllow, Allowed, CallsTyped
  <2>2. /\ said'[r] = Append(s, v) /\ ask'[r] = Decided(Append(s, v))
        /\ \A q \in Asks : q # r => ask'[q] = ask[q] /\ said'[q] = said[q]
    BY <1>4 DEF GateDecides, CallsTyped
  <2>3. /\ Append(s, v) \in Seq({"allow", "deny"}) /\ Append(s, v) # <<>>
        /\ Last(Append(s, v)) = v /\ Len(Append(s, v)) = Len(s) + 1
    BY <2>1 DEF Last
  <2>. HIDE DEF s
  <2>4. /\ ask'[r] # "none" /\ (ask'[r] \in {"deciding", "accepted"} => v = "allow")
        /\ ask'[r] = "deciding" => Len(s) + 1 < Gates
        /\ ask'[r] = "accepted" => ~(Len(s) + 1 < Gates)
    BY <2>2, <2>3, DecidedCases
  <2>5. ask'[r] \in {"deciding", "accepted"} => Allowed(r)'
    BY <2>1, <2>2, <2>4, AllowsOneMore DEF Allowed
  <2>6. ask'[r] = "accepted" => Len(s) + 1 = Gates /\ Gates > 0
    BY <2>1, <2>4, CodexAssumption
  <2>7. \A q \in Asks : q # r => Allowed(q)' = Allowed(q)
    BY <2>2 DEF Allowed
  <2>. QED
    BY <2>2, <2>3, <2>4, <2>5, <2>6, <2>7 DEF GatesAllow
<1>5. CASE GivesUp
  BY <1>2, <1>5, GivesUpEffect DEF CallsTyped
<1>6. CASE Asides
  BY <1>1, <1>3, <1>4, <1>6 DEF Asides, Push, InterruptNative, SteerAnswered, SteerTimesOut,
    StopAnswered, StopTimesOut, StopReturns
<1>7. CASE Outside \/ Dismissals \/ ToolLines \/ UNCHANGED vars
  BY <1>1, <1>7 DEF vars, calls, Outside, Start, HelloAnswered, ExitNoticed, RuntimeTakes,
    ServerExits,
    RuntimeStarts, RuntimeEnds, Dismissals, Interrupt, TimerFires, ToolLines, ReadToolStarted,
    ReadToolCompleted
<1>8. CASE Endings
  <2>1. said' = said
    BY <1>8 DEF Endings, StartAgain, Kill, HelloFails, ReadEof, OutputCloses, Eof, ExitSettles
  <2>2. ask' = ask \/ WithdrawRequests
    BY <1>8 DEF Endings, StartAgain, Kill, KillEffects, HelloFails, ReadEof, OutputCloses, Eof,
      ExitSettles
  <2>. QED
    BY <1>2, <2>1, <2>2 DEF WithdrawRequests
<1>9. ASSUME NEW t \in Turns, Enters(t) \/ Prepares(t)
      PROVE  GatesAllow'
  BY <1>1, <1>9 DEF Enters, Prepares, SendRefused, SendStarts, SendEnters, SendStarted,
    ThreadConfigured, BindingPersisted, BindingFails, ThreadAnswered, InventoryAnswered, calls
<1>10. ASSUME NEW t \in Turns, Sends(t)
       PROVE  GatesAllow'
  BY <1>1, <1>10 DEF Sends, SendAdmits, RegistrationDone, RegistrationFails, StartTurn,
    ThreadGone, TurnResolves,
    TurnFails, FailTurn, ReadTurnAnswer, calls
<1>11. ASSUME NEW i \in Ids, ReadStarted(i) \/ ReadCompleted(i)
       PROVE  GatesAllow'
  BY <1>1, <1>11 DEF ReadStarted, ReadCompleted, calls
<1>. QED
  BY <1>5, <1>6, <1>7, <1>8, <1>9, <1>10, <1>11, NextCases

LEMMA ToolCountsStep ==
    ASSUME TypeOK, Core, ToolCounts, [Next]_vars
    PROVE  ToolCounts'
<1>. ServerTyped
  BY DEF TypeOK
<1>1. CASE UNCHANGED <<tool, tools, admitted>>
  BY <1>1 DEF ToolCounts
<1>2. CASE ToolLines
  <2>1. PICK w \in Turns : w = inflight
    BY <1>2, ToolLinesEffect
  <2>2. /\ admitted = w /\ admitted' = w
        /\ \A u \in Turns : u # w => tools'[u] = tools[u]
        /\ \/ /\ tool = "none" /\ tool' = "open"
              /\ tools'[w].uses = tools[w].uses + 1 /\ tools'[w].results = tools[w].results
           \/ /\ tool = "open" /\ tool' = "completed"
              /\ tools'[w].uses = tools[w].uses /\ tools'[w].results = tools[w].results + 1
        /\ tools[w].uses \in Nat /\ tools[w].results \in Nat
    BY <1>2, <2>1, ToolLinesEffect DEF ServerTyped, session
  <2>. QED
    BY <2>2 DEF ToolCounts
<1>3. ASSUME NEW t \in Turns, StartTurn(t) PROVE ToolCounts'
  <2>1. tools[t].uses = 0
    BY <1>3 DEF StartTurn, Core, PhaseKnows, Knows, Prepared, Unasked, Unknown, NoTools
  <2>. QED
    BY <1>1, <1>3, <2>1, StartTurnEffect DEF ToolCounts
<1>4. CASE Outside \/ Asides \/ GivesUp \/ UNCHANGED vars
  BY <1>1, <1>4, GivesUpEffect DEF vars, session, items, Outside, Asides, Start, HelloAnswered, ExitNoticed,
    RuntimeTakes,
      ServerExits, RuntimeStarts, RuntimeEnds, Push, InterruptNative, SteerAnswered, SteerTimesOut,
      StopAnswered, StopTimesOut, StopReturns, RuntimeAsks, GateDecides
<1>5. CASE Endings \/ Dismissals
  BY <1>1, <1>5 DEF Endings, StartAgain, Kill, HelloFails, ReadEof, OutputCloses, Eof, ExitSettles,
    Dismissals, Interrupt, TimerFires, items
<1>6. ASSUME NEW t \in Turns, Enters(t) \/ Prepares(t)
      PROVE  ToolCounts'
  BY <1>1, <1>6 DEF Enters, Prepares, SendRefused, SendStarts, SendEnters, SendStarted,
    ThreadConfigured, BindingPersisted, BindingFails, ThreadAnswered, InventoryAnswered, items,
    session
<1>7. ASSUME NEW t \in Turns, Sends(t)
      PROVE  ToolCounts'
  BY <1>1, <1>3, <1>7 DEF Sends, SendAdmits, RegistrationDone, RegistrationFails, ThreadGone,
    TurnResolves, TurnFails, FailTurn, ReadTurnAnswer, items, session
<1>8. ASSUME NEW i \in Ids, ReadStarted(i) \/ ReadCompleted(i)
      PROVE  ToolCounts'
  BY <1>1, <1>8 DEF ReadStarted, ReadCompleted, items, session
<1>. QED
  BY <1>2, <1>4, <1>5, <1>6, <1>7, <1>8, NextCases

----------------------------------------------------------------------------
(* The theorems                                                             *)

Inductive ==
    /\ TypeOK /\ Core /\ Heard /\ CallsHonest /\ GatesAllow /\ ToolCounts
    /\ Undisturbed => NamedOwn

LEMMA InductiveInit == Init => Inductive
<1>. SUFFICES ASSUME Init PROVE Inductive
  OBVIOUS
<1>1. Core
  <2>1. PhaseOwned /\ OwnerHolds /\ QueueWaits
    BY DEF Init, PhaseOwned, OwnerHolds, Unresolved, QueueWaits, Prepared, Sending
  <2>2. PhaseKnows
    BY DEF Init, PhaseKnows, Knows, Fresh, Early, Prepared, Sending
  <2>3. Unasked
    BY CodexAssumption DEF Init, Unasked, Unknown, NoTools, Ids
  <2>. QED
    BY <2>1, <2>2, <2>3 DEF Core
<1>2. Heard
  BY DEF Init, Heard
<1>3. CallsHonest
  BY DEF Init, CallsHonest
<1>4. GatesAllow
  BY DEF Init, GatesAllow
<1>5. ToolCounts
  BY DEF Init, ToolCounts
<1>6. NamedOwn
  BY DEF Init, NamedOwn, Ids
<1>. QED
  BY <1>1, <1>2, <1>3, <1>4, <1>5, <1>6, TypeInit DEF Inductive

LEMMA InductiveStep == ASSUME Inductive, [Next]_vars PROVE Inductive'
<1>1. Undisturbed' = Undisturbed
  BY DEF Undisturbed
<1>. QED
  BY <1>1, TypeStep, CoreStep, HeardStep, CallsHonestStep, GatesAllowStep, ToolCountsStep,
    NamedOwnStep DEF Inductive

\* The inductive invariant holds in every state, for any sends, registrations,
\* timeouts, gates and faults (codex-session.ts send(), _sendTurn, _processLine).
THEOREM Invariance == Spec => []Inductive
BY InductiveInit, InductiveStep, PTL DEF Spec

\* Every variable has its type.
THEOREM TypeCorrect == Spec => []TypeOK
<1>1. Inductive => TypeOK
  BY DEF Inductive
<1>. QED
  BY <1>1, Invariance, PTL

\* What the evidence of a turn says is what the app-server did, as long as
\* nothing but this session starts turns on its thread.
THEOREM EvidenceHonest == Undisturbed /\ Spec => []HonestEvidence
<1>. SUFFICES ASSUME Undisturbed PROVE Spec => []HonestEvidence
  OBVIOUS
<1>1. ASSUME Inductive, NamedOwn PROVE HonestEvidence
  <2>. /\ AttemptTyped /\ ServerTyped /\ OwnerHolds /\ PhaseKnows /\ Unasked /\ CallsHonest
    BY <1>1 DEF Inductive, TypeOK, Core
  <2>1. \A t \in Turns : /\ native[t] # "unknown" => runs[t] = native[t]
                         /\ local[t] = "resolved" => native[t] # "unknown" /\ rpc[t] = "resolved"
                         /\ disp[t] = "not-dispatched" => runs[t] = "none"
    BY <1>1 DEF NamedOwn, PhaseKnows, Knows, Unasked, Unknown
  <2>2. stop.st = "acknowledged" => runs[stop.of] \in {"completed", "failed"}
    BY <2>1 DEF CallsHonest, AttemptTyped
  <2>3. (steer.st = "ignored" /\ ~steer.threw => ~taken) /\ (steer.st = "steered" => taken)
    BY DEF CallsHonest
  <2>4. \A t \in Turns : runs[t] \in {"asked", "running"} => t = inflight
    BY <1>1, <2>1 DEF Unasked, Unknown, OwnerHolds, Unresolved, AttemptTyped
  <2>. QED
    BY <2>1, <2>2, <2>3, <2>4 DEF HonestEvidence
<1>2. Inductive => HonestEvidence
  BY <1>1 DEF Inductive
<1>. QED
  BY <1>2, Invariance, PTL

\* A request is accepted only when every gate was asked and allowed it, and a turn
\* counts a tool's result only after its use, each once (_approval, onToolUse).
THEOREM GatesAndToolsHeld == Spec => []GatesAndTools
<1>1. Inductive => GatesAndTools
  BY DEF Inductive, GatesAllow, Allowed, ToolCounts, GatesAndTools
<1>. QED
  BY <1>1, Invariance, PTL

LEMMA MovesMap ==
    ASSUME TypeOK, TypeOK', OwnerHolds', LocalMoves, DispatchMoves, NativeMoves
    PROVE  Ownership!Step
<1>1. /\ local' \in [Turns -> LocalOutcomes]
      /\ disp' \in [Turns -> {"not-dispatched", "attempted"}]
      /\ native' \in [Turns -> {"unknown", "completed", "failed"}]
  BY DEF TypeOK, AttemptTyped, LocalOutcomes
<1>2. ASSUME NEW t \in Turns
      PROVE  Ownership!LocalStep(t) /\ Ownership!DispatchStep(t) /\ Ownership!NativeStep(t)
  BY DEF LocalMoves, DispatchMoves, NativeMoves, Unresolved, Ownership!LocalStep,
    Ownership!DispatchStep, Ownership!NativeStep, Ownership!Unresolved
<1>3. Ownership!AtMostOneUnresolved'
  BY DEF OwnerHolds, Unresolved, Ownership!AtMostOneUnresolved, Ownership!Unresolved
<1>. QED
  BY <1>1, <1>2, <1>3
  DEF Ownership!Step, Ownership!LocalOutcome, Ownership!Dispatch, Ownership!NativeOutcome,
    LocalOutcomes

\* Every step of codex-session.ts is a step of TurnOwnership or a stutter.
THEOREM KeepsOwnership == Spec => ImplementsOwnership
<1>1. Init => Ownership!Init
  BY DEF Init, Ownership!Init
<1>2. Inductive /\ [Next]_vars => [Ownership!Step]_(Ownership!vars)
  <2>. SUFFICES ASSUME Inductive, [Next]_vars PROVE Ownership!Step
    OBVIOUS
  <2>1. TypeOK /\ Core /\ TypeOK' /\ OwnerHolds'
    BY InductiveStep DEF Inductive, Core
  <2>. QED
    BY <2>1, LocalMovesStep, DispatchMovesStep, NativeMovesStep, MovesMap DEF Inductive
<1>. QED
  BY <1>1, <1>2, Invariance, PTL DEF Spec, ImplementsOwnership, Ownership!Spec

\* Nothing is written for a caller who is gone, nor decided for a request that was
\* withdrawn or a session that died.
THEOREM NothingIsLate == Spec => NothingLate
<1>1. ASSUME TypeOK, Core, [Next]_vars
      PROVE  InTime
  <2>. CallsTyped /\ ServerTyped
    BY <1>1 DEF TypeOK
  <2>1. CASE UNCHANGED <<runs, ask>>
    BY <2>1 DEF InTime
  <2>2. ASSUME ask' = ask, \A t \in Turns : runs[t] = "none" => runs'[t] # "asked"
        PROVE  InTime
    BY <2>2 DEF InTime
  <2>3. CASE Outside
    <3>1. \A t \in Turns : runs[t] = "none" => runs'[t] # "asked"
      BY <2>3, CodexAssumption DEF Outside, Start, HelloAnswered, ExitNoticed, RuntimeTakes,
        ServerExits,
        RuntimeStarts, RuntimeEnds, runtime, ServerTyped, Ids
    <3>2. ask' = ask
      BY <2>3 DEF Outside, Start, HelloAnswered, ExitNoticed, RuntimeTakes, ServerExits,
        RuntimeStarts, RuntimeEnds, calls
    <3>. QED
      BY <2>2, <3>1, <3>2
  <2>4. CASE Dismissals \/ ToolLines \/ UNCHANGED vars
    BY <2>1, <2>4 DEF Dismissals, Interrupt, TimerFires, ToolLines, ReadToolStarted,
      ReadToolCompleted,
      vars, calls, runtime
  <2>5. CASE Endings
    <3>1. runs' = runs /\ (ask' = ask \/ WithdrawRequests)
      BY <2>5 DEF Endings, StartAgain, Kill, KillEffects, HelloFails, ReadEof, OutputCloses, Eof,
        ExitSettles, runtime
    <3>. QED
      BY <3>1 DEF WithdrawRequests, InTime
  <2>6. ASSUME NEW r \in Asks, RuntimeAsks(r) PROVE InTime
    <3>1. /\ runs' = runs /\ ask[r] = "none" /\ \A q \in Asks : q # r => ask'[q] = ask[q]
          /\ ask'[r] \in {Decided(<<>>), "refused"}
      BY <2>6 DEF RuntimeAsks, runtime, CallsTyped
    <3>2. <<>> \in Seq({"allow", "deny"})
      OBVIOUS
    <3>. QED
      BY <3>1, <3>2, DecidedCases DEF InTime
  <2>7. ASSUME NEW r \in Asks, NEW v \in {"allow", "deny"}, GateDecides(r, v) PROVE InTime
    <3>1. /\ runs' = runs /\ ask[r] = "deciding" /\ \A q \in Asks : q # r => ask'[q] = ask[q]
          /\ ask'[r] = Decided(Append(said[r], v))
          /\ Append(said[r], v) \in Seq({"allow", "deny"})
      BY <2>7 DEF GateDecides, runtime, CallsTyped
    <3>. QED
      BY <3>1, DecidedCases DEF InTime
  <2>8. CASE Asides
    BY <2>1, <2>6, <2>7, <2>8 DEF Asides, Push, InterruptNative, SteerAnswered, SteerTimesOut,
      StopAnswered, StopTimesOut, StopReturns, runtime, InTime, CallsTyped
  <2>14. CASE GivesUp
    BY <2>14, GivesUpEffect DEF runtime, InTime, CallsTyped
  <2>9. ASSUME NEW t \in Turns, Enters(t) \/ Prepares(t) PROVE InTime
    BY <2>1, <2>9 DEF Enters, Prepares, SendRefused, SendStarts, SendEnters, SendStarted,
      ThreadConfigured, BindingPersisted, BindingFails, ThreadAnswered, InventoryAnswered, calls,
      runtime
  <2>10. ASSUME NEW t \in Turns, StartTurn(t) PROVE InTime
    <3>1. ask' = ask
      BY <2>10 DEF StartTurn, calls
    <3>. QED
      BY <1>1, <2>10, <3>1, StartTurnEffect DEF InTime, Admissible
  <2>11. ASSUME NEW t \in Turns, NEW a \in {"turn", "error", "malformed"}, ReadTurnAnswer(t, a)
         PROVE  InTime
    <3>1. ask' = ask
      BY <2>11 DEF ReadTurnAnswer, calls
    <3>. QED
      BY <1>1, <2>2, <2>11, <3>1, ReadTurnAnswerEffect
  <2>12. ASSUME NEW t \in Turns, Sends(t) PROVE InTime
    BY <2>1, <2>10, <2>11, <2>12 DEF Sends, SendAdmits, RegistrationDone, RegistrationFails,
      ThreadGone, TurnResolves, TurnFails, FailTurn, calls, runtime
  <2>13. ASSUME NEW i \in Ids, ReadStarted(i) \/ ReadCompleted(i) PROVE InTime
    BY <2>1, <2>13 DEF ReadStarted, ReadCompleted, calls
  <2>. QED
    BY <1>1, <2>3, <2>4, <2>5, <2>8, <2>9, <2>12, <2>13, <2>14, NextCases
<1>2. Inductive /\ [Next]_vars => [InTime]_vars
  BY <1>1 DEF Inductive
<1>. QED
  BY <1>2, Invariance, PTL DEF Spec, NothingLate

=============================================================================
