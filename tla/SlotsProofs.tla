----------------------------- MODULE SlotsProofs -----------------------------
(***************************************************************************)
(* Proofs about Slots: its type and SlotsConserved, for any number of      *)
(* holders and of slots.  The two together are inductive.                  *)
(***************************************************************************)
EXTENDS Slots, TLAPS, FiniteSetTheorems

SlotsInv == SlotsTypeOK /\ SlotsConserved

\* One holder more, and one less, in the set that the count is compared with.
LEMMA HeldCounted ==
    ASSUME SlotsTypeOK, NEW h \in Holders
    PROVE  /\ IsFiniteSet(Held) /\ Cardinality(Held) \in Nat
           /\ h \notin Held => Cardinality(Held \cup {h}) = Cardinality(Held) + 1
           /\ h \in Held => Cardinality(Held \ {h}) = Cardinality(Held) - 1
<1>1. IsFiniteSet(Held)
  BY SlotsAssumption, FS_Subset DEF Held
<1> QED
  BY <1>1, FS_CardinalityType, FS_AddElement, FS_RemoveElement

LEMMA SlotsInitInv == SlotsInit => SlotsInv
<1> SUFFICES ASSUME SlotsInit PROVE SlotsInv
  OBVIOUS
<1>1. SlotsTypeOK
  BY DEF SlotsInit, SlotsTypeOK
<1>2. Held = {}
  BY DEF SlotsInit, Held
<1>3. Cardinality(Held) = 0
  BY <1>2, FS_EmptySet
<1> QED
  BY <1>1, <1>3, SlotsAssumption DEF SlotsInit, SlotsInv, SlotsConserved

----------------------------------------------------------------------------
(* One step for each method                                                 *)

LEMMA SlotsUnchanged ==
    ASSUME SlotsInv, UNCHANGED <<active, grant, waiters, limit>>
    PROVE  SlotsInv'
<1>1. Held' = Held
  BY DEF Held
<1> QED
  BY <1>1 DEF SlotsInv, SlotsTypeOK, SlotsConserved

\* acquire(): a free slot is taken, or the caller joins the queue.
LEMMA AcquireStep ==
    ASSUME SlotsInv, NEW h \in Holders, Acquire(h), UNCHANGED limit
    PROVE  SlotsInv'
<1> USE DEF SlotsInv, SlotsTypeOK
<1>1. CASE active < limit
  <2>1. waiters = <<>> /\ waiters' = waiters /\ active' = active + 1
    BY <1>1, SlotsAssumption DEF Acquire, SlotsConserved
  <2>2. Held' = Held \cup {h} /\ h \notin Held
    BY <1>1 DEF Acquire, Held
  <2>3. active' = Cardinality(Held')
    BY <2>1, <2>2, HeldCounted DEF SlotsConserved
  <2> QED
    BY <1>1, <2>1, <2>3, SlotsAssumption DEF Acquire, SlotsConserved
<1>2. CASE ~(active < limit)
  <2>1. waiters' = Append(waiters, h) /\ active' = active
    BY <1>2 DEF Acquire
  <2>2. grant' = [grant EXCEPT ![h] = "waiting"] /\ grant[h] = "none"
    BY <1>2 DEF Acquire
  <2>3. Held' = Held
    BY <2>2 DEF Held
  <2>4. \A k \in DOMAIN waiters : waiters[k] # h
    BY <2>2 DEF SlotsConserved
  <2>5. active = limit /\ active' = Cardinality(Held')
    BY <1>2, <2>1, <2>3, SlotsAssumption DEF SlotsConserved
  <2>6. \A g \in Holders : grant'[g] = "waiting" <=> \E k \in DOMAIN waiters' : waiters'[k] = g
    BY <2>1, <2>2 DEF SlotsConserved
  <2>7. \A j, k \in DOMAIN waiters' : waiters'[j] = waiters'[k] => j = k
    BY <2>1, <2>4 DEF SlotsConserved
  <2>8. SlotsTypeOK'
    BY <2>1, <2>2
  <2> QED
    BY <2>1, <2>5, <2>6, <2>7, <2>8, SlotsAssumption DEF SlotsConserved
<1> QED
  BY <1>1, <1>2

\* tryAcquire(): a slot only if one is free.
LEMMA TryAcquireStep ==
    ASSUME SlotsInv, NEW h \in Holders, TryAcquire(h), UNCHANGED limit
    PROVE  SlotsInv'
<1> USE DEF SlotsInv, SlotsTypeOK
<1>1. CASE active < limit /\ waiters = <<>>
  <2>1. Held' = Held \cup {h} /\ h \notin Held
    BY <1>1 DEF TryAcquire, Held
  <2>2. active' = Cardinality(Held')
    BY <1>1, <2>1, HeldCounted DEF TryAcquire, SlotsConserved
  <2> QED
    BY <1>1, <2>2, SlotsAssumption DEF TryAcquire, SlotsConserved
<1>2. CASE ~(active < limit /\ waiters = <<>>)
  <2>1. UNCHANGED <<active, grant, waiters, limit>>
    BY <1>2 DEF TryAcquire
  <2> QED
    BY <2>1, SlotsUnchanged
<1> QED
  BY <1>1, <1>2

\* A release gives the slot back, or to the first of the queue.
LEMMA ReleaseStep ==
    ASSUME SlotsInv, NEW h \in Holders, Release(h), UNCHANGED limit
    PROVE  SlotsInv'
<1> USE DEF SlotsInv, SlotsTypeOK
<1>0. h \in Held /\ active = Cardinality(Held) /\ active # 0
  <2>1. h \in Held /\ active = Cardinality(Held)
    BY DEF Release, Held, SlotsConserved
  <2> QED
    BY <2>1, FS_EmptySet, HeldCounted
<1>1. CASE waiters = <<>>
  <2>1. Held' = Held \ {h} /\ active' = active - 1 /\ waiters' = waiters
    BY <1>1 DEF Release, Held
  <2>2. active' = Cardinality(Held')
    BY <1>0, <2>1, HeldCounted
  <2>3. SlotsTypeOK'
    BY <1>0, <1>1 DEF Release
  <2> QED
    BY <1>1, <2>1, <2>2, <2>3, SlotsAssumption DEF Release, SlotsConserved
<1>2. CASE waiters # <<>>
  <2> DEFINE first == Head(waiters)
  <2>1. /\ first \in Holders /\ first = waiters[1] /\ 1 \in DOMAIN waiters
        /\ grant[first] = "waiting" /\ first # h
    BY <1>2 DEF SlotsConserved, Release
  <2>2. /\ grant' = [grant EXCEPT ![h] = "over", ![first] = "held"]
        /\ waiters' = Tail(waiters) /\ active' = active
    BY <1>2 DEF Release
  <2>3. Held' = (Held \ {h}) \cup {first} /\ first \notin Held
    BY <2>1, <2>2 DEF Held, Release
  <2>4. active' = Cardinality(Held')
    <3>1. IsFiniteSet(Held \ {h}) /\ Cardinality(Held \ {h}) = Cardinality(Held) - 1
      BY <1>0, HeldCounted, FS_RemoveElement
    <3>2. first \notin Held \ {h}
      BY <2>3
    <3>3. Cardinality((Held \ {h}) \cup {first}) = Cardinality(Held \ {h}) + 1
      BY <3>1, <3>2, FS_AddElement
    <3>4. Cardinality(Held) \in Nat
      BY HeldCounted
    <3> QED
      BY <1>0, <2>2, <2>3, <3>1, <3>3, <3>4
  <2>5. \A k \in DOMAIN waiters' : waiters'[k] = waiters[k + 1] /\ k + 1 \in DOMAIN waiters
    BY <1>2, <2>2
  <2>6. \A k \in DOMAIN waiters \ {1} : k - 1 \in DOMAIN waiters' /\ waiters'[k - 1] = waiters[k]
    BY <1>2, <2>2
  <2>7. \A g \in Holders : grant'[g] = "waiting" <=> \E k \in DOMAIN waiters' : waiters'[k] = g
    <3> SUFFICES ASSUME NEW g \in Holders
                 PROVE  grant'[g] = "waiting" <=> \E k \in DOMAIN waiters' : waiters'[k] = g
      OBVIOUS
    <3>1. ASSUME grant'[g] = "waiting" PROVE \E k \in DOMAIN waiters' : waiters'[k] = g
      <4>1. grant[g] = "waiting" /\ g # first
        BY <2>1, <2>2, <3>1
      <4>2. PICK k \in DOMAIN waiters : waiters[k] = g
        BY <4>1 DEF SlotsConserved
      <4> QED
        BY <2>1, <2>6, <4>1, <4>2
    <3>2. ASSUME NEW k \in DOMAIN waiters', waiters'[k] = g PROVE grant'[g] = "waiting"
      <4>1. waiters[k + 1] = g /\ k + 1 \in DOMAIN waiters /\ k + 1 # 1
        BY <1>2, <2>2, <2>5, <3>2
      <4>2. grant[g] = "waiting" /\ g # first
        BY <2>1, <4>1 DEF SlotsConserved
      <4> QED
        BY <2>2, <4>2 DEF Release
    <3> QED
      BY <3>1, <3>2
  <2>8. \A j, k \in DOMAIN waiters' : waiters'[j] = waiters'[k] => j = k
    <3> SUFFICES ASSUME NEW j \in DOMAIN waiters', NEW k \in DOMAIN waiters', waiters'[j] = waiters'[k]
                 PROVE  j = k
      OBVIOUS
    <3>1. j + 1 = k + 1
      BY <2>5 DEF SlotsConserved
    <3>2. j \in Nat /\ k \in Nat
      BY <1>2, <2>2
    <3> QED
      BY <3>1, <3>2
  <2>9. SlotsTypeOK'
    BY <1>2, <2>1, <2>2
  <2> QED
    BY <1>2, <2>2, <2>4, <2>7, <2>8, <2>9, SlotsAssumption DEF SlotsConserved
<1> QED
  BY <1>1, <1>2

\* A waiter that leaves is cut out of the queue, the others keep their order.
LEMMA LeaveStep ==
    ASSUME SlotsInv, NEW h \in Holders, Leave(h), UNCHANGED limit
    PROVE  SlotsInv'
<1> USE DEF SlotsInv, SlotsTypeOK
<1>1. PICK i \in DOMAIN waiters :
          /\ waiters[i] = h
          /\ waiters' = [j \in 1..(Len(waiters) - 1) |-> IF j < i THEN waiters[j] ELSE waiters[j + 1]]
  BY DEF Leave
<1>2. /\ grant[h] = "waiting" /\ grant' = [grant EXCEPT ![h] = "over"] /\ active' = active
      /\ waiters # <<>>
  BY <1>1 DEF Leave
<1>3. Held' = Held
  BY <1>2 DEF Held
<1>4. i \in 1..Len(waiters) /\ Len(waiters) \in Nat
  BY <1>1
<1>5. waiters' \in Seq(Holders) /\ DOMAIN waiters' = 1..(Len(waiters) - 1)
  <2>1. \A j \in 1..(Len(waiters) - 1) : waiters'[j] \in Holders
    BY <1>1, <1>4
  <2>2. DOMAIN waiters' = 1..(Len(waiters) - 1) /\ Len(waiters) - 1 \in Nat
    BY <1>1, <1>4
  <2>3. waiters' \in [1..(Len(waiters) - 1) -> Holders]
    BY <1>1, <2>1, <2>2
  <2> QED
    BY <2>2, <2>3
<1>6. \A g \in Holders : grant'[g] = "waiting" <=> \E k \in DOMAIN waiters' : waiters'[k] = g
  <2> SUFFICES ASSUME NEW g \in Holders
               PROVE  grant'[g] = "waiting" <=> \E k \in DOMAIN waiters' : waiters'[k] = g
    OBVIOUS
  <2>1. ASSUME grant'[g] = "waiting" PROVE \E k \in DOMAIN waiters' : waiters'[k] = g
    <3>1. grant[g] = "waiting" /\ g # h
      BY <1>2, <2>1
    <3>2. PICK k \in DOMAIN waiters : waiters[k] = g
      BY <3>1 DEF SlotsConserved
    <3>3. k # i /\ k \in 1..Len(waiters)
      BY <1>1, <3>1, <3>2
    <3>4. CASE k < i
      BY <1>1, <1>4, <1>5, <3>2, <3>3, <3>4
    <3>5. CASE k > i
      <4>1. k - 1 \in DOMAIN waiters' /\ waiters'[k - 1] = waiters[k]
        BY <1>1, <1>4, <1>5, <3>3, <3>5
      <4> QED
        BY <3>2, <4>1
    <3> QED
      BY <1>4, <3>3, <3>4, <3>5
  <2>2. ASSUME NEW k \in DOMAIN waiters', waiters'[k] = g PROVE grant'[g] = "waiting"
    <3>1. \E m \in DOMAIN waiters : m # i /\ waiters[m] = g
      <4>1. CASE k < i
        BY <1>1, <1>4, <1>5, <2>2, <4>1
      <4>2. CASE ~(k < i)
        <5>1. k + 1 \in DOMAIN waiters /\ k + 1 # i /\ waiters[k + 1] = g
          BY <1>1, <1>4, <1>5, <2>2, <4>2
        <5> QED
          BY <5>1
      <4> QED
        BY <4>1, <4>2
    <3>2. grant[g] = "waiting" /\ g # h
      BY <1>1, <3>1 DEF SlotsConserved
    <3> QED
      BY <1>2, <3>2
  <2> QED
    BY <2>1, <2>2
<1>7. \A j, k \in DOMAIN waiters' : waiters'[j] = waiters'[k] => j = k
  <2> SUFFICES ASSUME NEW j \in DOMAIN waiters', NEW k \in DOMAIN waiters', waiters'[j] = waiters'[k]
               PROVE  j = k
    OBVIOUS
  <2> DEFINE Was(m) == IF m < i THEN m ELSE m + 1
  <2>1. j \in 1..(Len(waiters) - 1) /\ k \in 1..(Len(waiters) - 1)
    BY <1>5
  <2>2. /\ waiters'[j] = waiters[Was(j)] /\ Was(j) \in DOMAIN waiters
        /\ waiters'[k] = waiters[Was(k)] /\ Was(k) \in DOMAIN waiters
    BY <1>1, <1>4, <2>1
  <2>3. Was(j) = Was(k)
    <3>1. \A x, y \in DOMAIN waiters : waiters[x] = waiters[y] => x = y
      BY DEF SlotsConserved
    <3> HIDE DEF Was
    <3> QED
      BY <2>2, <3>1
  <2> QED
    BY <1>4, <2>1, <2>3
<1>8. SlotsTypeOK'
  BY <1>2, <1>5
<1> QED
  BY <1>2, <1>3, <1>6, <1>7, <1>8 DEF SlotsConserved

\* drain(): every waiter is rejected, slots held stay held.
LEMMA DrainStep ==
    ASSUME SlotsInv, Drain, UNCHANGED limit
    PROVE  SlotsInv'
<1> USE DEF SlotsInv, SlotsTypeOK
<1>1. Held' = Held
  BY DEF Drain, Held
<1> QED
  BY <1>1 DEF Drain, SlotsConserved

----------------------------------------------------------------------------
LEMMA SlotsInvStep == SlotsInv /\ [SlotsNext]_<<limit, slots>> => SlotsInv'
<1> SUFFICES ASSUME SlotsInv, [SlotsNext]_<<limit, slots>> PROVE SlotsInv'
  OBVIOUS
<1>1. ASSUME NEW h \in Holders, UNCHANGED limit, Acquire(h) PROVE SlotsInv'
  BY <1>1, AcquireStep
<1>2. ASSUME NEW h \in Holders, UNCHANGED limit, TryAcquire(h) PROVE SlotsInv'
  BY <1>2, TryAcquireStep
<1>3. ASSUME NEW h \in Holders, UNCHANGED limit, Release(h) PROVE SlotsInv'
  BY <1>3, ReleaseStep
<1>4. ASSUME NEW h \in Holders, UNCHANGED limit, Leave(h) PROVE SlotsInv'
  BY <1>4, LeaveStep
<1>5. CASE Drain /\ UNCHANGED limit
  BY <1>5, DrainStep
<1>6. CASE UNCHANGED <<limit, slots>>
  BY <1>6, SlotsUnchanged DEF slots
<1> QED
  BY <1>1, <1>2, <1>3, <1>4, <1>5, <1>6 DEF SlotsNext

\* Slots are neither lost nor made up (Slots: acquire, tryAcquire, release, leave,
\* drain), for any limit and any callers.
THEOREM SlotsHeld == SlotsSpec => []SlotsConserved
<1>1. SlotsInv => SlotsConserved
  BY DEF SlotsInv
<1> QED
  BY SlotsInitInv, SlotsInvStep, <1>1, PTL DEF SlotsSpec
=============================================================================
