-------------------------------- MODULE Slots --------------------------------
(***************************************************************************)
(* Slots (src/src/primed.ts): the FIFO counting semaphore that bounds the  *)
(* decisions of a primed host.  A release hands its slot to the first      *)
(* waiter, so the count of a slot passed on does not change; a waiter      *)
(* leaves at its deadline, on abort, or when close() drains the queue.     *)
(***************************************************************************)
EXTENDS Naturals, Sequences, FiniteSets

CONSTANTS
    Holders,        \* who may ask for a slot, once each
    Limits          \* how many slots a host may be configured with

ASSUME SlotsAssumption == IsFiniteSet(Holders) /\ Limits \subseteq Nat \ {0}

VARIABLES
    limit,          \* _limit, of the constructor
    active,         \* _active
    waiters,        \* _waiters
    grant           \* what each holder was given

slots == <<active, waiters, grant>>

SlotsTypeOK ==
    /\ limit \in Limits /\ active \in Nat
    /\ waiters \in Seq(Holders)
    /\ grant \in [Holders -> {"none", "waiting", "held", "over"}]

SlotsInit ==
    /\ limit \in Limits /\ active = 0 /\ waiters = <<>>
    /\ grant = [h \in Holders |-> "none"]

----------------------------------------------------------------------------
Acquire(h) ==
    /\ grant[h] = "none"
    /\ IF active < limit
       THEN /\ active' = active + 1 /\ UNCHANGED waiters
            /\ grant' = [grant EXCEPT ![h] = "held"]
       ELSE /\ waiters' = Append(waiters, h) /\ UNCHANGED active
            /\ grant' = [grant EXCEPT ![h] = "waiting"]

\* Never queues, and never overtakes a waiter.
TryAcquireOver(h) ==
    /\ grant[h] = "none"
    /\ IF active <= limit /\ waiters = <<>>
       THEN active' = active + 1 /\ grant' = [grant EXCEPT ![h] = "held"]
       ELSE UNCHANGED <<active, grant>>
    /\ UNCHANGED waiters
TryAcquire(h) ==
    /\ grant[h] = "none"
    /\ IF active < limit /\ waiters = <<>>
       THEN active' = active + 1 /\ grant' = [grant EXCEPT ![h] = "held"]
       ELSE UNCHANGED <<active, grant>>
    /\ UNCHANGED waiters

\* The released slot is the first waiter's.
ReleaseCounted(h) ==
    /\ grant[h] = "held" /\ active' = active - 1
    /\ IF waiters = <<>>
       THEN grant' = [grant EXCEPT ![h] = "over"] /\ UNCHANGED waiters
       ELSE /\ grant' = [grant EXCEPT ![h] = "over", ![Head(waiters)] = "held"]
            /\ waiters' = Tail(waiters)
Release(h) ==
    /\ grant[h] = "held"
    /\ IF waiters = <<>>
       THEN /\ active' = active - 1 /\ UNCHANGED waiters
            /\ grant' = [grant EXCEPT ![h] = "over"]
       ELSE /\ grant' = [grant EXCEPT ![h] = "over", ![Head(waiters)] = "held"]
            /\ waiters' = Tail(waiters) /\ UNCHANGED active

\* The deadline or the abort of a waiter: it is cut out of the queue.
Leave(h) ==
    /\ grant[h] = "waiting"
    /\ grant' = [grant EXCEPT ![h] = "over"]
    /\ \E i \in DOMAIN waiters :
          /\ waiters[i] = h
          /\ waiters' = [j \in 1..(Len(waiters) - 1) |-> IF j < i THEN waiters[j] ELSE waiters[j + 1]]
    /\ UNCHANGED active

Drain ==
    /\ grant' = [h \in Holders |-> IF grant[h] = "waiting" THEN "over" ELSE grant[h]]
    /\ waiters' = <<>> /\ UNCHANGED active

SlotsNext ==
    /\ \/ \E h \in Holders : Acquire(h) \/ TryAcquire(h) \/ Release(h) \/ Leave(h)
       \/ Drain
    /\ UNCHANGED limit

SlotsSpec == SlotsInit /\ [][SlotsNext]_<<limit, slots>>

----------------------------------------------------------------------------
Held == {h \in Holders : grant[h] = "held"}

\* Slots are neither lost nor made up (release, leave, drain): the count is that of
\* those who hold one, it never passes the limit, nobody waits while a slot is free, and
\* the queue has just those who wait, each once.
SlotsConserved ==
    /\ active = Cardinality(Held) /\ active <= limit
    /\ waiters # <<>> => active = limit
    /\ \A h \in Holders : grant[h] = "waiting" <=> \E k \in DOMAIN waiters : waiters[k] = h
    /\ \A j, k \in DOMAIN waiters : waiters[j] = waiters[k] => j = k
=============================================================================
