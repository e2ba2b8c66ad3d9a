---------------------------- MODULE TurnOwnership ----------------------------
(***************************************************************************)
(* What a HarnessSession promises about the sends it is given, whatever    *)
(* the transport underneath (src/src/harness-session.ts, the attempt       *)
(* record of src/src/turn-state.ts).                                       *)
(*                                                                         *)
(* A send becomes an attempt with three independent outcomes: the caller's *)
(* (local), the dispatch (was anything written) and the runtime's          *)
(* (native).  The caller may be told "rejected" while the runtime goes on: *)
(* settling the caller never gives up the native work.  The promise is     *)
(* that a turn with unresolved native work is the only one: nothing else   *)
(* is written to the runtime until its outcome is known.                   *)
(***************************************************************************)

CONSTANT Turns          \* the sends of one session

VARIABLES
    local,              \* [Turns -> LocalOutcome]: what the caller was told
    disp,               \* [Turns -> Dispatch]: was the turn written
    native              \* [Turns -> NativeOutcome]: what the runtime said

vars == <<local, disp, native>>

LocalOutcome  == {"none", "pending", "resolved", "rejected"}
Dispatch      == {"not-dispatched", "attempted"}
NativeOutcome == {"unknown", "completed", "failed"}

TypeOK ==
    /\ local  \in [Turns -> LocalOutcome]
    /\ disp   \in [Turns -> Dispatch]
    /\ native \in [Turns -> NativeOutcome]

\* Written to the runtime and not yet answered: "native outcome unresolved".
Unresolved(t) == disp[t] = "attempted" /\ native[t] = "unknown"

Init ==
    /\ local  = [t \in Turns |-> "none"]
    /\ disp   = [t \in Turns |-> "not-dispatched"]
    /\ native = [t \in Turns |-> "unknown"]

----------------------------------------------------------------------------
(* One step may settle one turn and dispatch the next, so the specification *)
(* says what a step may do to each turn, and what must hold of them all.    *)

\* A caller is told once.  "resolved" needs the runtime's own outcome.
LocalStep(t) ==
    \/ local'[t] = local[t]
    \/ local[t] = "none" /\ local'[t] \in {"pending", "rejected"}
    \/ local[t] = "pending" /\ local'[t] = "rejected"
    \/ local[t] = "pending" /\ local'[t] = "resolved" /\ native'[t] # "unknown"

\* Only a send its caller still waits for is written; a write proved not to
\* have run (the resumed conversation is gone) becomes a no-send.
DispatchStep(t) ==
    \/ disp'[t] = disp[t]
    \/ /\ disp[t] = "not-dispatched" /\ disp'[t] = "attempted"
       /\ local[t] \in {"none", "pending"}
       /\ native[t] = "unknown"
    \/ /\ disp[t] = "attempted" /\ disp'[t] = "not-dispatched"
       /\ native[t] = "unknown"

\* The runtime answers a turn once, and only a turn that was written.
NativeStep(t) ==
    \/ native'[t] = native[t]
    \/ Unresolved(t) /\ native'[t] \in {"completed", "failed"}

AtMostOneUnresolved ==
    \A t, u \in Turns : Unresolved(t) /\ Unresolved(u) => t = u

Step ==
    /\ \A t \in Turns : LocalStep(t) /\ DispatchStep(t) /\ NativeStep(t)
    /\ local'  \in [Turns -> LocalOutcome]
    /\ disp'   \in [Turns -> Dispatch]
    /\ native' \in [Turns -> NativeOutcome]
    /\ AtMostOneUnresolved'

Spec == Init /\ [][Step]_vars
=============================================================================
