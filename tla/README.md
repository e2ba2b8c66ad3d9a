# agent-session in TLA+

Models, checks and proofs of `@inixiative/agent-session`: a TypeScript package that drives coding-agent
CLIs (Claude Code, Codex, Muse) as persistent sessions, answers decisions with warm forks and subagents of
them, and pools subscriptions on top of them. File names below are those of the
repository's source (`pool.ts`); `PROJECT.json` maps every definition to its lines.

The system runs in one JavaScript process. There is no preemption: what makes it hard is that every
`await`, callback, timer and stream line is a point where any other handler may run, and that the other end
is a separate process which answers late, twice, to somebody else, or never.

- [Inventory](#inventory)
- [Modules](#modules)
- [Runs](#runs)
- [Proofs](#proofs)
- [Where code and comments disagree](#where-code-and-comments-disagree)
- [What is not modelled](#what-is-not-modelled)
- [Plan](#plan)

## Inventory

| Component | State it keeps | Operations | Hard behaviour | What makes it correct |
|---|---|---|---|---|
| `HarnessSession` contract, `TurnState` | per attempt: caller's, dispatch's and runtime's outcome, evidence | `fail`, `record`, `result` | the caller may be told "rejected" while the runtime works on | a caller is told once; settling the caller never gives up native work; one unresolved turn at a time |
| `ClaudeCodeSession` | current process, `_alive`, native id, `_inflight`, `_queue`, one turn timer, control requests, seen results | `start`, `send`, `interrupt`, `kill`, readers, exit handler | two handlers settle a death after awaits; late, foreign and repeated lines; restart with `--resume`; registration before the write | ownership across processes; honest outcomes; nobody forgotten or stranded |
| Steering (`push`, `interruptNative`) | `turn.steers`, `turn.held`, outstanding withdrawals | `push`, `_releaseHeld`, `_withdrawSteers`, lifecycle lines | a steer's own result comes after the turn's; stops race completions | answers stay in their turn; a stop ends its turn and everything pushed into it |
| `SubscriptionPool` | leases, health and limits per instance | `acquire`, `open`, `continueOn`, `release`, wrapped `start`/`kill` | decisions after awaited polls; automatic restarts; moving a thread | capacity; no fork of a thread; no leaked lease |
| Limits and health | last snapshot, cooldown, failures, probe cooldown | `observeLimits`, `refreshLimits`, `reportFailure`, `reportSuccess`, `mergeLimits`, `assessCandidate` | sparse updates from several sources, time, blocked flags that outlive windows | a block is honoured; cooldowns are kept; an instance comes back |
| Routing | none (pure) | `rankCandidates`, orderings | ties, unknown utilization | deterministic, total, respects exclusions |
| Codex app-server session, JSON-RPC | thread, in-flight turn and its native id, pending requests, queue, turn timer | `start`, `send`, `push`, `interruptNative`, `kill`, approvals, tool calls, readers, exit handler | notifications race the RPC answer; a lost answer leaves the turn unidentified; a caller gone while the thread is prepared | the same contract; evidence is what the server did; nothing is written for a caller who is gone |
| Muse session | host, session, in-flight turn, held frames, requests that wait for their turn's name | `start`, `send`, `push`, `interrupt`, `interruptNative`, `kill`, approvals, questions, `_hostDied` | the host runs turns nobody sent; frames come before the answer that says whose they are | the same contract; frames and requests are credited to their turn; nothing waits for ever |
| Primed sessions (`primed.ts`, Claude, Codex) | slots, per-key queues, sessions with their transcripts or base threads, spare forks, hedges, the shared process | `decide`, `prime`, `evict`, `close`, idle eviction, recycling | sessions dropped while decisions fork from them; aborts at every wait; a hedge that outlives the race; one process for all | slots are returned; callers told the truth; a transcript lives as long as it is used |
| Subagent groups | batch, waiting chunks, reserved spares, side sessions, standby turns, fan-outs | `decide`, `prestart`, `releaseGroup`, `close`, hook claims, fallbacks | a reservation moves to a fan-out at any moment; a dispatcher that skips, repeats or invents members | each input reaches one subagent once and whole; nobody is left behind; nothing sent is called unsent |
| In-session agents | agents, claims, mailbox | `extend`, hooks, MCP calls | shares the session's protocol with user turns | an agent's work never settles a user turn |
| Agent SDK session | as `ClaudeCodeSession` over the SDK | as above | the same | the same |
| Tool gates | ordered gates | `onToolRequest`, decide | a gate that throws or never answers | first deny wins; a failure denies |
| Secret scratch pad | pads, pipes, leases on values | create, read, close | expiry while in use | nothing readable after close |
| Limit probes, transports, usage parsing | none | pure or one short session | | |

How they interact: a caller (or the pool) calls a session; a session writes lines to its CLI and reads lines
back; the pool wraps `start`/`kill` of each session it opens and listens to its `session_end`, `result` and
`rate_limit` events, which feed the leases and the instance's limits; primed and subagent hosts drive
sessions as callers do. `PROJECT.json` lists under `hazards` what in all this is hard to test, with the
properties that cover each item.

## Modules

```
TurnOwnership                    what every session promises
  ^ implemented by  ClaudeSession   processes, turns, settlement     <- ClaudeSessionProofs
  ^ implemented by  ClaudeSteer     push, held turns, stop             <- ClaudeSteerProofs
  ^ implemented by  CodexSession    one app-server, JSON-RPC         <- CodexSessionProofs
  ^ implemented by  MuseSession     one Muse host                    <- MuseSessionProofs
Slots                            the semaphore of a primed host      <- SlotsProofs
  ^ extended by     ClaudePrimed    decisions on forks of a conversation        <- ClaudePrimedProofs
  ^ extended by     CodexPrimed     decisions on forks of a thread, one process <- CodexPrimedProofs
ClaudeSubagents                  decisions on subagents of side sessions
  ^ extended by     ClaudeSubagentsInv  its inductive invariant        <- PoolAndSubagentsProofs
Pool                             leases, open, continueOn             <- PoolAndSubagentsProofs
InstanceLimits                   limits and health of one instance    <- ClaudePrimedProofs
MC*                              the small sets, scenarios and symmetries for TLC
```

**TurnOwnership.** The abstract specification: three outcomes per send, what one step may change in each,
and that at most one send has unresolved native work. It follows `TurnState` and the contract comments of
`harness-session.ts`; it knows nothing of processes, queues or steers. Four modules are shown to implement it.

**ClaudeSession.** The code's asynchronous functions are cut exactly at their `await`s. `send()` is
`SendBlocked` (the first check), or `SendRestarts` (awaits `start()`) or `SendEnters` (goes on to the hooks),
then `SendAdmits` (everything from the creation of the attempt to the write or the queue). `start()` is
`Spawn` plus `StartReturns`; `_readStdout` is the `Read...` actions plus `ReadEof` / `ReadSettles` around its
await of stderr; the exit handler is `ExitNoticed`, `ExitDrained`, `ExitSettles`. Helpers
(`RejectInflight`, `WriteTurn`, `ProcessNextTurn`, ...) bear the methods' names and are called where
the code calls them. Per process, `init`, `reader` and `exitw` are the suspended continuations, so that the
handlers of an old process go on acting after a `kill()` and a new `start()`. The CLI is external:
it answers in order, may say nothing for ever, close its output, exit, refuse to resume, and send a result
again. `Faults` names which of these a run explores, on top of crashes.

Two assumptions about the CLI are worth naming. A conversation found missing stays missing: the code's own
test for a conversation that was loaded cannot succeed (see below), so without it a turn that ran
could be called undispatched. And a result line follows the turns in the order they were written.

**ClaudeSteer.** The same session with one process that stays alive, seen from `push()`. Steers are written
to the CLI's stdin, taken into the run or run afterwards, and named by `command_lifecycle` lines; the
turn is held while one may still be answered. The CLI's side follows the recordings in
`fixtures/claude-steer`. `credited`, `hit` and `asked` are history: whose results were recorded where, which
run an interrupt hit, what the stop withdrew. A behaviour has one of `Events`: a stop, or
confirmations and withdrawals that come too late and runs that fail.

**CodexSession.** `_sendTurn` is one suspended function per turn, and `phase[t]` is the await it stands at:
registration, initialize, the thread, its inventory of tools, `turn/start`. Its answers (`ThreadAnswered`,
`InventoryAnswered`, `ReadTurnAnswer`) race the turn's own notifications (`ReadStarted`, `ReadCompleted`), the
timer, `kill()`, the reader's end and the exit handler, and the function goes on after each of them, as the code's does. A
turn leaves the session only when its terminal and its `turn/start` answer are both known
(`_canReleaseAttempt`). `runs[i]` is what the server really did: evidence is compared with it. Gates decide
one after the other and may do so after their request was withdrawn; one that throws denies, and is modelled as one that
denies. `_releaseKnownTurn` runs after every line the server writes, so a send rejected before it was written gives its slot
away on any line, also while its `onAdmission` is awaited (`ReleaseNoSend`): the next send is then dispatched beside it, and
`RegistrationDone` and `RegistrationFails` ask first whether the turn is still the one in flight. A write of `turn/start` or
`turn/steer` that throws may have been delivered all the same.

**MuseSession.** As CodexSession, over a host that also runs turns nobody sent (`Own`). A frame names only its turn
and a send learns its turn's name from the `turn/start` answer, so frames of unknown turns are held (`held`), and
approvals and questions wait for the answer. `told[i]` is how much of a turn was read. Frames are read until the
connection is closed, which `kill()` brings about only later (`LinkCloses`); the answer to `turn/start` may be lost
although the connection lives (`AnswerLost`), and frames go on to come.

**Slots.** The semaphore of `primed.ts`: `Acquire`, `TryAcquire`, `Release`, `Leave`, `Drain`. Its `grant` is
history: who holds, waits, or is done.

**ClaudePrimed.** `decide()` is a phase per await, and beside it the lookup of its session, a task
in its key's queue that runs on when the decision has left. `cleanup` is the disposal of a fork and the making of
the next spare, which run beside later decisions. `proc`, `turn` and `files` are what really exists: processes,
the turns in them, transcripts.

**CodexPrimed.** The same host idea on one shared process: a branch (`<<"first", d>>`, `<<"hedge", d>>`) opens,
starts its turn and races the other; generations name the processes, so that answers and evictions of an old
one are told apart. `leg[l].run` is what the server does with the branch's turn, from the moment it is written, and
`leg[l].st` what the host did with the branch: a hedge that could not open or start is `failed`, and `Unknown` if its
turn may run all the same. A branch can break the text only policy from the moment it is open, also before its turn.
`Specs` are scenarios: keys, contexts, slots, and what may go wrong in them.

**ClaudeSubagents.** The handlers run whole between awaits and call each other through several levels
(`_lost` calls `_fallback` and `_drain`; the end of a turn calls `_replenish`), so each is an operator from the
host's state to the next, with the method's name, and an action is the event that sets one off: a
decision, a registration's answer, a hook call, a result, a deadline, an exit. A loop of the code (`while` in
`_drain`, `for` in `_replenish` and `_releaseSpent`) is a fold of an operator that stands for one turn of it (`DrainOne`,
`Round`, `EndSpent`); a loop whose turns do not see each other (`_fallback` of several, `_kill` of several) changes all at
once. A reserved decision that falls back is registered again by its fan-out, and the two registrations answer each for
itself: either may refuse a decision of `spec.refused` (`Reserved`, `FanAdmitted`). `_kill` waits 2 s for the exit and then
settles what the side session held; `GivenUpOn` is that moment, and what ran there is `adrift` from then on.
`native[d]` is what the runtime did with a decision's input: which subagents got it and what text they got.
`ClaudeSubagentsInv` holds the inductive invariant and the terms of its proof; it models nothing.

**Pool.** `open()` and `continueOn()` each await a refresh and then decide in one step: two actions
(`OpenBegins`/`OpenEnds`, `MoveBegins`/`MoveEnds` or `MoveRefused`) with `ProbeEnds` between. A slot of
`Sessions` is a call, its lease and its session. Ranking is any choice among the eligible instances, so
the results hold for every ordering. Limits are three healths that change at any time.
`again` is history: sessions whose `start()` was called while they had a process (see below).

**InstanceLimits.** One instance in time, with times kept as ages and time left. `Excluded` follows
`assessCandidate`, `NeedsPoll` follows `_refreshStale`, `Merge` and `Replace` follow `mergeLimits`. Windows are
"none", "low" or "full". `seen` and `said` are history: when each window was really read, and what
the runtime last said of being blocked.

The operators whose names extend another's and that nothing uses (`InterruptReleasing` beside `Interrupt`)
are mutations: bugs the code could plausibly have, substituted for the real operator to confirm that the
property notices.

## Runs

| Run | Bounds | Asks |
|---|---|---|
| `cs_safety` | 2 sends with `onAdmission` and no timeouts (`interrupt()` may settle them at any time, as a timer does), 2 processes; hooks throw, resumes are refused, a result repeats; 3.6 M states | ownership, honest outcomes and no-sends; the proofs' inductive invariant; implements `TurnOwnership` |
| `cs_live` | 2 sends with timeouts, 1 process, tool gate; writes throw, output closes or cannot be read; 233 k | nobody forgotten, sends settle, restarts are answered |
| `steer` | 2 turns, 2 steers, and a stop, or slow answers with failing runs; 1.2 M | answers stay in their turn while it does not fail; the stop is its own and outlived by nothing; held turns settle; implements `TurnOwnership` |
| `codex` | 2 sends, one registered, thread and inventory preparation, one steer, stop, tool call or gated approval (2 gates); malformed answers, failed writes, closed output, exits; 1.8 M | evidence is what the server did; gates; nothing is written late; sends settle; implements `TurnOwnership` |
| `muse` | 2 sends, 1 own turn of Muse, started or forked session, one approval, question, steer, stop or interrupt; answers lost, kill, host death; 733 k | evidence; crediting; sends settle; waits end; implements `TurnOwnership` |
| `claude_primed` | 2 decisions of one key, of one key with a changed context, or of two keys with room for one; 1 or 2 slots, 1 `evict()`, spares; deadlines, failing primers, limits, exits, idleness, `close()`; 5.4 M | slots conserved; transcripts live as long as used; callers told the truth; `close()` leaves nothing |
| `codex_primed` | 2 decisions and a `prime()`, hedges, 1 to 3 slots, 2 processes, in ten scenarios; 2.4 M | turns stay within the slots; truth; violations recycle; base threads live as long as used |
| `claude_subagents` | 2 decisions, 2 roles, 3 side sessions, in fourteen scenarios; 2.4 M | truth; one subagent per input, with the whole input; nobody forgotten |
| `pool` | 3 sessions, 2 instances (limits 2 and 1) with one history; 428 k | capacity, no fork, no leak |
| `limits` | 2 windows, age 1, resets one step away or never, cooldown 1 to 3, 2 polls; 56 k | blocks honoured, recovery |
| `cs_forgotten` | 1 send with `onAdmission`, 1 process | a caller nobody can reach any more (a violation) |
| `codex_primed_hedge` | as `codex_primed` | a hedge that outlives its decision (a violation) |

*Why the bounds are enough.* Ownership, queueing and stranding need an owner and one behind it: two sends. What goes
wrong across processes involves an old process and the current one: two. A steer that is answered in the wrong turn
needs that turn: two turns, and two steers so that one is withdrawn while the other runs. Crediting a frame wrongly
needs a turn of ours and one of Muse's, and a queued send behind. A slot is contended by two decisions, a session
shared or replaced by two, and dropped by a third call (`evict()`, `prime()`, `close()`) while both use it; a process
is replaced once by its recycling. A subagent's input goes to two places only if one decision fell back while another
shares its batch, its chunk or its side session; a third side session is what a replenish or a second fan-out adds.
Each kind of fault of the subagents (a process that exits, is silent, ends its turn or fails by itself, a member that
uses a tool, ...) is in a scenario with decisions it is about. Over-capacity needs a full instance and one call more,
a move needs a target: three sessions on two instances, one of which has room for one. A stale reading needs two
windows; a cooldown needs to double past its maximum, and two polls in flight answer in either order. Every unbounded
quantity has a named bound (`MaxProcs`, `MaxCalls`, `MaxGens`, `MaxSides`, `MaxPolls`, `MaxFailures`, `MaxLeft`, one
repeated result, the sets of sends, decisions and sessions).

*Why faults are split.* Together they exceed what TLC visits in minutes. `ClaudeSession` splits them over two
runs, and its safety is proved for all faults at once. In `CodexPrimed` and `ClaudeSubagents` the
split is part of the state: TLC starts from each of `Specs`, which pairs the faults with the decisions they are
about (a recycled process with hedged decisions, a released group with a reserved one). Symmetry is used in runs
that check no property with fairness, where sends or sessions are interchangeable.

`CHECK_DEADLOCK FALSE` is set where the session or host may legitimately stop: every send settled, every
process gone. `limits` never stops (time goes on) and is checked for deadlock.

*Fairness.* `ClaudeSession`, `CodexSession`, `MuseSession`: continuations that are ready run (the event loop is
fair), a timer that was set fires, output that arrived is read, an exit or a lost link is noticed, and the
caller's own hooks and `onAdmission` return. Nothing is assumed of the CLI, the app-server or the Muse host;
`SendsSettle` holds because the sends have timeouts, which is why `Timed` covers every send there.
`CodexSession` excepts a send with `onAdmission`, which has the defect `cs_forgotten` shows. `WaitsEnd` (Muse) excepts
a request whose turn's answer is still due although its caller was told, which `interrupt()` brings about.
`ClaudeSteer`: the reader and the stop go on, and the CLI works through what it was given; a held turn has no
bound of its own but the CLI's progress, so `HeldSettles` needs that much. `InstanceLimits`: time passes, opens
keep asking, and polls end; `Recovers` concerns behaviours in which eventually nothing but polls that find
capacity, successes and time happens. The primed hosts and the subagents are checked for safety only; that
nobody is left behind is stated there as an invariant (`NobodyForgotten`: whoever waits is somewhere something
will take it up).

## Proofs

`ClaudeSessionProofs` proves, for any set of sends, any number of processes, any registrations,
timeouts, gate and faults:

- `TypeCorrect`: `Spec => []TypeOK`.
- `OwnershipHeld`: `Spec => []OwnerHolds`. Native work without an outcome belongs to the turn in flight.
- `OneUnresolved`: hence at most one send has unresolved native work.
- `Invariance`: `Spec => []OwnershipInductive`, from which they follow.

`OwnerHolds` is not inductive. A queued turn that had already been written would, when dispatched, leave
its old work with no owner; so `QueueWaits` says that what is queued was never written, is not being
registered and is queued once. `RegistrationWaits` says the same of turns whose `onAdmission` is outstanding: when
it returns late, the slot that it frees was never written to. `UnsentUntouched` and `StartersWait` keep a
`send()` that is still starting or running hooks from being one of those, and from being continued by two
`start()`s. `LinesAnswered` says that a result line stands for a run that ended, so that what is recorded
is an outcome. The proof has one lemma for types and one for
ownership per group of actions, and states what each helper (`WriteTurn`, `DispatchTurn`, `ProcessNextTurn`,
the rejections) leaves behind once, so that the actions that call it cite it. Assumed: only
`SessionAssumption` (the constants' types, `NoTurn` is not a send, at least one process).

The second half of `ClaudeSessionProofs` goes on from there, in the same generality:

- `OutcomesHonest`: `Spec => []HonestOutcome`. A recorded outcome is the one the CLI reached for that turn.
- `NoSendHonest`: `Spec => []HonestNoSend`. A turn called undispatched was never read by a CLI.
- `KeepsOwnership`: `Spec => ImplementsOwnership`. Every step is a step of `TurnOwnership` or a stutter.
- `HonestInvariance`: `Spec => []Inductive`, from which they follow; TLC checks `Inductive` in `cs_safety`.

`Inductive` adds to `OwnershipInductive` what joins the session to the processes. `TodoOwned`: of the CLIs that can
run a turn, at most one holds one, which is the turn in flight, and only until it answers. `LinesOwed`: a result
not seen yet is of a turn whose outcome is still unknown; with `OwnerHolds` that turn is the one in flight, so a result
is recorded for its own turn though the session never compares the two. `GoneForGood`: once a CLI found the conversation
gone every later one finds so too and no other holds a turn, so the turn the missing-conversation path calls
undispatched is unread; it rests on `Spawn` being refused while work is unresolved, and fails without the assumption
that a missing conversation stays missing. `AnsweredWasWritten`, `QueuePending` and `UnsentUntold` are what the
refinement needs besides: only a written turn is answered, once; a queued send still waits, so that writing it is
allowed; a send that is not an attempt was told nothing. Each step is then one `LocalMoves`, `DispatchMoves` and
`NativeMoves`, and `MovesMap` turns these into a step of `TurnOwnership`.

Its last part is about callers left behind. `OnlyLateAdmissionForgets` goes through every step and finds that
`NobodyForgotten` is lost in one alone: `onAdmission` resolves on a session that died meanwhile, for a caller who still
waits, which is the finding of `cs_forgotten`; every other rejection, dispatch and release finds or places whoever
waits. Hence `NobodyIsForgotten`: `Registered = {} => (Spec => []NobodyForgotten)`, the hypothesis of `cs_live`.

`ClaudeSteerProofs` proves, for any turns and steers, finite or not, and any events, from `SteerAssumption` (turns and
steers are told apart and `None` is neither):

- `TypeCorrect`: `Spec => []TypeOK`; `KeepsOwnership`: `Spec => ImplementsOwnership`.
- `SteersAnsweredInTurn`: `Spec => []SteersStayInGoodTurn`. While nothing failed or was stopped, every result of a steer is
  recorded in its own turn.
- `StopHitsItsOwn`: `StopsAlone => (Spec => []StopIsOwn)`, and `StopIsForTheWholeTurn`:
  `StopsAlone => (Spec => []NothingOutlivesStop)`. The interrupt ends only what runs for the turn it was asked for, and
  no steer the stop found waiting runs once it was read. `StopsAlone` says that where a stop may be called nothing is
  slow and no run fails by itself, as in the run `steer`. Without it both fail: TLC violates each of them when `Events`
  is `{{"stop", "fails"}}` or `{{"stop", "slow"}}`.

The first two rest on `Typed`, which says besides types that the turn in flight is the one with an unknown outcome and that
what is queued was not written (`Owned`), and that what is written, said or waits are steers that were pushed, so far
finitely many: the order in which `_withdrawSteers` writes its requests presupposes it. The third is about
three queues, what the session wrote, what the CLI has not run and what it said that the session has not read, and the
session's own record of each steer. `Core` joins them, as long as turns go well: a steer is in one place (`Placed`); what
the session may still read of a steer is limited by where it is (`Unread`, `Waits`, `Runs`, `Ran`: nothing, its
`queued` line, then its `started` line after every result before it, then its result and its `completed` line in this
order), and so is the session's record of it; and the turn's own message is alone with the CLI until it ran
(`TurnAlone`). So a held turn is released only when no steer of it is anywhere, and the next turn
finds the CLI idle (`AloneAtFirst`). A result always finds its own turn in flight (`ResultIsOwn`). TLC checked `GoodCore`
before it was proved.

The last two start where `Core` ends: a stop leaves its turn without the release rule, so what the turn still has with
the CLI has to be followed past it (`Stopping`, TLC checked it before it was proved). Until the interrupt was read, what
the CLI has, and will read before it, is of the stopped turn (`Aimed`): so whatever it hits is that turn's. While the
withdrawals are out, every steer not read, waiting or running still keeps its turn open (`Live`, what remains of
`Core`), so the turn cannot be released with work left; each withdrawal follows its steer in stdin, and one that was
answered leaves nothing of it, read or waiting (`Withdrawn`, `Gone`). The interrupt is written after the last answer:
of the steers withdrawn only one that runs can be left, and the interrupt that ends it is on its way (`Ended`).

`CodexSessionProofs` proves every safety property of `codex`, for any sends, gates, tools, limits on them and
faults, from `CodexAssumption` (the constants' types, `NoTurn` is not a send):

- `EvidenceHonest`: `Undisturbed /\ Spec => []HonestEvidence`. What a turn's evidence says is what the app-server did.
- `GatesAndToolsHeld`: `Spec => []GatesAndTools`. A request is accepted only when every gate was asked and allowed it;
  a tool's result counts after its use, each once.
- `KeepsOwnership`: `Spec => ImplementsOwnership`.
- `NothingIsLate`: `Spec => NothingLate`. Nothing is written for a caller who is gone, and no decision acts on a request
  that was withdrawn or a session that died.
- `Invariance`, `TypeCorrect`: the invariant they follow from, and its type part.

The invariant has one part for the owner of the session (`PhaseOwned`, `OwnerHolds`, `PhaseKnows`: at each await of
`_sendTurn` the turn is the one in flight, and what is known of it; a turn whose `onAdmission` is awaited need not be
in flight any more, but then its caller was told and nothing of it was written), one for the queue (`QueueWaits`, as
in `ClaudeSession`, and that nobody is queued behind a turn whose caller was told, so that a slot given away leaves
nobody behind), one for what was not asked yet (`Unasked`), and the rest join the session to the server: `Heard` (the
id of a turn whose outcome is recorded is among the terminals seen, so that none is recorded twice), `CallsHonest` (a
steer whose write did not throw is called what became of it, a stop acknowledged for a turn that ended), `GatesAllow`
(a gate that is asked is asked because those before it allowed), `ToolCounts` (the open item is the admitted turn's)
and `NamedOwn` (a turn has no id or its own, and a recorded outcome is that of its run). `NamedOwn` is why
`EvidenceHonest` has a hypothesis, `Undisturbed`: only this session starts turns on its thread. A `turn/started` read
while the answer to `turn/start` is outstanding is taken for ours whoever started it (`codex-session.ts:1481-1482`),
and the answer is then compared with it (1397). With the fault `"other"` TLC finds the outcome of somebody else's turn
recorded as ours. The other five theorems hold with it too.

`MuseSessionProofs` does the same for `muse`, from `MuseAssumption` alone:

- `EvidenceHonest`: `Spec => []HonestEvidence`; `RightlyCredited`: `Spec => []CreditedRight`.
- `KeepsOwnership`: `Spec => ImplementsOwnership`. A `turn/start` the host refuses counts as never sent.
- `Invariance`, `TypeCorrect`.

Besides the parts it shares with the Codex session it needs `TimerOwned` (an armed timer is that of the turn in
flight), `AnswersKnown` (a turn is named by the answer to its `turn/start` alone, and its recorded outcome is the
host's), `HostKnown` (what is asked or open presupposes a host), `LossKnown` (while a turn's answer is awaited only
`kill()` makes it unknown), `ToldKnows` (what the host said of a run happened to it), `HeldRight` (a frame held back,
until the answer says whose it is, is of the turn in flight, whose answer is pending, or of the turn Muse runs
itself), `Sorted` (neither is taken for the other, but for turns that are `GivenUp`: their answer was lost, or
`kill()` gave them up) and `RequestsRight` (a question or approval is given only to the turn it belongs to). When the
answer comes, the held frames are applied in a fold. What it leaves behind is proved for any number of them by an
induction on the set of frames applied (`SetInduction`, `FoldKeeps`), stated with sets in place of operators so that
the prover can instantiate it.

`SlotsProofs` proves `SlotsHeld`, `SlotsSpec => []SlotsConserved`, for any finite set of callers and any limits: the
count is that of the holders, it stays within the limit, nobody waits while a slot is free, and the queue has just
those who wait, each once. `SlotsTypeOK /\ SlotsConserved` is inductive: that a slot can be handed on without
touching the count needs the first waiter to be one who holds nothing, which is what the last two parts say.
The lemmas are about the queue (its tail, and itself with one element cut out, as `Leave` does) and about
the cardinality of the holders when one joins or leaves. Assumed: `SlotsAssumption`.

`ClaudePrimedProofs` and `CodexPrimedProofs` carry it to the hosts: every step of a decision takes, passes on or
leaves a slot as `Slots` does, every other step leaves them alone, so each host implements `SlotsSpec`
(`ImplementsSlots`) and keeps `SlotsConserved` (`HostSlotsHeld`). In the Codex host a holder is a decision or its
hedge. That a slot is conserved does not mean that it is given back: the hedge of `codex_primed_hedge` holds its slot
for good.

`ClaudePrimedProofs` goes on to every property of `claude_primed`, for any decisions, keys, contexts, `evict()` calls
and faults, from `ClaudePrimedAssumption` (the calls, processes and who may drop a session are told apart) and
`SlotsAssumption`:

- `TranscriptsKept`: `Spec => []TranscriptsHeld`. While the host is open a session that decisions fork from keeps its
  transcript, whatever drops it; a transcript out of the map has someone who will remove it; the reference counts are
  exact.
- `CallersToldTruly`: `Spec => []ToldTruly`; `NothingLeft`: `Spec => []ClosedClean`.
- `Invariance`, `HostTyped`: the invariant they follow from, and its type part.

The properties are not inductive, because the lookup, the drop and the cleanup of a session outlive the decision that set
them off. `PhaseKnows` and `StartedOnce` say what the place where a decision is suspended implies for its slot, session,
process and turn, and that each process is started once. `QueueRight` and `ActiveRuns` say that a key's queue has each
waiting task once and that whoever drops, makes room or primes is at its head; hence, `RoomEmpty`, a key has no
session in the map while a task of it does so, and a session is installed only into an empty place. `MapRight` and
`DropsRight` keep a session out of the map once its drop began, name one drop per task and let a stale mark stand only
for a session that was dropped. With `HeldRight` and `Counted` (the count is the number of the decisions that hold it)
this gives `FilesUsed`: the last decision out, or the drop, whichever is later, removes the transcript. `EmptyClosed` is
what close() needs for a primer that comes late.

`CodexPrimedProofs` does so for every property of `codex_primed`, for any decisions, warm-ups, keys, contexts, slots,
processes and scenarios, from `CodexPrimedAssumption` (the calls and their slots are told apart) and
`SlotsAssumption`:

- `CallersToldTruly`: `Spec => []ToldTruly`; `ViolationsCostProcess`: `Spec => []ViolationsRecycle`.
- `ThreadsKept`: `Spec => []BasesHeld`. Base threads are there while needed and deleted when not.
- `TurnsBounded`: `Spec => []RunsWithinLimit`.
- `Invariance`, `HostTyped`: the invariant they follow from, and its type part.

`Inductive` has two halves besides the types, the slots and `ProcessRight` (the current or starting process is the
last one). `DecisionsRight` says of each decision what its phase implies: what is told and chosen, and that a phase
reached by a recycling has its process killed (`Knows`); that it has its slot to the end and its hedge has its own
while it starts or races (`SlotKnown`); which branches exist (`Branched`); and, `Finished`, which of their turns
are over. The crux is `fine`, what `_stopBranch` and the last wait returned: if the other branch was not seen to end,
the process is not up, and only then may the decision go on. `SessionsRight` says that a session not installed yet is
nobody's (`Priming`), that a session in the map is fresh and of its key (`MapRight`), that the counts are exact
(`Counted`), that a decision's session keeps its thread unless evicted (`HeldRight`), and that a thread
outside the map is stale and in use or being primed (`ThreadsUsed`): the decision that hands a stale session
back last is then the one to delete it. The lemmas say once what each helper (`Recycle`, `Retire`, `HandsBack`,
`KeyPrimes`, `MakeRoom`) does to a decision or session that it leaves in place. `RunsWithinLimit` then follows by
an injection: a turn that runs on a process in service is charged to its decision's slot, or to its hedge's, and the
held slots are at most `limit`.

`PoolAndSubagentsProofs` proves every property of `claude_subagents`, for any decisions, roles, contexts, number of side
sessions, sizes of chunks and groups, and scenarios, from `SubagentsAssumption` (finitely many decisions, bounds of at
least one, roles that fit in one standby turn, and the constants' types):

- `SubagentsToldTruly`: `SubagentsSpec => []ToldTruly`. Nothing that reached a subagent is called not dispatched, unless its
  first registration is refused after a fan-out registered it again; and nothing that runs is called settled, unless
  `_kill` gave up waiting for the exit.
- `SubagentsOncePerDecision`: `SubagentsSpec => []OncePerDecision`; `SubagentsWholeInput`: `SubagentsSpec => []WholeInput`.
- `SubagentsNobodyForgotten`: `SubagentsSpec => []NobodyForgotten`.
- `SubagentsInvariant`, `SubagentsTyped`: the invariant they follow from (`GroupInv`), and its type part.

`GroupInv` has to hold inside a handler too, where `_lost` has already taken a side session out of the group and has
not yet resumed what awaited it. So its main part is a predicate `Right(h, n, e)` of any host `h` and runtime `n`,
with `e` the side session that is being lost or whose turn just ended, and each operator of the model has one lemma:
it takes a host that is right to one that is (`FallbackAllKeeps`, `SettledAllKeeps`, `DrainKeeps`, `ReplenishKeeps`,
...). An action's lemma composes these. `Right` says of each decision what its fields imply together (`MemberRight`:
one called unsent was never sent, one refused after it was sent had left its spare, one delivered was admitted, its
input is whole unless a spare holds its context); that it is in at most one of the batch, the waiting chunks and the
side sessions' chunks, and then not sent (`ApartOn`); and how the runtime and the host see it (`AgreeOn`). `AgreeOn`
is the crux of three properties: an input is written exactly when `used` is set, and on the side session that has the
decision as a member, so a settlement, a kill or an exit that takes the members takes all that runs. `SpareRight`,
`SideRight` and `HeldRight` say the same of spares and side sessions: a member of a spare is reserved on it and no
other, what is listed in a dispatcher's turn was registered, and a chunk sent again holds only what was skipped.
`KeptOn` is the half of `NobodyForgotten` that is about one decision; the other half, `Served`, is about the queue: as
long as a chunk waits there is a fan-out session that is busy or dying, whose end drains it. It is not part of
`Right`, because `_lost` breaks it until its `_drain` is over. `Rest` says that between steps nothing runs on a side
session that is gone, but what is `adrift`. `_drain`, `_replenish` and `_releaseSpent` are folds: their lemmas go by
induction on how far the fold came (`FoldExists`, `StepsInduction`), stated with functions and sets so that the prover
can instantiate them. TLC checked `GroupInv` and `SubagentsTypeOK` over the fourteen scenarios before they were
proved.

Its last part proves all three properties of `Pool`, for any instances, limits and sessions: `Capacity`
(`CapacityHeld`), `MovedOnce` (`NoFork`), `LeasesEnd` (`NoLeak`). Capacity does not follow from the counting in
`assessCandidate` alone: it needs that whatever may run has its lease (`OpenLeased`), which a restart would break if
a session that ended could still have one (`EndedReleased`), and that a call about to lease has none yet
(`AskingFresh`). `MovedOver` says that the session a thread moved from is over, released and without work; since a
released session is refused by `start()`, it stays so. `StartedAlready`, the case in which `start()` is called on a
running session, is excluded by `again`, as in the run. Assumed: `PoolAssumption` (finitely many sessions, limits of
at least one).

The last part of `ClaudePrimedProofs`, about `InstanceLimits` (whose detail `Pool` has as one of three healths),
proves `BlockIsHonoured` (`LimitsSpec => []BlockedHonoured`), for any windows, ages and cooldowns. The invariant
(`BlockKnown`) is that what the runtime said of a block is still in the snapshot, and that nothing was said before the
first one: an update that names no flag replaces an empty snapshot but merges into a known one.

Every safety invariant and action property that a run checks is proved, but for those that a run shows to be violated.
Only model-checked is liveness (`SendsSettle`, `RestartAnswered`, `HeldSettles`, `WaitsEnd`, `Recovers`): temporal
reasoning under fairness is out of the prover's reach. So is induction over data, but for the folds of Muse's held
frames and of the subagents' loops, where the induction is on a natural number or on a set. `NobodyIsForgotten` of
`ClaudeSession` keeps the hypothesis that nothing is registered, without which the run `cs_forgotten` refutes it. The
type invariants of all modules but `InstanceLimits` and `TurnOwnership` are proved; those two document their state.

## Where code and comments disagree

Two disagreements have a run that shows them; `PROJECT.json` quotes them under `findings`.

- `cs_forgotten`, `NobodyForgotten`: `onAdmission` returning between the exit handler's `_alive = false` and its
  settlement frees the slot without telling the caller (`claude-code-session.ts:1110`). That send never settles, not
  even on `kill()`.
- `codex_primed_hedge`, `BranchesOver`: a race decided while the hedge's `start` is pending ends without it
  (`codex-primed.ts:904-978`): its turn runs on and its slot is never returned, against line 833, "The decision is
  settled only when every branch it started is".

The others are stated in the modules as properties that do not hold; no run lists them, and each fails when it is
added to the run of its module.

- `ClaudeSession!RestartsAfterDeath`: line 838 says "Auto-restart after interrupt / process death", but after a
  crash `_proc` stays set (line 853) and the next `send()` is refused as a dead session's; only a `kill()` first makes
  it resume.
- `ClaudeSession!RefusedOnlyForWork`: a turn settled as a no-send by the missing-conversation path stays in
  flight, so the session refuses later sends (line 883); `tests/claude-code-session.test.ts:845` says that it "doesn't
  wedge the session".
- `ClaudeSteer!SteersStayInTurn`: a failed turn settles before its steers are withdrawn
  (`claude-code-session.ts:1594`); one already started answers in the next turn, against `harness-session.ts:501`,
  "the pushed text is answered inside the turn it was pushed into". `SteersStayInGoodTurn` is what remains.
- `InstanceLimits!FreshReadings`: an update of one window dates the whole snapshot (`limits.ts:234`), so an older
  reading of another window is leased on, against `pool.ts:186`, "Older limit observations exclude an instance until
  refreshed".
- `CodexSession!NeverIgnoredUnanswered`: the catch of `push()` takes a `turn/steer` whose write or flush throws
  (`codex-session.ts:795-801`) for a refusal as long as the session lives (934-935), though the line may have been delivered;
  line 933 says "no answer leaves delivery unknown, never 'ignored'". `HonestEvidence` says it of every other steer.
- `MuseSession!NeverMuses`: any error of `turn/start` but Muse's own refusal makes its outcome unknown (986), and only
  the turns whose frames were held by then are remembered as possibly ours (1069-1076). One whose first frame comes
  later is shown as a task Muse runs itself (1158), against line 289, "possibly ours, so never claimed as Muse's"
  (`tests/muse-session.test.ts:832` tests it for frames that were held). The same goes for frames read between
  `kill()` and the end of the connection. `CreditedRight` says it of the turns that are not given up, and of those
  whose frames were held.
- `MuseSession!PersistedFirst`: `_session` is set before `onSessionReady` is awaited (`muse-session.ts:916-921`), so
  when that throws the next send goes on unpersisted, against line 192, "a failure blocks work".
- `ClaudeSubagents!NeverSent`: the catch of `_reserve` (`claude-subagents.ts:488-499`) says "not-dispatched" and
  settled whatever became of the decision meanwhile; one that fell back, was registered again by the fan-out and sent
  is running then, and its answer is lost. `primed.ts:95`: "no model input was written for this decision".
- `ClaudeSubagents!NoneRunning`: `_kill` waits 2 s for the exit and then calls `_lost` (1600-1608), which rejects what
  the side session held as settled, though the process may go on; `primed.ts:96` calls that `settled: false`, "a
  native turn may still be running".
- `ClaudeSubagents!ReleasedStops`: `releaseGroup()` (`claude-subagents.ts:391`) kills a side session that holds a
  reserved decision; it falls back into the batch of the group being deleted, whose timer starts a side session
  that nobody stops before `close()`. Line 390: "its spares and side sessions stop".
- `ClaudeSubagents!RegisteredOnce`: a reserved decision that falls back while its registration is pending is
  registered again by the fan-out (lines 474, 531), against line 111, "never registered again".
- `ClaudeSubagents!NotEndedInUse`: `_spareFor` (line 456) looks at `retire` but not at `ending`, so a decision can
  be reserved on a standby turn that is being interrupted, against lines 722-725, "ends only once nothing it serves
  is in flight". The decision is told the truth all the same (`ToldTruly`).

Further places the models taught us to look at, which no property states: `evict()` of a Codex key deletes the base
thread at once although decisions may still fork from it (`codex-primed.ts:407` beside the comment at 186, "deleted
when the last decision finishes"; `BasesHeld` excepts it); a branch that broke the text only policy while it opened
costs the process nothing when its admission fails or its `turn/start` is refused (`codex-primed.ts:1351-1359`,
1377-1389), against lines 28-30, "Any non-text item, MCP server startup or server request on a decision thread is a
violation: the turn is interrupted and the process recycled" (`ViolationsRecycle` speaks of accepted turns); the check
for a loaded conversation among a turn's events cannot succeed, as init lines are recorded with no turn
(`claude-code-session.ts:808`); after its await on stderr the reader fails the transport without looking at the
current process again (1265); a failed initialize kills whichever process is current by then (765); `start()` on a
running pooled session throws, and the wrapper releases the lease of a session that runs (`pool.ts:652`); two
`continueOn()` calls may move one thread at once (471); a `turn/started` of another client's turn, seen before our own
`turn/start` is answered, names the turn in flight (`codex-session.ts:1481-1482`); a custom probe that never returns
keeps every `open()` that found the instance stale waiting (277); a turn that began before a 429 completes after it
and clears its cooldown (514), and a poll that began before it replaces the block (294); `maxSessions` is passed when
every session is in use (`claude-primed.ts:550`).

## What is not modelled

Within the modelled components:

- *Evidence everywhere*: the content of events and items, usage totals, timing, `transportOutcome`, artifacts,
  observers' own calls back into the session while an event is emitted.
- *ClaudeCodeSession*: a spawn that throws, the identity a fork takes from its first line, compaction, subagent
  and task lines, tool-gate requests (the gate is the constant `Gated`), limits and task control requests, temporary
  files, a `push()` whose write throws, the wait for an interrupt's acknowledgment, death while a turn is held.
- *Codex*: token and limit accounting, review and compaction requests, the framing of JSON lines.
- *Muse*: the socket handshake, frame parsing, usage. Interrupts, questions, steers and stops are in no behaviour
  with a turn Muse starts itself (a bound); in the run, nor is a host that dies by itself (`kill()` and lost answers are; the
  proofs cover it too).
- *Primed hosts*: hashing of prompts, results' usage and timing, limits other than that they refuse.
- *Subagents*: several groups (they share nothing but the slots of the account), the cap on definitions, the limits
  event, the forgetting of a group that has nothing left, the frames of a process that `_kill` gave up on (what it held is
  settled by then).
- *Pool and limits*: parsing of snapshots, a snapshot whose window has already reset, configuration
  exclusions, the ordering of candidates, `rank-last` routing of unknown utilization, two `continueOn()` calls
  moving one thread at once.

Not modelled at all: *Routing* is pure, and Pool leaves its choice open, so nothing rests on it. *In-session agents*
share the fan-out of ClaudeSubagents and the turn rules of ClaudeSession; the coalescing of their prompts is the next
candidate. The *Agent SDK session* follows the ownership rules of ClaudeCodeSession over one stream. The *secret
scratch pad* is files and pipes; its expiry against its close is the part a model could reach. *Limit probes* appear by
their outcomes (an answer, nothing, a failure) in Pool and InstanceLimits. *Transports, usage parsing, evidence
freezing and exports* are tables and conversions with no state.

## Plan

In order of what matters most:

1. `ClaudeSteer` with a process that can die while a turn is held.
2. In-session agents over `ClaudeSession`'s turns: an agent's work never settles a user turn.
3. Composition of `Pool` with `InstanceLimits` in place of its healths, if TLC's reach allows.
4. Routing as operators against a reference ordering; the scratch pad's expiry.
