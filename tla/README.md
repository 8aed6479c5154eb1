# Verification of ZCode's session runtime

ZCode is a coding agent: a CLI (`apps/zcode-cli`) that runs the sessions, a desktop
application and a server that talk to it over a protocol called v4, and the packages
they share. This directory holds TLA+ modules translated from that code, the TLC runs
that check them on small instances and the theorems TLAPS proves about them.

`src/` below is the root of the repository, and `core`, `bootstrap` and `dynamic-workflow`
are packages under `src/apps/zcode-cli/packages/`.

## 1. The system

| Component | State it keeps | Operations | Talks to | What is hard |
|---|---|---|---|---|
| Runtime command queue (`core/src/runtime/methods/runtime-command-queue.ts`, `command-queue.ts`) | the in-memory FIFO, drain flag, foreground execution, promotion lease, cancel-pending marks, branch generation | enqueue, drain, absorb into an active loop, abort, stop, fence wakes of a cut branch, acquire and release the lease | steering, turns, v4 queue, edit and retry handlers | everything happens between awaits; three fields say who owns the runtime |
| Steering (`core/src/runtime/methods/steering.ts`, `turn.ts`) | active turn, turn-start reservation, pending inputs | admit, steer, defer, begin and finish a turn | command queue, ledger | check and reservation must be one step |
| v4 queue commands (`bootstrap/src/zcode-protocol-v4/commands/handlers/queue.ts`, `goal-compact.ts`, `fork-edit-retry.ts`) | queue items, abort controller of the background command | sendQueuedNow, startNow, compact, goal commands, automatic drain, edit, retry | command queue, inbox | every handler awaits between its checks and their use |
| Command inbox (`bootstrap/src/zcode-protocol-v4/command-inbox.ts`, `persistent-command-index.ts`, `v4-gateway.ts`) | in-flight, live and settled tables; key gates and session gates | handle, settle, query, pin, release, clear | v4 gateway, persistent facts | retries while the first try runs, is queued, or was evicted |
| Acknowledged relay (`packages/client/src/webRemoteControlAcknowledgedRelay*.ts`, assembler in `packages/shared/src/web-remote-control-rpc-transport.ts`) | kept batches, next frame, acknowledgements, the active assembly, saturation | send, flush, replay, acknowledge, assemble, degrade | RPC channels, web remote transport, relay service | what is lost, repeated or outdated around a reconnection |
| Web remote transport and manager (`packages/desktop/src/main/web-remote-relay`, `webRemoteControlManager.ts`) | socket, pairing, current bridge | connect, reconnect, announce send-ready, replace a bridge | acknowledged relay, relay service | stale sockets and bridges |
| Persistent protocol (`packages/rpc/src/persistent-protocol.ts`) | unacknowledged messages, last incoming id, saturation | send, receive, replace the socket, give the session up | RPC channels | no deployment uses it |
| Session resident pool (`bootstrap/src/zcode-protocol/session-resident-pool.ts`) | resident sessions, leases, deactivations under way | acquire, release, evict, reload | gateway, runtimes | a session is wanted again while it is being put away |
| Permission broker (`core/src/permission/broker.ts`) | open requests | ask, answer, abort | tools, clients | several responders race |
| Background tasks (`core/src/tool/executor/background-task-registry.ts`) | task states, sealed tasks | start, finish, notify, seal | command queue | a task ends while it is being stopped |
| Dynamic workflow engine (`dynamic-workflow/src/engine`) | journal, slots, answers under replay | submit, settle, replay, resume | subagents | answers replayed in the recorded order |
| Topic publisher (`bootstrap/src/zcode-protocol-v4/conversation-topic-publisher.ts`) | subscribers, sequence numbers, snapshots | subscribe, publish, coalesce | clients | base and deltas without a gap |
| Off-peak execution (`core/src/runtime/off-peak`) | life cycle of a deferred task | arm, run, cancel | command queue, scheduler | cancellation against a later user turn |
| File lock (`packages/shared/src/node/atomicFileLock.ts`) | lock directory, owner files and their ages, on disk | acquire, verify, release, reclaim | credentials, settings, provider configuration; several processes | processes die anywhere, and many reclaim at once |
| Remote deployment lock (`packages/server/src/remote/remoteDeployLock.ts`) | lock directory and owner on the remote machine | acquire, take over by age, release | deployment | takeover by two waiters |
| Schedulers, supervisor, compaction, ledger | see PROJECT.json | | | |
| User interfaces, providers, plugins | rendering, external services, content | | | not protocol |

`PROJECT.json` lists every component with the files it consists of and its status, and
under "hazards" the places of the code where something can go wrong that a test would
hardly reach.

## 2. Plan

1. `RuntimeCommands`: the command queue, its drain, the active loop, the promotion
   lease and its handlers. With it `SerialExecutor`, what a runtime promises its
   callers, and the proofs in `RuntimeCommandsProofs` and `RuntimeCommandsStepProofs`.
   *Done.*
2. `CommandInbox`: admission and lookup of commands over memory tables, lazy index and
   ledger, which implements `OnceOnly`, with the proofs in `CommandInboxProofs` and
   `CommandInboxPromises`. *Done.*
3. `AcknowledgedRelay` over a lossy relay, which implements `ReliableStream`, with the
   proofs in `AcknowledgedRelayProofs` and `AcknowledgedRelayGaps`. *Done.* (It takes the
   place of the persistent protocol, which no deployment uses.)
4. `FileLock`, which implements `SerialUpdates`, with its proofs in `FileLockProofs`.
   *Done.*
5. `DeployLock`: the shell lock of remote deployments. First question: two waiters that
   both saw a stale lock; the later `mv` may take the new lock away.
6. `SessionResidency`: leases against deactivation and reload.
7. `PendingInputs`: steering's pending inputs and the v4 queue items, composed with
   `RuntimeCommands`.
8. `OffPeak`, `PermissionBroker`, `BackgroundTasks`, `WorkflowSlots`, `ReplayOrder`,
   `TopicPublisher`.
9. Proofs: the inductive invariant of 6.

## 3. RuntimeCommands

### State and actions

JavaScript runs to completion between two awaits, so an action is the code between two
awaits of one coroutine. Three kinds of coroutine interleave:

* *the drain* (`drainRuntimeCommandQueue`), of which there is at most one. `pc` says
  where it awaits: `loop` between two commands, `persist` while a notification or
  message is written to the history, `prepare` from `reserveTurnStart` to
  `beginActiveTurn`, `turn` inside the model loop, `absorb` while the active loop
  persists a wake, `cleanup` and `failed` after the turn, `verify` while the goal is
  verified, `control` during a controlOnly turn;
* *the handlers* (`holder[c]`) that bring an input in by more than one step: the
  promotions under a lease (`sendQueuedNow`, `sendText` with startNow, the automatic
  drain), the direct `/compact`, the goal commands, and the replays (`editUserQuery`,
  `retryTurn`);
* *the callers*: `executeTurn`, `admitPrompt`, `enqueueBackgroundTaskNotification`,
  `enqueueSubagentMessage`, `enqueueSettingsTurn`, abort signals, `stop`, and the
  off-peak cancellation.

`where[c]` is the place of a command: outside, queued, running, being absorbed, or one
of the ways to settle. `foreground`, `reservation`, `activeTurn`, `lease`, `controller`,
`cancelPending` and `branchGeneration` are the fields of the same name. `plan` is the
generation that a rewind under way has planned and will set. `arrival` orders
the queue. `snapshot` is the local variable of the active loop that survives its awaits.
`map` in PROJECT.json gives the lines of every definition.

The queue's selection (`Oldest`, `NextBatch`, `NextRunnableBatch`, `Stale`) is a set of
pure operators. `Drain` is the synchronous stretch from the loop head to the next await;
`Enqueue`, `ReleaseLease` and `DrainResumes` all run it, as the code does.

The conversation branch is cut in two ways, both by `buildConversationRewindPlan`
(`PlansRewind`, which fixes the next generation) and, awaits later,
`applyConversationRewindPlan` (`CutsBranch`, which sets it):

* inside the turn of a `/rewind` prompt (`RewindPlanned`, `RewindApplied`), when the drain
  carries nothing else;
* by the handler of an edit or a retry (`ReplayPlans`, `ReplayCuts`), which calls the runtime
  directly (`submitConversationRewind`), without a lease or a place in the queue. An edit
  preempts what is running and waits until the session is idle, a retry does neither
  (`RequestReplay`), and in both there are awaits after the last look at the session. So the
  drain may be anywhere when the branch is cut, at any of its awaits included, and a
  `/rewind` turn may be under way as well. The input is then sent again as any other
  (`AdmitPrompt`, `DeferPrompt`, `RequestGoal`); each await may fail (`ReplayEnds`).

### Abstractions

* Every caller enqueues with priority "next", so the priority rank never separates two
  commands. The input id of a prompt is identified with its command.
* Pending inputs of the active turn are outside (`DeferPrompt` is where an input goes
  there). The modes "target-continuation" and "target-continuation-loop" are one.
* The inner `finally` of a compact or rewind is merged with the turn's. The abort of the
  controller in `preemptActiveTurnAndWait` is merged with the handler's first step,
  though `pauseActiveGoal` is awaited in between.
* Ledger writes, telemetry, suppression of wakes of sealed subagent tasks, shutdown, the
  flag preserveQueueAutoDrain and plan mode are left out.
* The recursion of `drainRuntimeCommandQueue` after its `finally` is subsumed: its
  condition is that the queue holds a command, and then the drain has not stopped.
* One edit or retry is under way at a time: they hold the session gate of the command inbox.
  Whether their target is the latest turn, attachments and the file rewind of an edit are
  left out; the input is sent again under the command of the replay. An input of `Replayed`
  may also come from the user directly.
* The direct `/compact` and the goal commands may start whenever no controller (and for
  compact no turn) is set, which is what their handlers look at.

### Runs

All commands are model values. The instances are small because each of the properties
relates at most four commands: a running one, the one a handler promotes, and two that
wait, of every mode that is treated differently. Deadlock is not checked, since a
session rests when every command of the instance has settled.

| Run | Instance | Shows |
|---|---|---|
| `commandsPromotion` | a prompt and a goal, both promoted, two notifications of different executions | `TypeOK`, `OneTurn`, `NoCollision`, `LeaseIsOwned`, `NoLostWakeup`, `LeaseHoldsOthersBack`, the refinement `IsSerialExecutor` |
| `commandsWakes` | prompt (plain, `/rewind`, or an edit or retry), two off-peak notifications, settings turn, two cuts of the branch | `StaleNeverStarts`, `OnlyBatchesOvertake`, `ControlStopsAbsorption`, `OffPeakStaysCancelled` |
| `commandsGoals` | promoted prompt (or `/rewind`), goal, subagent message | `CancelMarksRunning`, `StoppedStartsNoTurn`; `QueuedIsServed`, `LeaseIsReturned` under `FairSpec` |
| `commandsStopBarrier` | violation | `BarredPromotionIsAdmitted` |
| `commandsGoalLease` | violation | `NothingWaitsBehindOrphan` |

`MaxGeneration` bounds the cuts of the branch: one makes every earlier wake stale, a second one
comes after a wake of the new branch (the theorem is for any number of them).
`commandsWakes` has the cuts by edit, retry and `/rewind` against every await of the drain. In
no run is a goal sent again after a cut; that case is only in the theorems. The number of
commands bounds everything else, since a command is submitted once.

`StaleNeverStarts` is about the moment at which a wake is taken, and the code promises no
more in these two respects, both reached by the model and listed under "hazards":

* A wake that was fresh when it was taken may be persisting when an edit or a retry cuts the
  branch. It is not checked again, so its turn starts on the new branch (the checks are
  `runtime-command-queue.ts:214` and `:343` and `runtime-command-active-loop.ts:43`, all
  before the await), while the comment in `runtime-command-generation.ts:18-19` asks for one
  before the persistence and before the provider is given anything.
* A wake may have started its turn between the last look of an edit or retry at the session and
  its cut of the branch, so that the branch is cut under an active turn
  (`docs/conversation-product-protocol.md:585-589` has the old work over before the rewind).

The two violations are disagreements between the code and its own documents, described
under "findings" in PROJECT.json. A third one has no run: `dequeueNextBatch` collects
every queued notification of one execution, those behind a settings turn included, so
such a notification runs before the settings turn, though `command-queue.ts:95-96` says
the settings turn runs before any notification of the new run.

### Fairness

`FairSpec` assumes weak fairness of the drain as a whole, and of each handler. The code
justifies both: the awaits of the drain are model, store and verifier calls, which end by
answer, timeout or abort signal, and a coroutine that is not awaiting is run by the event
loop; every handler reaches its `finally`. No caller is assumed to do anything. In
particular nothing is assumed of the order of the drain's steps, so a goal loop may go on
for ever as far as the verifier is concerned: that waiting commands are served follows
from the loop's own yield.

### Proofs

`RuntimeCommandsProofs` proves, for every finite set of commands and any number of
rewinds:

* `TypeCorrect`, `TurnsAreSerial`, `NoCommandCollides`, `WakeupsAreKept`,
  `LeasesAreOwned`: the properties of the same runs;
* `ImplementsSerialExecutor`: `RuntimeCommands` implements `SerialExecutor` under the
  mapping `stage` of `MCRuntimeCommands`.

They rest on one inductive invariant, `Inv`. None of the properties is inductive alone:

* `OneTurn` needs to know at which `pc` the reservation and the turn exist
  (`TurnPhases`);
* `NoCollision` holds because the drain is at its loop head, or idle, whenever it starts
  a command, and then nothing is active and nothing reserved, except the reservation of
  the prompt that is just being admitted. That this prompt is then what leaves the queue,
  and not an older command, needs that an admission finds the queue empty and the lease
  its own. The latter is `LeaseIsOwned`, and needs `PromotedOutside`: while a handler
  prepares its promotion the input is not yet in the queue, so no drain consumes its lease;
* `NoLostWakeup` needs that a drain stops only when it could take nothing, which is a
  fact about `NextRunnableBatch` (`RunnableShape`): without a lease a nonempty queue
  yields a nonempty batch. That rests on `OldestIsFirst`, hence on the least-number
  principle;
* the refinement needs that commands run only inside an execution, and are absorbed only
  in `absorb` (`RunningInPhase`).

`DrainEffect` is the central lemma: it says what `Drain` may do to the runtime, in terms
that the preservation lemmas use without looking into it again. The assumptions are the
`ASSUME`s of `RuntimeCommands`: the modes are disjoint, the commands finite, `None` is no
value. TLC evaluates them on every run.

`RuntimeCommandsStepProofs` goes on to what a step may never do:

* `MarksAreOfTheRunning`, the invariant `CancelMarksRunning`;
* `StaleBranchesAreFenced`, `OthersAreHeldBack`, `OrderIsKept`, `ControlsStopAbsorption`, `StoppedStaysStopped`,
  `OffPeakIsOver`: the action properties of the three passing runs.

Every step has one of six shapes (`EveryStepHasAShape`): the drain runs, a command is
pushed, an execution settles, a turn starts, the active loop absorbs, or the step is calm:
commands outside of the batch settle, and the branch may be cut. A second invariant, `StepInv`, is kept by each
shape, and the action properties are read off them:

* `StaleNeverStarts` assumes nothing of where the branch is cut: a wake starts or is absorbed
  only in the first and fifth shape, whose filters look at the generation in the same step,
  while a cut is a step in which nothing starts. A wake pushed by the step itself is stamped
  with the current generation (`PushEffect`);
* `ControlStopsAbsorption` needs that what is pushed while the active loop awaits is behind
  its snapshot (`SnapshotIsAhead`), hence that the clock is ahead of all arrivals
  (`ArrivalsAreNumbered`, by the cardinality of the commands pushed so far);
* `OnlyBatchesOvertake` needs that arrivals are distinct, and that the head of the queue
  leaves it together with its batch (`DrainStarts`). The batch is taken before stale
  notifications are filtered out of it, so the older notification that lets the others
  overtake may itself be dropped. With two notifications of one execution, a settings turn
  between them and a cut of the branch before the second this does happen, in `commandsWakes`.

The two notifications of `commandsWakes` that belong to the same execution are
interchangeable (`SYMMETRY Interchangeable`): no operator tells them apart but by their
arrival, and `Oldest` chooses among distinct arrivals.

Only model-checked: the liveness properties.

## 4. CommandInbox

### State and actions

The client repeats a command whose acknowledgement it lost, and asks about it by
`commands/query`. The CLI must then execute nothing twice and forget nothing. It looks a
command up in three memory tables, `inFlight`, `live` (pins of admitted inputs) and
`settled` (least recently used, 512 entries), and behind them in the store: transcript,
timeline facts and discarded rows of the `session_input` ledger, through an index that is
loaded once per session and then cached.

A request (`pc[r]`) is one call. It queues at the gate of its command (`key`), looks it up
(`load` while it awaits the index, `looked` with the outcome in `found`, `joined` while it
awaits the final promise of a flight), queues at the session gate (`gate`), looks it up
again, prepares (`prepare`, `cold`), decides (`decide`), admits, executes, and settles
(`admit`, `execute`, `cancel`, `settle`). `work[c]` is what the runtime does with an
admitted input afterwards: in the queue, in its turn before the prompt is persisted, or
between a durable write and the event that tells the gateway of it (`promoting`,
`removing`). `row` and `timeline` are durable, everything else is lost by `Crash`.
`resident` is whether the session is registered in `context.sessions`; `resuming` is
`ready` for a resume that commands and queries wait for, `legacy` for `session/resume`.
`taken` counts how often the execution of a command was accepted (up to two).

`OnceOnly` is what the gateway promises, without gates, tables, index or ledger: a command
is executed at most once, by one call at a time, and whatever a call is told agrees with
what became of the execution. `CommandInbox` implements it under two mappings. `Fate(c)`
is "open" while no execution of `c` was accepted, "kept" once there is a durable fact of it
(a promoted row or a timeline fact), "running" while the runtime works on it without one,
and "lost" otherwise. `executing[r]` is the stretch between an accepted execution and its
answer (`settle`). `subject`, `querying` and `answer` are the variables themselves.

### Abstractions

* One session. The global bucket of `createSession`, child facts and the fork and side
  session commands are left out. So are the effect of `deleteSession` on the session,
  the projection size check and the admission of shared contexts.
* A durable command that finds nothing to do (`v4-gateway.ts:2537-2545`) is left out: no
  handler of an input or a compact throws `V4CommandNoopError`, only those of the queue items,
  of stop and of the model configuration do, which are `Plain`. The row status "failed" of a
  shared context that is no longer attachable (`v4-bridge.ts:939-945`) goes with shared
  contexts.
* `sendGoalCommand` is admitted and pinned like an input (`v4-bridge.ts:406-414`), but what it
  starts is a model-only continuation that promotes no ledger row. The module has no command
  of that kind, so nothing is shown of goal commands.
* `Remove` always writes the ledger row, before the event. The code goes on with a warning
  when that write fails (`settleSessionInput` in `core/src/runtime/methods/events.ts:415-432`); a
  row that stays admitted after a removal is left out.
* The durable lookups of one request read one state of the index; a ledger sweep is
  atomic.
* A guard of `decide` that answers noop is never wired, and `afterWaitPinned` cannot be
  set while the key gate is held; neither has an action.
* A resume fails before it registers the record.
* `Register` waits for the requests that only microtasks hold up (`Runnable`): the store
  is synchronous SQLite behind async functions, while the application that a resume
  builds before it registers does real input and output. Without this a load that began
  before registration could discard rows afterwards; see `SweepSparesWork`.
* `Deactivate` needs that no call is under way, because `server.ts` takes an operation
  lease around every request (`handleRequest`).

### Runs

Two calls, at most three commands and a settled table of one entry. Two calls suffice for
a retry to meet its first try at every await; one entry makes every command evict the one
before. `MaxCrashes` is one: after a crash nothing but the store is left, so a second one
meets no new kind of state. Requests, and commands of one kind, are interchangeable
(symmetry), except in the liveness run, which needs no crash: a call that dies with the
process returns to nobody, and deactivation leads to every resume as well. Deadlock is checked in all of them.

| Run | Instance | Shows |
|---|---|---|
| `inboxReplay` | two inputs, a rename, two calls, one crash, a store that works | `TypeOK`, `OncePerCommand`, `SweepSparesWork`, `NeverForgotten`, the refinement `ImplementsOnceOnly` |
| `inboxFaults` | an input, a compact, two calls, one crash, a failing store, `session/resume` | `WorkIsPinned`, `OneInFlight`, `NoCircularWait`, `FailedMeansFailed`, `AcceptedWasExecuted` |
| `inboxLiveness` | an input, a rename, two calls, a failing store, `session/resume`, no crash | `EveryCallReturns` under `FairSpec` |
| `inboxPinLeak` | violation | `PinIsReleased` |
| `inboxCancelled` | violation | `CancelledStaysCancelled` |

Two cases are beyond these instances and rest on the theorems below. Two calls form short
chains only: that a call waits at a key gate for one at the session gate, which waits for
one that joined the load of another, takes four. And `inboxReplay` has no compact, so it sees
the mapping `Fate` through ledger rows and not through timeline facts.

What `inboxReplay` shows holds under two conditions. With `SessionResume` a lookup during
the resume caches an index without the discarded rows, after which the command is
"unknown" and can be executed again. With
`StoreFails` the same happens through rows that could not be cancelled or swept: a failed
command stays admitted in the ledger while the stale index does not know it, and is
executed on retry (`inboxCancelled`). The transport of the CLI
(`bootstrap/src/zcode-protocol/transport.ts`) hands over one ordinary request at a time,
`session/resume` included, so its calls do not meet there. The gateway does not rely on
that, nor do its tests (`bootstrap/tests/v4-gateway.test.ts`), which call it concurrently:
the module models what the gateway itself promises.

### Fairness

`FairSpec` assumes weak fairness of each request, of each load, of the runtime's work on
each input and of a resume under way: the event loop runs every continuation, the store
answers or fails, `executeCommand` returns (it starts turns in the background and awaits
none), and a turn or a compact ends by answer, failure or abort. It assumes nothing of
clients, of the user who removes a queued input, of deactivation or of crashes.

### Proofs

`CommandInboxProofs` and `CommandInboxPromises` prove every safety property of the module,
for any sets of commands and calls, any size of the settled table and any number of crashes.
In `CommandInboxProofs` four need no condition:
`TypeCorrect`, `OneExecutes`, `WorkStaysPinned` and `FailureIsFinal` hold with a failing
store and with `session/resume` too. Their invariant `Inv` consists of

* `Gates` and `Flights`: every gate is a line of distinct requests of which only the first
  has gone on, and whoever joined a flight joined one that is in flight. From it follows
  `Exclusion`: two requests are never past the same gate.
* `Kinds`: which row, work and pin goes with which kind of command.
* `Clean`: the command of a request that is about to be decided, or has just missed, is not
  in flight, not pinned and not worked on. This survives the wait for the session gate only because
  the key gate is held and the lookup is repeated.
* `Pins`: work implies a pin.
* `Told`: the settled table and the loaded index tell "failed" only of a command without
  effects, and a command that is decided had none.

`ExecutedOnce`, `WorkIsSpared` and `AcceptedIsKnown` assume `Regular`: the store answers and
no resume takes place outside the READY gate. Without it they are false, as said above.
`Orderly` adds to `Inv` that a session that is not open has no pin and nobody executing, and
that nobody can run on while it resumes (`Calm`); that an open session, or a loaded index,
leaves no admitted row without a pin (`NoStray`); that the loaded index knows whatever was
accepted and is pinned no longer (`Complete`); and that what is about to be decided was
never taken and is neither discarded nor still admitted (`Untaken`). The last three need
each other: a lookup that misses shows `Untaken` by `Complete` and `NoStray`, a failing
admission keeps `NoStray` by `Untaken`, and a sweep keeps `Complete` by `NoStray`.

`CommandInboxPromises` turns to what a call is told, and whether it is told anything:

* `NobodyWaitsInACircle`, the invariant `NoCircularWait`, without a condition. To `Inv` it
  adds that a load somebody waits for is under way and was begun by a call that waits for it
  too (`Served`, `Loads`), and that who waits at a gate stands in its line (`InLine`). The
  circle is excluded by an order: the first at a key gate may wait for the session gate, a
  load or a resume, the first at the session gate only for a load or a resume, who has begun
  a load for nobody, and a resume goes on by itself. This is the part of `EveryCallReturns` that is safety: nobody
  is stuck, whatever fairness one assumes.
* `OnlyExecutedIsAcknowledged`, the action property `AcceptedWasExecuted`, without a
  condition. The invariant `Earned` follows the acceptance through every place that can tell
  of it: the settled table, pins, rows, timeline facts, the cached index, and the outcome a
  call carries from its lookup to its answer. A pin and an admitted row exist before the execution;
  `Earned` lets the pin do so only while the command is in flight, when a retry joins
  the flight instead of reading the pin.
* `OnceRefinement`, the refinement `ImplementsOnceOnly`, under `Regular`. `Arrive` is the
  step `Ask`; an accepted `Execute` is `Begin`; every step that sets an answer is `Tell`;
  `Return` is `Return`; the steps by which the runtime ends its work on a command are `End`
  or stutter; `Crash` is `Die`; all else stutters. `Begin` needs that the command is still "open"
  (`Untaken`) and that nobody else executes (`Exclusion`); `Tell` needs that each answer
  agrees with the fate of the command (`TrueAnswer`), which for "accepted" and "duplicate" is
  `Earned`, for "failed" is `Told`, and for "unknown" and "rejected" is `Untaken` again.
  `Promised` is the conjunction of `Orderly`, `Talk` (when a call has a subject and an answer)
  and `Earned`.

`EveryCallReturns` is liveness and only model-checked; the two violated properties are
findings.

## 5. AcknowledgedRelay

### State and actions

A bridge of the web remote control carries the RPC messages between a desktop window and a
phone through a relay service. Each end has one adapter (`AcknowledgedRelayProtocol`). It
cuts a message into frames numbered through the whole bridge (`seq`), keeps them until the
other end acknowledges the message (`messageSeq`), sends what is unsent whenever it is
called, and starts over from the oldest kept frame when the transport is ready again. The
assembler of the other end accepts frames strictly in order, drops what it has seen, and
faults on a gap. A fault, of either side, degrades the bridge for good: a new one has a new
identity, and frames of another identity are ignored. The module is one bridge.

| Variable | Field |
|---|---|
| `reserved` | `nextMessageSeq` - 1 |
| `cursor` | the frame that `nextUnsentIndex` and `nextFrameIndex` point to |
| `fullySent`, `acked`, `saturated`, `pendingAck` | `highestFullySentMessageSeq`, `lastAckedMessageSeq`, `saturated`, `pendingAckMessageSeq` (0 for null) |
| `expected`, `staged` | `expectedPhysicalSeq` and the fragments of the active assembly |
| `delivered` | what `onMessage` was given, each message as its frames |
| `fault` | whether the adapter is degraded, and why |
| `up`, `wire` | whether `sendFrame` succeeds; the packets under way |

`First` says how each message is cut: any increasing numbering. The kept batches are the
messages after `acked`, so `Backlog` is computed where the code keeps a counter.

An action is one run of an adapter to completion. Nothing in it waits, and a packet that
arrives during a send is queued until the send is over (`outboundCallDepth`). The outcome
of `sendPayloadResult` depends only on the state of the transport and of its socket, which
change between such runs; so `Flush` sends all that is unsent or nothing.

### Abstractions

* Bytes are frames, each of size one. Contents, checksums and fingerprints are left out:
  no packet is altered on the way, so their faults are among those of `Fail`.
* A message that `onMessage` makes the channel send at once is sent after the
  acknowledgement instead of before it. The two kinds of packet are handled independently.
* Time is left out: a deadline that is armed may fire at any moment (`Expire`,
  `AssemblyTimeout`), which covers every clock. The check of a deadline at the head of a
  handler is `Expire` followed by a handler that ignores what it gets.
* Receiving does not need `up`: the half that receives is closed by the loss of what is
  under way (`Lose`), or not at all.
* `Reconnect` is the pairing of a new socket, which the transport follows with `onSendReady`
  in the same step, except for the first pairing; `up` is true initially, so the first
  pairing has happened. `SendReady` is the one every heartbeat causes.
* The desktop replays (`Resumes`). The adapter of the phone in this repository never calls
  `replayUnacknowledged`; what it loses is only recovered by its deadline, which has the
  bridge replaced. Its transport is a host outside the repository. The theorems hold for
  any set `Resumes`.
* Packets under way are bounded (`MaxWire`) for replays by heartbeat only.

### Run

`relayFaults`: the desktop sends a message of two frames and two of one, the phone one of
two; one interruption and one loss of any run of packets. The backlog passes both water
marks and, with three kept frames at most, may overrun the replay buffer. Two fragments are
enough for an assembly to be met in every state by a replay; three messages, for one to be
acknowledged, one under way and one unsent. Deadlock is not checked, since a bridge stops when both ends are degraded or
all is sent and the bound on replays is reached.

| Property | Says |
|---|---|
| `ImplementsReliableStream` | each direction is a reliable stream until it breaks (refinement) |
| `AckedIsDelivered` | no acknowledgement runs ahead of what was delivered |
| `AckIsKept` | the acknowledgement of the last message delivered is processed, under way or pending, unless the relay lost something |
| `NoFutureAck` | the fault of a future acknowledgement is never raised between two correct ends |
| `GapOnlyAfterLoss` | replays and interruptions alone never cause a gap |
| `FlowFollowsBacklog` | the pause and resume signals of the host follow the backlog |
| `MessagesArrive` | what an end that replays has reserved is acknowledged, or the bridge breaks |

### Fairness

`FairSpec` assumes weak fairness of `SendReady` (a heartbeat every ten seconds, whose answer
announces send-ready), of `Receive` (the relay hands over what it does not lose) and of
`Reconnect` (a lost connection is retried for ever). Deadlines, faults, sends and losses are
not assumed.

### Proofs

All of these hold for any number of messages, any cutting into frames, any water marks and
any number of interruptions and losses. `AcknowledgedRelayProofs` has `TypeCorrect`,
`DropsAreDelivered`, `AcksAreKept`, `AcksAreNeverEarly`, `Refinement` and `PausedOnlyWithBacklog`;
`AcknowledgedRelayGaps` has `GapsNeedLosses`.

The inductive invariant `Inv` has, next to the type,

* `Order`: per direction acknowledged <= delivered <= fully sent <= reserved, which bounds
  the pending acknowledgement and those under way by what is delivered;
* `Content`: what is delivered is a prefix of the messages of the other end;
* `Assembly`: `expected` and `staged` are where the assembly of the next message stands;
* `InFlight`: what is under way are frames of fully sent messages, and acknowledgements of
  delivered ones.

`AcksAreKept` is inductive on top of `Inv`: a message that is completed sets the pending
acknowledgement to itself, a flush sends the pending one or keeps it, the other end takes it
off the wire only to process it, and only `Lose` removes it otherwise. What completes nothing
leaves the pending one, or repeats it.

`TypeOK` is in no run of this module and of `FileLock`; there it is the theorem `TypeCorrect`.

From `Order` follows that an acknowledgement is never early, from `Content` and `Assembly`
that a completed message is the next one whole, which is the step `Deliver` of the abstract
stream. That a gap needs a loss is not local: it needs that every frame under way is at most the one
the receiver expects, or the successor of a frame ahead of it on the wire, and that the same
holds of `cursor` (`Linked`, `Contiguous`). A replay moves `cursor` to a frame of the oldest
kept message, which the receiver is at or past unless it is on the wire; an acknowledgement
moves it only to frames the receiver has; and the oldest packet can be taken off once the
receiver expects its successor. Only a loss breaks it. `CursorInReach` and `PartOfMessage`
say that `cursor` and an assembly stay within what was reserved and within one message.

`MessagesArrive` stays with TLC, as liveness is out of the prover's reach.

## 6. FileLock

### State and actions

Several processes (desktop host, CLI, helpers) update shared files as a whole: credentials,
settings, provider configuration. `acquireFileLock` serialises them. The lock is a
directory; a call makes it, puts an owner file with its process id in it under a name that
no other call uses, and holds the lock once it has seen that the directory is still the one
it made and its own file is the only one. A call that finds the directory there inspects
it, removes what is abandoned, and tries again until its longest wait is over.

| Variable | In the code |
|---|---|
| `pc` | the file system call a call of `acquireFileLock` makes next; `dead` with its process |
| `kind`, `ino` | what is at the lock path, and the inode of the directory |
| `owners` | the owner file of each call: absent, created, or written |
| `old` | which of these have a timestamp past the grace |
| `seen` | `createdLockStat` |
| `aged`, `found`, `todo` | locals of `removeAbandonedLock`: the age of the directory, `owners`, and those of them still to be judged |
| `version`, `base` | the protected file, and what the operation under the lock has read of it |

A step is one file system call, and `writeFile` is two: the file is created, then written.
Calls interleave at every step; `Crash` ends a process with all of its calls and keeps its
files; `Age` lets time pass for one of the timestamps.

### Abstractions

* The queue in which `withFileLock` keeps the calls of one process is left out: the calls
  compete all together, as those of `withAtomicFileLock` do.
* The read of an owner file and the stat that may follow are one step, the stat: a file
  found empty and old by the stat was empty before.
* Time is only whether a timestamp is past the grace. The longest wait may be over at
  every check of it, and then the call fails and reclaims nothing.
* Removals fail only where the file system semantics say so (`rmdir` of a directory that
  is not empty, `rm` of a directory). Entries that are no owner files, invalid timestamps,
  errors of permission and reused process ids are left out.
* A process that comes back is a new one: its calls are new.

### The condition

An owner file that is empty and older than the grace (100 ms by default) counts as
abandoned. A process that is stopped for longer than that between creating and writing the
file can be judged so while it lives, and if the call that judged it is slow as well, the
file is removed after its owner has verified the lock: with `SlowWrites = TRUE` TLC finds
two holders in a behaviour of 22 states. The run and the theorems assume
`~SlowWrites`: a live call writes the file it has created within the grace. Nothing is assumed of how long any other step
takes, in particular between the making of the directory and the owner file, or between the
verdict over a file and its removal.

### Run

`fileLock`: three calls of three processes, of which two may exit, one after the other;
two inodes, so that a directory made again has the inode of the old one or another; a lock
file of an old version, with an exited process or damaged, may be there at the start. With
three calls one can reclaim what a second left while the third takes the lock, or two dead
ones leave their files in one directory. Deadlock is checked: a state without a step is one where every
call has ended or died (`Terminated`).

| Property | Says |
|---|---|
| `Exclusive` | two live calls never hold the lock together |
| `CommitIsFresh` | what an operation writes was derived from the version it replaces |
| `HolderKeepsLock` | directory and owner file of a holder stay |
| `NoFileIsLeft` | a live call that waits, gave up or is through has no owner file in the directory, whoever replaced that meanwhile |
| `LiveOwnerIsSpared` | only a live call itself removes its owner file |
| `ImplementsSerialUpdates` | the updates are made one after the other, each from the version it replaces (refinement) |
| `Recovered` | a call whose competitors have ended or died ends, past whatever they left |

`SerialUpdates` has no directory, owner files or reclaiming. The mapping `stage` takes the
operation a call is about to make to how far it is for its caller: outside until it holds
the lock, then entered, read, updated, and over as soon as its owner file is removed, though
the directory is still there.

`FairSpec` assumes weak fairness of each live call (its file system calls return) and of the
passing of time (`Age`). That a call gives up is a choice of the model it is never forced
to, so `Recovered` does not come from the longest wait.

### Proofs

`FileLockProofs` has `TypeCorrect` and `NoFileStays` (the invariant `NoFileIsLeft`, which is
inductive with the type: every way out of an attempt goes through the removal of the file by
its name), and under `~SlowWrites` `MutualExclusion`,
`NoLostUpdate`, `LockStays` and `LiveOwnersAreSpared`, for any number of calls, processes,
crashes and inodes. Exclusion alone is not inductive. `IInv` adds that owner files are in
the directory (`FilesNeedADir`); that a live call's file is there from its creation until
the call itself removes it (`OwnerFileStays`); that an empty file past the grace is a dead
call's (`OldIsAbandoned`, where the condition is used); and that the files a reclaiming call
has judged belong to dead calls (`JudgedIsDead`), which stays true however long it waits,
because the dead stay dead and no other call uses the name. Whoever lists the directory and
sees no file but its own therefore sees that nobody holds the lock. The inode comparison and
the age of the directory play no part in the argument: they spare attempts, not safety.

`Refinement` proves, under the same condition, that `FileLock` implements `SerialUpdates`.
Two steps need the invariant: the one by which a call finds that it holds the lock (`List`)
needs that no other is inside, which is exclusion after the step, and `Commit` needs that
the version it read is still current (`CommitIsFresh`). Every other step moves a call within
a stage, out of its stage to the next, or to the end, and a crash ends the calls of its
process together.

`Recovered` is liveness and stays with TLC.

## 7. Not modelled

See "components" in PROJECT.json, with the reason for each. User interfaces, providers and
plugins are left out for good, and the persistent protocol because nothing uses it; the
others are in the plan.
