-------------------------- MODULE RuntimeCommands --------------------------
(***************************************************************************)
(* The command queue of one AgentRuntime (packages/core/src/runtime of the *)
(* CLI): every prompt, goal continuation, background notification,         *)
(* subagent message and controlOnly turn of a session goes through one     *)
(* in-memory FIFO that a single drain coroutine empties.                   *)
(*                                                                         *)
(* JavaScript runs to completion between awaits, so one action here is the *)
(* code between two awaits of one coroutine.  Three kinds of coroutine     *)
(* interleave: the drain (pc), the bootstrap handlers that promote an      *)
(* input under a foreground promotion lease, or cut the branch and replay  *)
(* an input (holder), and the callers that submit, abort, stop or cancel.  *)
(*                                                                         *)
(* Every caller enqueues with priority "next", so the priority rank of     *)
(* command-queue.ts never separates two commands and the order is arrival. *)
(* The input id of a prompt is identified with its command.                *)
(***************************************************************************)
EXTENDS Naturals, FiniteSets

CONSTANTS
  Prompts,        \* commands of mode "prompt"
  Goals,          \* commands of mode "target-continuation-loop"
  Notifications,  \* commands of mode "task-notification"
  Messages,       \* commands of mode "subagent-message"
  Controls,       \* commands of mode "control-only-turn"
  Promoted,       \* prompts and goals that arrive through a lease holder
  Replayed,       \* prompts and goals that an edit or a retry may send, as well as a user
  OffPeak,        \* wake commands whose task belongs to the off-peak execution
  MaxGeneration,  \* bound on the number of conversation rewinds
  None

Cmds == Prompts \cup Goals \cup Notifications \cup Messages \cup Controls
Cancellable == Prompts \cup Goals
BranchBound == Notifications \cup Messages \cup Controls
Wakes == Notifications \cup Messages

Kinds == {"regular", "compact", "rewind", "planned", "rewound"}
Executions == [cmd : Cmds, aborted : BOOLEAN]
Turns == [turn : Cmds, kind : Kinds]

ASSUME ModesAreDisjoint ==
  /\ Prompts \cap (Goals \cup BranchBound) = {}
  /\ Goals \cap BranchBound = {}
  /\ Notifications \cap (Messages \cup Controls) = {}
  /\ Messages \cap Controls = {}
ASSUME CmdsAreFinite == IsFiniteSet(Cmds)
ASSUME PromotedAreUserInput == Promoted \subseteq Cancellable
ASSUME ReplayedAreUserInput == Replayed \subseteq Cancellable \ Promoted
ASSUME OffPeakAreWakes == OffPeak \subseteq Wakes
ASSUME GenerationIsNatural == MaxGeneration \in Nat
ASSUME NoneIsNoValue == None \notin Cmds \cup Executions \cup Turns

VARIABLES
  where,             \* where each command is: see Places
  arrival,           \* position of its push into the queue, 0 before it
  pc,                \* where the drain coroutine awaits; "idle": not draining
  foreground,        \* activeForegroundExecution: [cmd, aborted] or None
  reservation,       \* activeTurnStartReservation: its turn's command, or None
  activeTurn,        \* activeTurn: [turn, kind] or None
  snapshot,          \* commands the active loop has still to look at
  lease,             \* foregroundPromotionLease: the promoted input, or None
  holder,            \* progress of the handler that brings each input in
  controller,        \* activeAbortController: the background command's, or None
  branchGeneration,  \* bumped by a conversation rewind
  generation,        \* branchGeneration a command was enqueued under
  plan,              \* generation that the rewind of an input is going to set
  cancelPending,     \* cancelPendingCommandIds
  aborted,           \* commands whose caller's abort signal has fired
  offPeakCancelled   \* the off-peak execution's task card was cancelled

queueVars == <<where, arrival, cancelPending, aborted>>
drainVars == <<pc, foreground, reservation, activeTurn, snapshot>>
branchVars == <<branchGeneration, generation, plan>>
leaseVars == <<lease, holder, controller>>
vars == <<queueVars, drainVars, branchVars, leaseVars, offPeakCancelled>>

Waiting == {"new", "queued"}
Settled == {"resolved", "rejected", "dropped", "absorbed", "deferred", "collided"}
Places == Waiting \cup {"running", "absorbing"} \cup Settled
PCs == {"idle", "loop", "persist", "prepare", "turn", "absorb", "cleanup",
        "failed", "verify", "control"}
Replaying == {"editing", "stopping", "clear", "planned", "rewound"}
HolderStates == {"idle", "leased", "waiting", "barred", "ready", "admitted", "starting",
                 "background", "busy", "refused", "orphaned", "done"} \cup Replaying
Cleared == {"barred", "ready"}  \* behind the stop barrier, or found idle

queue == {c \in Cmds : where[c] = "queued"}
batch == {c \in Cmds : where[c] = "running"}
hasPending == queue # {}
drainActive == pc # "idle"
clock == 1 + Cardinality({c \in Cmds : arrival[c] > 0})

TypeOK ==
  /\ where \in [Cmds -> Places]
  /\ arrival \in [Cmds -> Nat]
  /\ pc \in PCs
  /\ foreground \in Executions \cup {None}
  /\ reservation \in Cmds \cup {None}
  /\ activeTurn \in Turns \cup {None}
  /\ snapshot \subseteq Cmds
  /\ lease \in Promoted \cup {None}
  /\ holder \in [Cancellable -> HolderStates]
  /\ controller \in Cancellable \cup {None}
  /\ branchGeneration \in Nat
  /\ generation \in [Cmds -> Nat]
  /\ plan \in [Cmds -> Nat]
  /\ cancelPending \subseteq Cmds
  /\ aborted \subseteq Cmds
  /\ offPeakCancelled \in BOOLEAN

Init ==
  /\ where = [c \in Cmds |-> "new"]
  /\ arrival = [c \in Cmds |-> 0]
  /\ pc = "idle"
  /\ foreground = None
  /\ reservation = None
  /\ activeTurn = None
  /\ snapshot = {}
  /\ lease = None
  /\ holder = [c \in Cancellable |-> "idle"]
  /\ controller = None
  /\ branchGeneration = 0
  /\ generation = [c \in Cmds |-> 0]
  /\ plan = [c \in Cmds |-> 0]
  /\ cancelPending = {}
  /\ aborted = {}
  /\ offPeakCancelled = FALSE

-----------------------------------------------------------------------------
(* Selection of the next batch.                                            *)

\* Mutant: the last command pushed leaves first.
Newest(S, at) == CHOOSE c \in S : \A d \in S : at[c] >= at[d]

Oldest(S, at) == CHOOSE c \in S : \A d \in S : at[c] <= at[d]

\* Mutant: notifications are not fenced.
StaleWithoutNotifications(c, gen) ==
  c \in BranchBound \ Notifications /\ gen[c] # branchGeneration

\* runtime-command-generation.ts: only branch-bound modes are fenced.
Stale(c, gen) == c \in BranchBound /\ gen[c] # branchGeneration

SameExecution(c, d) == (c \in OffPeak) <=> (d \in OffPeak)

\* All queued notifications of the head's execution form one batch; any other
\* command runs alone.
NextBatch(q, at) ==
  IF q = {} THEN {}
  ELSE LET head == Oldest(q, at)
       IN IF head \in Notifications
            THEN {c \in q \cap Notifications : SameExecution(c, head)}
            ELSE {head}

\* Mutant: the drain does not look at the lease.
BatchDespiteLease(q, at, l) == NextBatch(q, at)

\* Under a lease only the promoted input may leave the queue.
NextRunnableBatch(q, at, l) ==
  IF l = None THEN NextBatch(q, at) ELSE q \cap {l}

hasActiveOrQueuedTurnWork ==
  \/ lease # None
  \/ foreground # None
  \/ drainActive
  \/ hasPending
  \/ activeTurn # None
  \/ reservation # None

\* prompt-admission.ts: the lease itself is the only thing that makes us busy.
promotionLeaseOnly ==
  /\ lease # None
  /\ foreground = None
  /\ ~drainActive
  /\ ~hasPending
  /\ activeTurn = None
  /\ reservation = None

-----------------------------------------------------------------------------
(* The synchronous steps of the drain.                                     *)

\* reserveTurnStart, or the admission's own reservation: it throws when another
\* turn is active or reserved, and the command that asked for it is over.
CanStartTurn(c, r) == activeTurn = None /\ r \in {None, c}

\* Where runRuntimeCommand first awaits, by the mode of the command.
FirstAwait(c) ==
  IF c \in Prompts THEN "prepare"
  ELSE IF c \in Goals THEN "verify"
  ELSE IF c \in Wakes THEN "persist" ELSE "control"

\* The drain from its loop head to its next await, with q the queued commands,
\* at their arrivals, l the lease and r the reservation at that moment.  A prompt
\* or goal whose cancellation is pending is skipped.
Drain(q, at, gen, l, r) ==
  LET taken == NextRunnableBatch(q, at, l)
      live == {c \in taken : ~Stale(c, gen)}
      head == Oldest(live, at)
      skipped == head \in Cancellable \cap cancelPending
      collides == head \in Prompts /\ ~CanStartTurn(head, r)
      starts == live # {} /\ ~skipped /\ ~collides
      outcome == IF skipped THEN "rejected" ELSE IF collides THEN "collided" ELSE "running"
  IN /\ where' = [c \in Cmds |-> IF c \in live THEN outcome
                                ELSE IF c \in taken THEN "dropped"
                                ELSE IF c \in q THEN "queued" ELSE where[c]]
     /\ lease' = IF taken = {} THEN l ELSE None
     /\ cancelPending' = IF live # {} THEN cancelPending \ {head} ELSE cancelPending
     /\ foreground' = IF starts THEN [cmd |-> head, aborted |-> FALSE] ELSE None
     /\ reservation' = IF starts /\ head \in Prompts THEN head
                       ELSE IF live # {} /\ skipped /\ r = head THEN None ELSE r
     /\ pc' = IF taken = {} THEN "idle" ELSE IF starts THEN FirstAwait(head) ELSE "loop"

\* enqueueRuntimeCommand: push, then drain unless a drain is already active.
Enqueue(c, l, r) ==
  LET at == [arrival EXCEPT ![c] = clock]
      gen == [generation EXCEPT ![c] = branchGeneration]
  IN /\ arrival' = at
     /\ generation' = gen
     /\ IF drainActive
          THEN /\ where' = [where EXCEPT ![c] = "queued"]
               /\ lease' = l
               /\ reservation' = r
               /\ UNCHANGED <<pc, foreground, cancelPending>>
          ELSE Drain(queue \cup {c}, at, gen, l, r)

\* The drain awaited its previous batch; it goes on at its loop head.
DrainResumes ==
  /\ pc = "loop"
  /\ Drain(queue, arrival, generation, lease, reservation)
  /\ UNCHANGED <<arrival, aborted, activeTurn, snapshot, holder, controller,
                 branchVars, offPeakCancelled>>

-----------------------------------------------------------------------------
(* One command under way: from its persisted message to its settlement.    *)

\* Mutant: cancel-pending is not cleared.
FinishKeepingMarks(result) ==
  /\ where' = [c \in Cmds |-> IF c \in batch THEN result ELSE where[c]]
  /\ foreground' = None
  /\ pc' = "loop"
  /\ UNCHANGED cancelPending

\* finally of runRuntimeCommand / runTaskNotificationBatch: the caller's promise
\* settles, cancel-pending is cleared, the foreground execution ends.
Finish(result) ==
  /\ where' = [c \in Cmds |-> IF c \in batch THEN result ELSE where[c]]
  /\ foreground' = None
  /\ cancelPending' = cancelPending \ batch
  /\ pc' = "loop"

\* Mutant: a turn starts without throwIfTurnAborted.
StartTurnAnyway ==
  IF ~CanStartTurn(foreground.cmd, reservation)
    THEN Finish("collided") /\ UNCHANGED reservation
    ELSE /\ pc' = "prepare" /\ reservation' = foreground.cmd
         /\ UNCHANGED <<where, foreground, cancelPending>>

\* executeTurnCommand without an admission reservation, up to its first await.
StartTurn ==
  IF ~CanStartTurn(foreground.cmd, reservation)
    THEN Finish("collided") /\ UNCHANGED reservation
    ELSE /\ IF foreground.aborted
              THEN pc' = "failed" /\ UNCHANGED reservation
              ELSE pc' = "prepare" /\ reservation' = foreground.cmd
         /\ UNCHANGED <<where, foreground, cancelPending>>

Persisted ==
  /\ pc = "persist"
  /\ StartTurn
  /\ UNCHANGED <<arrival, aborted, activeTurn, snapshot, branchVars, leaseVars,
                 offPeakCancelled>>

PersistFails ==
  /\ pc = "persist"
  /\ Finish("rejected")
  /\ UNCHANGED <<arrival, aborted, reservation, activeTurn, snapshot, branchVars,
                 leaseVars, offPeakCancelled>>

\* Mutant: beginActiveTurn leaves the reservation in place.
BeginTurnReserved(kind) ==
  /\ pc = "prepare"
  /\ kind = "regular" \/ foreground.cmd \in Prompts
  /\ activeTurn' = [turn |-> foreground.cmd, kind |-> kind]
  /\ pc' = "turn"
  /\ UNCHANGED <<queueVars, foreground, reservation, snapshot, branchVars, leaseVars,
                 offPeakCancelled>>

\* beginActiveTurn; only a prompt's text can be a /compact or /rewind command.
BeginTurn(kind) ==
  /\ pc = "prepare"
  /\ kind = "regular" \/ foreground.cmd \in Prompts
  /\ activeTurn' = [turn |-> foreground.cmd, kind |-> kind]
  /\ reservation' = None
  /\ pc' = "turn"
  /\ UNCHANGED <<queueVars, foreground, snapshot, branchVars, leaseVars, offPeakCancelled>>

\* Mutant: a turn that fails before it begins keeps its reservation.
PrepareFailsReserved ==
  /\ pc = "prepare"
  /\ pc' = "failed"
  /\ UNCHANGED <<queueVars, foreground, reservation, activeTurn, snapshot, branchVars,
                 leaseVars, offPeakCancelled>>

\* The turn throws before beginActiveTurn; its finally releases the reservation.
PrepareFails ==
  /\ pc = "prepare"
  /\ reservation' = IF reservation = foreground.cmd THEN None ELSE reservation
  /\ pc' = "failed"
  /\ UNCHANGED <<queueVars, foreground, activeTurn, snapshot, branchVars, leaseVars,
                 offPeakCancelled>>

\* Mutant: the snapshot is trusted, the result of removeById is not looked at.
TakeNextOfSnapshot(S, placed) ==
  LET fresh == {c \in S : ~Stale(c, generation)}
      next == Oldest(fresh, arrival)
  IN /\ where' = [c \in Cmds |-> IF c \in S \ fresh THEN "dropped"
                                ELSE IF c \in fresh /\ c = next THEN "absorbing" ELSE placed[c]]
     /\ snapshot' = IF fresh = {} THEN {} ELSE fresh \ {next}
     /\ pc' = IF fresh = {} THEN "turn" ELSE "absorb"

\* drainPendingRuntimeCommandsForActiveLoop from one await to the next: S are the
\* commands of its snapshot still to look at.  A command that left the queue
\* meanwhile is skipped, a stale one is dropped, the next one is persisted.
TakeNext(S, placed) ==
  LET queued == {c \in S : placed[c] = "queued"}
      fresh == {c \in queued : ~Stale(c, generation)}
      next == Oldest(fresh, arrival)
  IN /\ where' = [c \in Cmds |-> IF c \in queued \ fresh THEN "dropped"
                                ELSE IF c \in fresh /\ c = next THEN "absorbing" ELSE placed[c]]
     /\ snapshot' = IF fresh = {} THEN {} ELSE fresh \ {next}
     /\ pc' = IF fresh = {} THEN "turn" ELSE "absorb"

\* Mutant: the active loop passes over a controlOnly turn instead of stopping.
AbsorbableBehindControls == queue \cap Wakes

\* The wakes the active loop may absorb: none behind a waiting controlOnly turn.
Absorbable ==
  {c \in queue \cap Wakes :
     \A d \in queue \cap Controls : arrival[c] < arrival[d]}

\* A model step ended and the regular loop goes round again.
ModelStep ==
  /\ pc = "turn"
  /\ activeTurn.kind = "regular"
  /\ Absorbable # {}
  /\ TakeNext(Absorbable, where)
  /\ UNCHANGED <<arrival, cancelPending, aborted, foreground, reservation, activeTurn,
                 branchVars, leaseVars, offPeakCancelled>>

\* Mutant: the persisted wake was only read, and is still queued.
AbsorbedInPlace ==
  /\ pc = "absorb"
  /\ TakeNext(snapshot,
              [c \in Cmds |-> IF where[c] = "absorbing" THEN "queued" ELSE where[c]])
  /\ UNCHANGED <<arrival, cancelPending, aborted, foreground, reservation, activeTurn,
                 branchVars, leaseVars, offPeakCancelled>>

Absorbed ==
  /\ pc = "absorb"
  /\ TakeNext(snapshot,
              [c \in Cmds |-> IF where[c] = "absorbing" THEN "absorbed" ELSE where[c]])
  /\ UNCHANGED <<arrival, cancelPending, aborted, foreground, reservation, activeTurn,
                 branchVars, leaseVars, offPeakCancelled>>

\* The persistence error of an absorbed wake ends the turn.
AbsorbFails ==
  /\ pc = "absorb"
  /\ where' = [c \in Cmds |-> IF where[c] = "absorbing" THEN "rejected" ELSE where[c]]
  /\ snapshot' = {}
  /\ activeTurn' = None
  /\ pc' = "failed"
  /\ UNCHANGED <<arrival, cancelPending, aborted, foreground, reservation, branchVars,
                 leaseVars, offPeakCancelled>>

\* buildConversationRewindPlan for input c.
PlansRewind(c) ==
  /\ branchGeneration < MaxGeneration
  /\ plan' = [plan EXCEPT ![c] = branchGeneration + 1]
  /\ UNCHANGED <<branchGeneration, generation>>

\* applyConversationRewindPlan: after the tasks of the branch are cancelled and
\* the cut is stored, the planned generation becomes the current one.
CutsBranch(c) ==
  /\ branchGeneration' = plan[c]
  /\ plan' = [plan EXCEPT ![c] = 0]
  /\ UNCHANGED generation

\* executeRewindCommand: a rewind inside the turn of a /rewind prompt.
RewindPlanned ==
  /\ pc = "turn"
  /\ activeTurn.kind = "rewind"
  /\ PlansRewind(foreground.cmd)
  /\ activeTurn' = [activeTurn EXCEPT !.kind = "planned"]
  /\ UNCHANGED <<queueVars, pc, foreground, reservation, snapshot, leaseVars,
                 offPeakCancelled>>

RewindApplied ==
  /\ pc = "turn"
  /\ activeTurn.kind = "planned"
  /\ CutsBranch(foreground.cmd)
  /\ activeTurn' = [activeTurn EXCEPT !.kind = "rewound"]
  /\ UNCHANGED <<queueVars, pc, foreground, reservation, snapshot, leaseVars,
                 offPeakCancelled>>

\* finally of executeTurnCommand: releaseTurnStart and finishActiveTurn, then
\* the awaited browser cleanup.
EndTurn(outcome) ==
  /\ pc = "turn"
  /\ activeTurn' = None
  /\ reservation' = IF reservation = activeTurn.turn THEN None ELSE reservation
  /\ pc' = outcome
  /\ UNCHANGED <<queueVars, foreground, snapshot, branchVars, leaseVars, offPeakCancelled>>

\* Mutant: the goal loop does not yield to waiting commands.
TurnSucceededSelfishly(continues) ==
  /\ pc = "cleanup"
  /\ continues => foreground.cmd \notin Messages
  /\ ~continues => foreground.cmd \in Prompts \cup Messages
  /\ IF continues /\ ~foreground.aborted /\ CanStartTurn(foreground.cmd, reservation)
       THEN pc' = "verify" /\ UNCHANGED <<where, foreground, cancelPending>>
       ELSE Finish("resolved")
  /\ UNCHANGED <<arrival, aborted, reservation, activeTurn, snapshot, branchVars,
                 leaseVars, offPeakCancelled>>

\* A turn succeeded.  Goals and notifications, and prompts submitted with
\* continueActiveTargetAfterTurn, go on to the goal loop, whose head stops on an
\* aborted execution and yields to whatever is waiting.
TurnSucceeded(continues) ==
  /\ pc = "cleanup"
  /\ continues => foreground.cmd \notin Messages
  /\ ~continues => foreground.cmd \in Prompts \cup Messages
  /\ IF continues /\ ~foreground.aborted /\ ~hasPending /\ CanStartTurn(foreground.cmd, reservation)
       THEN pc' = "verify" /\ UNCHANGED <<where, foreground, cancelPending>>
       ELSE Finish("resolved")
  /\ UNCHANGED <<arrival, aborted, reservation, activeTurn, snapshot, branchVars,
                 leaseVars, offPeakCancelled>>

\* A failed turn of a command, or a failed continuation of a notification, which
\* is logged only.
TurnFailed ==
  /\ pc = "failed"
  /\ Finish("rejected")
  /\ UNCHANGED <<arrival, aborted, reservation, activeTurn, snapshot, branchVars,
                 leaseVars, offPeakCancelled>>

\* executeTargetContinuationCommand: no goal, background work, or goal reached.
VerifyStops ==
  /\ pc = "verify"
  /\ Finish("resolved")
  /\ UNCHANGED <<arrival, aborted, reservation, activeTurn, snapshot, branchVars,
                 leaseVars, offPeakCancelled>>

VerifyContinues ==
  /\ pc = "verify"
  /\ StartTurn
  /\ UNCHANGED <<arrival, aborted, activeTurn, snapshot, branchVars, leaseVars,
                 offPeakCancelled>>

\* emitControlOnlyUserTurn: no active turn, only a user message and boundaries.
ControlDone(result) ==
  /\ pc = "control"
  /\ Finish(result)
  /\ UNCHANGED <<arrival, aborted, reservation, activeTurn, snapshot, branchVars,
                 leaseVars, offPeakCancelled>>

-----------------------------------------------------------------------------
(* Callers.                                                                *)

\* enqueueCancellableRuntimeCommand: a caller that has already aborted is
\* refused, and the reservation it may hold is released again.
Submit(c, r) ==
  /\ c \in Cancellable
  /\ where[c] = "new"
  /\ IF c \in aborted
       THEN /\ where' = [where EXCEPT ![c] = "rejected"]
            /\ UNCHANGED <<arrival, generation, lease, reservation, pc, foreground,
                            cancelPending>>
       ELSE Enqueue(c, lease, r)
  /\ UNCHANGED <<aborted, activeTurn, snapshot, branchGeneration, plan,
                 offPeakCancelled>>

\* executeTurn: queued whatever the runtime is doing.
SubmitCommand(p) ==
  /\ p \in Prompts \ Promoted
  /\ holder[p] = "idle"
  /\ Submit(p, reservation)
  /\ UNCHANGED <<holder, controller>>

\* admitPrompt of an idle runtime reserves the turn before it enqueues it.
AdmitPrompt(p) ==
  /\ p \in Prompts \ Promoted
  /\ holder[p] \in {"idle", "rewound"}
  /\ ~hasActiveOrQueuedTurnWork
  /\ Submit(p, p)
  /\ UNCHANGED <<holder, controller>>

\* admitPrompt of a busy runtime, or with requireQueue: the input goes to the
\* pending inputs (steerTurn, enqueueDeferredInput) and is no command here.
DeferPrompt(p, requireQueue) ==
  /\ p \in Prompts \ Promoted
  /\ holder[p] \in {"idle", "rewound"}
  /\ where[p] = "new"
  /\ requireQueue \/ hasActiveOrQueuedTurnWork
  /\ where' = [where EXCEPT ![p] = "deferred"]
  /\ UNCHANGED <<arrival, cancelPending, aborted, drainVars, branchVars, leaseVars,
                 offPeakCancelled>>

\* enqueueBackgroundTaskNotification, enqueueSubagentMessage.
PostWake(c) ==
  /\ c \in Wakes
  /\ where[c] = "new"
  /\ c \in OffPeak => ~offPeakCancelled
  /\ Enqueue(c, lease, reservation)
  /\ UNCHANGED <<aborted, activeTurn, snapshot, branchGeneration, plan,
                 holder, controller, offPeakCancelled>>

\* The task belongs to an abandoned branch, or to a cancelled off-peak execution.
DropLateWake(c) ==
  /\ c \in Wakes
  /\ where[c] = "new"
  /\ branchGeneration > 0 \/ (c \in OffPeak /\ offPeakCancelled)
  /\ where' = [where EXCEPT ![c] = "dropped"]
  /\ UNCHANGED <<arrival, cancelPending, aborted, drainVars, branchVars, leaseVars,
                 offPeakCancelled>>

\* enqueueSettingsTurn.
PostControl(c) ==
  /\ c \in Controls
  /\ where[c] = "new"
  /\ Enqueue(c, lease, reservation)
  /\ UNCHANGED <<aborted, activeTurn, snapshot, branchGeneration, plan,
                 holder, controller, offPeakCancelled>>

\* Mutant: an idle runtime is stopped as well.
StoppedBlindly(f) == [cmd |-> IF f = None THEN None ELSE f.cmd, aborted |-> TRUE]

\* stopActiveForegroundExecution.
Stopped(f) == IF f = None THEN None ELSE [f EXCEPT !.aborted = TRUE]

\* The abort signals of S fire: a queued command is removed and its reservation
\* released, a running one is marked and its foreground execution aborted.
Interrupt(S, stop) ==
  LET fired == {c \in S \ aborted : where[c] \in Waiting \cup {"running"}}
      removed == fired \cap queue
  IN /\ aborted' = aborted \cup fired
     /\ where' = [c \in Cmds |-> IF c \in removed THEN "rejected" ELSE where[c]]
     /\ reservation' = IF reservation \in removed THEN None ELSE reservation
     /\ cancelPending' = cancelPending \cup (fired \cap batch)
     /\ foreground' = IF stop \/ fired \cap batch # {} THEN Stopped(foreground)
                                                     ELSE foreground

Abort(c) ==
  /\ c \in Cancellable \ aborted
  /\ where[c] \in Waiting \cup {"running"}
  /\ Interrupt({c}, FALSE)
  /\ UNCHANGED <<arrival, pc, activeTurn, snapshot, branchVars, leaseVars, offPeakCancelled>>

\* stop of the v4 protocol: the foreground execution and the controller.
Stop ==
  /\ (foreground # None /\ ~foreground.aborted) \/ controller # None
  /\ Interrupt({controller} \ {None}, TRUE)
  /\ UNCHANGED <<arrival, pc, activeTurn, snapshot, branchVars, leaseVars, offPeakCancelled>>

\* OffPeak controller's cancel: seal the tasks, remove their queued wakes, stop
\* the foreground execution.
CancelOffPeak ==
  /\ ~offPeakCancelled
  /\ offPeakCancelled' = TRUE
  /\ where' = [c \in Cmds |-> IF c \in queue \cap OffPeak THEN "dropped" ELSE where[c]]
  /\ foreground' = Stopped(foreground)
  /\ UNCHANGED <<arrival, cancelPending, aborted, pc, reservation, activeTurn, snapshot,
                 branchVars, leaseVars>>

-----------------------------------------------------------------------------
(* The bootstrap handlers that bring an input in by more than one step:     *)
(* sendQueuedNow and sendText(startNow) under a promotion lease, the direct *)
(* /compact, sendGoalCommand and resumeGoal, and editUserQuery and          *)
(* retryTurn, which cut the branch outside of the queue.                    *)

\* Mutant: an existing lease is no conflict.
AcquireLeaseOver(p, mode) ==
  /\ p \in Promoted
  /\ holder[p] = "idle"
  /\ where[p] = "new"
  /\ mode = "idle-only" => ~hasActiveOrQueuedTurnWork
  /\ lease' = p
  /\ holder' = [holder EXCEPT ![p] = IF mode = "idle-only" THEN "ready" ELSE "leased"]
  /\ UNCHANGED <<queueVars, drainVars, controller, branchVars, offPeakCancelled>>

\* acquireForegroundPromotionLease; "idle-only" is the automatic drain, which
\* skips the stop barrier.
AcquireLease(p, mode) ==
  /\ p \in Promoted
  /\ holder[p] = "idle"
  /\ where[p] = "new"
  /\ lease = None
  /\ mode = "idle-only" => ~hasActiveOrQueuedTurnWork
  /\ lease' = p
  /\ holder' = [holder EXCEPT ![p] = IF mode = "idle-only" THEN "ready" ELSE "leased"]
  /\ UNCHANGED <<queueVars, drainVars, controller, branchVars, offPeakCancelled>>

\* Whether something runs, as editUserQuery and waitForSessionIdle see it.
sessionBusy == foreground # None \/ activeTurn # None \/ controller # None

\* preemptActiveTurnAndWait up to its poll: stop the foreground execution, or
\* abort the controller if there was none to stop.  An edit preempts only a
\* session that it finds busy.
Preempt(p) ==
  /\ holder[p] = "leased" \/ (holder[p] = "editing" /\ sessionBusy)
  /\ LET stops == foreground # None /\ ~foreground.aborted
     IN Interrupt(IF stops THEN {} ELSE {controller} \ {None}, stops)
  /\ holder' = [holder EXCEPT ![p] = IF holder[p] = "leased" THEN "waiting" ELSE "stopping"]
  /\ UNCHANGED <<arrival, pc, activeTurn, snapshot, branchVars, lease, controller,
                 offPeakCancelled>>

\* waitForSessionIdle; an edit of an idle session does not come to it.
SessionIdle(p) ==
  /\ holder[p] \in {"waiting", "editing", "stopping"}
  /\ ~sessionBusy
  /\ holder' = [holder EXCEPT ![p] = IF holder[p] = "waiting" THEN "barred" ELSE "clear"]
  /\ UNCHANGED <<queueVars, drainVars, branchVars, lease, controller, offPeakCancelled>>

\* The idle poll times out, the queue item can no longer be promoted, or no model
\* is ready.
GiveUp(c) ==
  /\ holder[c] \in {"leased", "waiting", "starting"} \cup Cleared
  /\ holder' = [holder EXCEPT ![c] = "refused"]
  /\ UNCHANGED <<queueVars, drainVars, branchVars, lease, controller, offPeakCancelled>>

\* startPromptTurn with requireIdle: admitted only if the lease alone is busy.
PromotePrompt(p) ==
  /\ holder[p] \in Cleared
  /\ p \in Promoted \cap Prompts
  /\ ~hasActiveOrQueuedTurnWork \/ promotionLeaseOnly
  /\ Submit(p, p)
  /\ holder' = [holder EXCEPT ![p] = "admitted"]
  /\ UNCHANGED controller

PromotionRejected(p) ==
  /\ holder[p] \in Cleared
  /\ p \in Prompts
  /\ hasActiveOrQueuedTurnWork /\ ~promotionLeaseOnly
  /\ holder' = [holder EXCEPT ![p] = "busy"]
  /\ UNCHANGED <<queueVars, drainVars, branchVars, lease, controller, offPeakCancelled>>

\* The background coroutine of a compact or a goal: the controller is set, the
\* command is enqueued without admission, and the release is left to the
\* coroutine's finally.
StartInBackground(c) ==
  /\ Submit(c, reservation)
  /\ controller' = c
  /\ holder' = [holder EXCEPT ![c] = "background"]

\* startManualCompact of a queued /compact.
PromoteCompact(p) ==
  /\ p \in Prompts
  /\ holder[p] \in Cleared
  /\ StartInBackground(p)

\* compact: only while nothing runs.
Compact(p) ==
  /\ p \in Prompts \ Promoted
  /\ holder[p] = "idle"
  /\ controller = None /\ activeTurn = None
  /\ StartInBackground(p)

\* sendGoalCommand, resumeGoal, applyGoalCommand of a replayed goal, and the check
\* of continueGoalAfterChange.
RequestGoal(g) ==
  /\ g \in Goals \ Promoted
  /\ holder[g] \in {"idle", "rewound"}
  /\ where[g] = "new"
  /\ controller = None
  /\ holder' = [holder EXCEPT ![g] = "starting"]
  /\ UNCHANGED <<queueVars, drainVars, branchVars, lease, controller, offPeakCancelled>>

\* The same check for a queued goal: sendQueuedNow has decided before its awaits
\* that a background coroutine will release the lease, and here none is started.
PromoteGoal(g) ==
  /\ g \in Goals
  /\ holder[g] \in Cleared
  /\ holder' = [holder EXCEPT ![g] = IF controller = None THEN "starting" ELSE "orphaned"]
  /\ UNCHANGED <<queueVars, drainVars, branchVars, lease, controller, offPeakCancelled>>

\* continueGoalAfterChange after ensureModelReady; the controller is not looked
\* at again.
StartGoal(g) ==
  /\ holder[g] = "starting"
  /\ StartInBackground(g)

\* editUserQuery of the latest input unless it is compacted, and retryTurn of the
\* latest answer, which no active turn may follow, up to their preflight.  The
\* inbox runs one such command of the session at a time.
RequestReplay(c, edit) ==
  /\ c \in Replayed
  /\ holder[c] = "idle"
  /\ where[c] = "new"
  /\ \A d \in Replayed : holder[d] \notin Replaying
  /\ activeTurn # None => edit /\ activeTurn.kind # "compact"
  /\ holder' = [holder EXCEPT ![c] = IF edit THEN "editing" ELSE "clear"]
  /\ UNCHANGED <<queueVars, drainVars, branchVars, lease, controller, offPeakCancelled>>

\* submitConversationRewind, after the preflight of a retry, or the barrier and
\* the file rewind of an edit: whatever the drain is doing by then.
ReplayPlans(c) ==
  /\ holder[c] = "clear"
  /\ PlansRewind(c)
  /\ holder' = [holder EXCEPT ![c] = "planned"]
  /\ UNCHANGED <<queueVars, drainVars, lease, controller, offPeakCancelled>>

ReplayCuts(c) ==
  /\ holder[c] = "planned"
  /\ CutsBranch(c)
  /\ holder' = [holder EXCEPT ![c] = "rewound"]
  /\ UNCHANGED <<queueVars, drainVars, lease, controller, offPeakCancelled>>

\* The handler returns, or throws at one of its awaits.
ReplayEnds(c) ==
  /\ holder[c] \in Replaying
  /\ holder' = [holder EXCEPT ![c] = "idle"]
  /\ plan' = [plan EXCEPT ![c] = 0]
  /\ UNCHANGED <<queueVars, drainVars, branchGeneration, generation, lease, controller,
                 offPeakCancelled>>

\* The handler, or the background coroutine that took over from it, is in its
\* finally.
Releasing(c) ==
  \/ holder[c] \in {"admitted", "refused", "busy"}
  \/ holder[c] = "background" /\ where[c] \in Settled

\* What a finally does besides the lease.  A handler whose input did not start
\* leaves it where it was, to be sent again.
HandlerEnds(c) ==
  /\ holder' = [holder EXCEPT ![c] = IF where[c] = "new" THEN "idle" ELSE "done"]
  /\ controller' = IF controller = c THEN None ELSE controller
  /\ UNCHANGED <<arrival, aborted, activeTurn, snapshot, branchVars, offPeakCancelled>>

\* Mutant: the release waits for the next enqueue to start a drain.
ReleaseLeaseQuietly(c) ==
  /\ Releasing(c)
  /\ lease' = IF lease = c THEN None ELSE lease
  /\ UNCHANGED <<where, pc, foreground, reservation, cancelPending>>
  /\ HandlerEnds(c)

\* Mutant: a handler whose promotion was rejected does not release.
ReleaseLeaseUnlessBusy(c) ==
  /\ Releasing(c)
  /\ holder[c] # "busy"
  /\ IF lease = c /\ ~drainActive
       THEN Drain(queue, arrival, generation, None, reservation)
       ELSE /\ lease' = IF lease = c THEN None ELSE lease
            /\ UNCHANGED <<where, pc, foreground, reservation, cancelPending>>
  /\ HandlerEnds(c)

\* releaseForegroundPromotionLease resumes the drain it held up.
ReleaseLease(c) ==
  /\ Releasing(c)
  /\ IF lease = c /\ ~drainActive
       THEN Drain(queue, arrival, generation, None, reservation)
       ELSE /\ lease' = IF lease = c THEN None ELSE lease
            /\ UNCHANGED <<where, pc, foreground, reservation, cancelPending>>
  /\ HandlerEnds(c)

-----------------------------------------------------------------------------
DrainStep ==
  \/ DrainResumes
  \/ Persisted \/ PersistFails
  \/ \E kind \in {"regular", "compact", "rewind"} : BeginTurn(kind)
  \/ PrepareFails
  \/ ModelStep \/ Absorbed \/ AbsorbFails
  \/ RewindPlanned \/ RewindApplied
  \/ \E outcome \in {"cleanup", "failed"} : EndTurn(outcome)
  \/ \E continues \in BOOLEAN : TurnSucceeded(continues)
  \/ TurnFailed
  \/ VerifyStops \/ VerifyContinues
  \/ \E result \in {"resolved", "rejected"} : ControlDone(result)

CallerStep ==
  \/ \E c \in Cancellable : Abort(c)
  \/ \E p \in Prompts : SubmitCommand(p) \/ AdmitPrompt(p) \/ Compact(p)
  \/ \E p \in Prompts, requireQueue \in BOOLEAN : DeferPrompt(p, requireQueue)
  \/ \E g \in Goals : RequestGoal(g)
  \/ \E c \in Wakes : PostWake(c) \/ DropLateWake(c)
  \/ \E c \in Controls : PostControl(c)
  \/ \E p \in Promoted, mode \in {"after-current", "idle-only"} : AcquireLease(p, mode)
  \/ \E c \in Replayed, edit \in BOOLEAN : RequestReplay(c, edit)
  \/ Stop
  \/ CancelOffPeak

\* What a handler does by itself once it is under way.
HolderStep(c) ==
  \/ Preempt(c) \/ SessionIdle(c) \/ GiveUp(c)
  \/ PromotePrompt(c) \/ PromotionRejected(c) \/ PromoteCompact(c)
  \/ PromoteGoal(c) \/ StartGoal(c)
  \/ ReleaseLease(c)
  \/ c \in Replayed /\ (ReplayPlans(c) \/ ReplayCuts(c) \/ ReplayEnds(c))

Next ==
  \/ DrainStep
  \/ CallerStep
  \/ \E c \in Cancellable : HolderStep(c)

Spec == Init /\ [][Next]_vars

\* Every await of the drain ends (model, store and verifier calls have their own
\* timeouts and abort signals) and every handler runs to its finally.
Fairness ==
  /\ WF_vars(DrainStep)
  /\ \A c \in Cancellable : WF_vars(HolderStep(c))

FairSpec == Spec /\ Fairness
-----------------------------------------------------------------------------
(* Properties.                                                             *)

executing == {c \in Cmds : where[c] \in {"running", "absorbing"}}
starting(c) == where[c] \in Waiting /\ where'[c] = "running"

\* A session runs one turn at a time: a turn that is active, or has only reserved
\* its start, is the turn of the foreground execution, and never both at once.
\* (activeTurn, activeTurnStartReservation and activeForegroundExecution are three
\* fields, written by admission, by the drain and by executeTurnCommand.)
OneTurn ==
  /\ activeTurn # None =>
       reservation = None /\ foreground # None /\ foreground.cmd = activeTurn.turn
  /\ reservation # None => foreground # None /\ foreground.cmd = reservation

\* No accepted command is thrown away because another turn is active or reserved
\* when its own turn starts: between the busy check of admitPrompt and
\* reserveTurnStart of executeTurnCommand nothing can slip in.
NoCollision == \A c \in Cmds : where[c] # "collided"

\* A queued command is never forgotten: unless a promotion lease holds it back, a
\* drain is under way (enqueueRuntimeCommand and releaseForegroundPromotionLease
\* restart it; the drain itself only stops on an empty queue).
NoLostWakeup == hasPending /\ lease = None => drainActive

\* No wake and no settings turn from before a cut of the branch starts after it, or
\* is absorbed by the active loop: an edit, a retry or a /rewind turn may cut the
\* branch at any await, while the wake is queued, next to a fresh one in a batch, or
\* in the snapshot of an active loop that is persisting another.
StaleNeverStarts ==
  [][\A c \in BranchBound :
       c \notin executing /\ c \in executing' => generation'[c] = branchGeneration']_vars

\* The cancel-pending marks are those of the command under way: a mark outliving
\* its command would leak, one on a queued command would skip it.
CancelMarksRunning == cancelPending \subseteq batch

\* The promotion lease has a handler under way, which has not come to the finally
\* that releases it, and until that handler has submitted its input the lease is
\* its: no other handler, drain or release can take it.
LeaseIsOwned ==
  /\ lease # None => holder[lease] \notin {"idle", "done"}
  /\ \A p \in Promoted :
       holder[p] \in {"leased", "waiting", "starting"} \cup Cleared => lease = p

\* Until the handler that holds the lease is through, nothing but its input leaves
\* the queue: not the oldest notification, not a prompt submitted meanwhile, and
\* not when some other handler gives up or releases.
LeaseHoldsOthersBack ==
  [][\A c \in Cmds :
       lease \notin {None, c} /\ holder'[lease] # "done" /\ holder'[lease] # "idle"
       => ~starting(c)]_vars

\* A command is overtaken in the queue only by an input under a lease, or by
\* notifications taken in one batch with an older one, which runs with them or is
\* dropped as stale.
OnlyBatchesOvertake ==
  [][\A c, d \in Cmds :
       /\ starting(c) /\ lease # c
       /\ where[d] = "queued" /\ where'[d] = "queued"
       /\ arrival[d] < arrival'[c]
       => \E e \in Notifications :
            /\ where[e] = "queued" /\ where'[e] \in {"running", "dropped"}
            /\ arrival[e] < arrival[d]]_vars

\* The active loop never carries a wake past an older controlOnly turn that is
\* still queued, whatever it saw in its snapshot before it persisted the others.
ControlStopsAbsorption ==
  [][\A c \in Wakes, d \in Controls :
       where[c] = "queued" /\ where'[c] = "absorbing" /\ where[d] = "queued"
       => arrival[c] < arrival[d]]_vars

\* Once Stop, a preemption or an abort has hit the foreground execution it starts
\* no further turn, wherever it was: persisting, verifying the goal, or between
\* the end of a turn and the next look at the goal.
StoppedStartsNoTurn ==
  [][foreground # None /\ foreground.aborted /\ foreground' = foreground
       => ~(reservation = None /\ reservation' # None)]_vars

\* After the off-peak task card was cancelled none of its wakes is queued, and
\* none starts or is absorbed, even one in a snapshot taken before.
OffPeakStaysCancelled ==
  /\ [](offPeakCancelled => queue \cap OffPeak = {})
  /\ [][offPeakCancelled =>
          executing' \cap OffPeak \subseteq executing]_vars

\* Every queued command leaves the queue, whatever goal loops, leases and stops
\* come before it.
QueuedIsServed == \A c \in Cmds : where[c] = "queued" ~> where[c] # "queued"

\* Every promotion lease is consumed or released.
LeaseIsReturned == \A p \in Promoted : lease = p ~> lease # p

\* A handler that ends without starting its input does not keep the lease: a
\* notification may wait behind it, and runtime-command-queue.ts:166-167 has the
\* release resume the drain for it.
NothingWaitsBehindOrphan ==
  \A p \in Promoted : holder[p] = "orphaned" => lease # p \/ ~hasPending

\* A promotion that has stopped the foreground execution is admitted once the
\* runtime does nothing: docs/conversation-protocol-declaration.md:449-451 lets the
\* promoted command leave before the notifications that wait behind its lease.
BarredPromotionIsAdmitted ==
  [][\A p \in Promoted :
       /\ holder[p] = "barred" /\ lease = p
       /\ foreground = None /\ activeTurn = None /\ reservation = None /\ ~drainActive
       => holder'[p] # "busy"]_vars
=============================================================================
