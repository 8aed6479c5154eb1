--------------------- MODULE RuntimeCommandsStepProofs ---------------------
(* What a step of RuntimeCommands may never do, for every set of commands. *)
(* Every step has one of six shapes; a second inductive invariant is       *)
(* kept by each, and the action properties are read off them.              *)
EXTENDS RuntimeCommandsProofs

-----------------------------------------------------------------------------
(* The second invariant.                                                   *)

\* No wake of the cancelled off-peak execution waits.
OffPeakIsSwept == offPeakCancelled => queue \cap OffPeak = {}

\* Arrivals number the pushes: they are distinct, and the clock is ahead of them.
ArrivalsAreNumbered ==
  /\ \A c \in Cmds : where[c] = "new" => arrival[c] = 0
  /\ \A c \in Cmds : where[c] = "queued" => arrival[c] > 0
  /\ \A c \in Cmds : arrival[c] < clock
  /\ \A c, d \in Cmds : arrival[c] = arrival[d] /\ arrival[c] > 0 => c = d

\* The snapshot of the active loop is ahead of every queued controlOnly turn.
SnapshotIsAhead ==
  \A c \in snapshot :
    /\ where[c] # "new"
    /\ \A d \in Controls :
         where[c] = "queued" /\ where[d] = "queued" => arrival[c] < arrival[d]

StepInv ==
  /\ CancelMarksRunning
  /\ OffPeakIsSwept
  /\ ArrivalsAreNumbered
  /\ SnapshotIsAhead

-----------------------------------------------------------------------------
(* The shapes of a step.                                                   *)

\* The commands of N, none or one, are pushed.
Pushes(N) ==
  \/ N = {} /\ UNCHANGED <<arrival, generation>>
  \/ \E c \in Cmds :
       /\ N = {c} /\ where[c] = "new"
       /\ c \in OffPeak => ~offPeakCancelled
       /\ arrival' = [arrival EXCEPT ![c] = clock]
       /\ generation' = [generation EXCEPT ![c] = branchGeneration]

\* The drain runs on the queue q, the lease l and the reservation r.
DrainRuns(q, l, r) ==
  /\ Drain(q, arrival', generation', l, r)
  /\ pc \in {"idle", "loop"}
  /\ queue \subseteq q /\ Pushes(q \ queue)
  /\ r # None => q = {r} /\ l \in {None, r}
  /\ l = lease \/ (l = None /\ lease # None /\ holder'[lease] \in {"idle", "done"})
  /\ UNCHANGED <<activeTurn, snapshot, branchGeneration, offPeakCancelled>>

Drains ==
  \E q \in SUBSET Cmds, l \in Promoted \cup {None}, r \in Prompts \cup {None} : DrainRuns(q, l, r)

\* A command joins the queue of a drain that is under way.
Queues ==
  \E c \in Cmds :
    /\ Pushes({c})
    /\ where' = [where EXCEPT ![c] = "queued"]
    /\ UNCHANGED <<foreground, reservation, cancelPending, activeTurn, snapshot,
                   branchGeneration, offPeakCancelled>>

\* The execution under way settles.
Settles ==
  \E result \in {"resolved", "rejected"} :
    /\ Finish(result)
    /\ pc \notin {"idle", "loop", "prepare", "turn", "absorb"}
    /\ UNCHANGED <<arrival, generation, reservation, activeTurn, snapshot, branchGeneration,
                   offPeakCancelled>>

\* A turn reserves its start, or fails.
Starts ==
  /\ StartTurn
  /\ pc \in {"persist", "verify"}
  /\ UNCHANGED <<arrival, generation, activeTurn, snapshot, branchGeneration, offPeakCancelled>>

\* The active loop takes the next wake of S, with the others where placed says.
Takes(S, placed) ==
  /\ TakeNext(S, placed)
  /\ \A c \in Cmds : placed[c] = where[c] \/ (where[c] = "absorbing" /\ placed[c] = "absorbed")
  /\ \A c \in Cmds : placed[c] # "absorbing"
  /\ S \subseteq Absorbable \/ S \subseteq snapshot
  /\ pc \in {"turn", "absorb"}
  /\ UNCHANGED <<arrival, generation, cancelPending, foreground, reservation, activeTurn,
                 branchGeneration, offPeakCancelled>>

Absorbs == \E S \in SUBSET Wakes, placed \in [Cmds -> Places] : Takes(S, placed)

\* Commands outside of the batch settle, marks and reservation only go; the branch
\* may be cut.
Calms ==
  /\ where' \in [Cmds -> Places]
  /\ \A c \in Cmds : where'[c] # where[c] =>
       where[c] \in Waiting \cup {"absorbing"} /\ where'[c] \in Settled
  /\ UNCHANGED <<arrival, generation>>
  /\ cancelPending' \subseteq cancelPending \cup batch
  /\ reservation' \in {reservation, None}
  /\ snapshot' \subseteq snapshot
  /\ offPeakCancelled' => offPeakCancelled \/ queue' \cap OffPeak = {}

StepShapes == Drains \/ Queues \/ Settles \/ Starts \/ Absorbs \/ Calms

-----------------------------------------------------------------------------
(* Every step has one of the shapes.                                       *)

LEMMA PushShape ==
  ASSUME Inv, NEW c \in Cmds, where[c] = "new", c \in OffPeak => ~offPeakCancelled,
         NEW r, r = reservation \/ (c = r /\ c \in Prompts /\ ~drainActive /\ ~hasPending /\ lease \in {None, c}),
         Enqueue(c, lease, r),
         UNCHANGED <<activeTurn, snapshot, branchGeneration, offPeakCancelled>>
  PROVE  Drains \/ Queues
<1>1. arrival' = [arrival EXCEPT ![c] = clock] /\ generation' = [generation EXCEPT ![c] = branchGeneration]
  BY DEF Enqueue
<1>2. c \notin queue /\ queue \in SUBSET Cmds /\ (queue \cup {c}) \ queue = {c}
  BY DEF queue
<1>3. Pushes({c})
  BY <1>1 DEF Pushes
<1>4. CASE drainActive
  <2>1. where' = [where EXCEPT ![c] = "queued"] /\ r = reservation
        /\ UNCHANGED <<pc, foreground, cancelPending>> /\ reservation' = r
    BY <1>4 DEF Enqueue
  <2>. QED
    BY <1>3, <2>1 DEF Queues
<1>5. CASE ~drainActive
  <2>1. Drain(queue \cup {c}, arrival', generation', lease, r) /\ pc = "idle" /\ reservation = None
    BY <1>5 DEF Enqueue, drainActive, Inv, TurnPhases
  <2>2. /\ r \in Prompts \cup {None} /\ lease \in Promoted \cup {None}
        /\ r # None => queue \cup {c} = {r} /\ lease \in {None, r}
    BY <2>1 DEF Inv, TypeOK, hasPending
  <2>3. DrainRuns(queue \cup {c}, lease, r)
    BY <1>2, <1>3, <2>1, <2>2 DEF DrainRuns
  <2>. QED
    BY <1>2, <2>2, <2>3 DEF Drains
<1>. QED
  BY <1>4, <1>5

LEMMA SubmitShape ==
  ASSUME Inv, NEW c \in Cmds,
         NEW r, r = reservation \/ (c = r /\ c \in Prompts /\ ~drainActive /\ ~hasPending /\ lease \in {None, c}),
         Submit(c, r)
  PROVE  Drains \/ Queues \/ Calms
<1>1. /\ c \in Cancellable /\ where[c] = "new"
      /\ UNCHANGED <<aborted, activeTurn, snapshot, branchGeneration, offPeakCancelled>>
  BY DEF Submit
<1>2. c \notin OffPeak
  BY <1>1, OffPeakAreWakes, ModesAreDisjoint DEF Cancellable, Wakes, BranchBound
<1>3. CASE c \in aborted
  <2>1. /\ where' = [where EXCEPT ![c] = "rejected"]
        /\ UNCHANGED <<arrival, generation, reservation, cancelPending>>
    BY <1>3 DEF Submit
  <2>2. where' \in [Cmds -> Places] /\ \A d \in Cmds : where'[d] # where[d] => d = c /\ where'[d] = "rejected"
    BY <2>1 DEF Inv, TypeOK, Places, Settled
  <2>. QED
    BY <1>1, <2>1, <2>2 DEF Calms, Waiting, Settled
<1>4. CASE c \notin aborted
  <2>1. Enqueue(c, lease, r)
    BY <1>4 DEF Submit
  <2>. QED
    BY <1>1, <1>2, <2>1, PushShape
<1>. QED
  BY <1>3, <1>4

LEMMA InterruptShape ==
  ASSUME Inv, NEW S \in SUBSET Cmds, NEW stop \in BOOLEAN, Interrupt(S, stop),
         UNCHANGED <<arrival, generation, snapshot, offPeakCancelled>>
  PROVE  Calms
<1>1. /\ where' \in [Cmds -> Places] /\ reservation' = reservation
      /\ \A c \in Cmds : where'[c] # where[c] => where[c] = "queued" /\ where'[c] = "rejected"
  BY InterruptEffect
<1>2. cancelPending' \subseteq cancelPending \cup batch
  BY DEF Interrupt
<1>. QED
  BY <1>1, <1>2 DEF Calms, Waiting, Settled

\* Nothing about the commands, the marks or the reservation changes.
LEMMA StillShape ==
  ASSUME Inv, UNCHANGED <<where, arrival, generation, cancelPending, snapshot, reservation,
                          offPeakCancelled>>
  PROVE  Calms
BY DEF Calms, Inv, TypeOK

LEMMA DrainStepShape ==
  ASSUME Inv, DrainStep
  PROVE  StepShapes
<1>. USE DEF StepShapes
<1>1. CASE DrainResumes
  <2>1. /\ pc = "loop" /\ Drain(queue, arrival', generation', lease, reservation)
        /\ queue \in SUBSET Cmds /\ lease \in Promoted \cup {None} /\ reservation = None
        /\ UNCHANGED <<arrival, activeTurn, snapshot, branchGeneration, generation, offPeakCancelled>>
    BY <1>1 DEF DrainResumes, branchVars, queue, Inv, TypeOK, TurnPhases
  <2>2. Pushes(queue \ queue)
    BY <2>1 DEF Pushes
  <2>3. DrainRuns(queue, lease, reservation)
    BY <2>1, <2>2 DEF DrainRuns
  <2>. QED
    BY <2>1, <2>3 DEF Drains
<1>2. CASE Persisted \/ VerifyContinues
  BY <1>2 DEF Persisted, VerifyContinues, Starts, branchVars
<1>3. CASE PersistFails \/ TurnFailed \/ VerifyStops
  BY <1>3 DEF PersistFails, TurnFailed, VerifyStops, Settles, branchVars
<1>4. CASE \E result \in {"resolved", "rejected"} : ControlDone(result)
  BY <1>4 DEF ControlDone, Settles, branchVars
<1>5. CASE \E continues \in BOOLEAN : TurnSucceeded(continues)
  <2>1. /\ pc = "cleanup"
        /\ Finish("resolved") \/ UNCHANGED <<where, cancelPending>>
        /\ UNCHANGED <<arrival, reservation, activeTurn, snapshot, branchGeneration, generation,
                       offPeakCancelled>>
    BY <1>5 DEF TurnSucceeded, branchVars
  <2>. QED
    BY <2>1, StillShape DEF Settles
<1>6. CASE ModelStep
  <2>1. /\ Absorbable \in SUBSET Wakes /\ where \in [Cmds -> Places]
        /\ \A c \in Cmds : where[c] # "absorbing"
    BY <1>6 DEF ModelStep, Absorbable, Inv, TypeOK, RunningInPhase
  <2>2. Takes(Absorbable, where)
    BY <1>6, <2>1 DEF ModelStep, Takes, branchVars
  <2>. QED
    BY <2>1, <2>2 DEF Absorbs
<1>7. CASE Absorbed
  <2>. DEFINE placed == [c \in Cmds |-> IF where[c] = "absorbing" THEN "absorbed" ELSE where[c]]
  <2>1. /\ placed \in [Cmds -> Places] /\ snapshot \in SUBSET Wakes
        /\ \A c \in Cmds : placed[c] = where[c] \/ (where[c] = "absorbing" /\ placed[c] = "absorbed")
        /\ \A c \in Cmds : placed[c] # "absorbing"
    BY DEF Inv, TypeOK, RunningInPhase, Places, Settled
  <2>2. /\ TakeNext(snapshot, placed) /\ pc = "absorb"
        /\ UNCHANGED <<arrival, generation, cancelPending, foreground, reservation, activeTurn,
                       branchGeneration, offPeakCancelled>>
    BY <1>7 DEF Absorbed, branchVars
  <2>. HIDE DEF placed
  <2>3. Takes(snapshot, placed)
    BY <2>1, <2>2 DEF Takes
  <2>. QED
    BY <2>1, <2>3 DEF Absorbs
<1>8. CASE AbsorbFails
  <2>1. /\ where' = [c \in Cmds |-> IF where[c] = "absorbing" THEN "rejected" ELSE where[c]]
        /\ snapshot' = {} /\ activeTurn' = None
        /\ UNCHANGED <<arrival, generation, branchGeneration, cancelPending, reservation, offPeakCancelled>>
    BY <1>8 DEF AbsorbFails, branchVars
  <2>2. where' \in [Cmds -> Places]
    BY <2>1 DEF Inv, TypeOK, Places, Settled
  <2>3. \A c \in Cmds : where'[c] # where[c] => where[c] = "absorbing" /\ where'[c] = "rejected"
    BY <2>1
  <2>. QED
    BY <2>1, <2>2, <2>3 DEF Calms, Settled
<1>9. CASE \/ \E kind \in {"regular", "compact", "rewind"} : BeginTurn(kind)
           \/ PrepareFails \/ \E outcome \in {"cleanup", "failed"} : EndTurn(outcome)
  BY <1>9 DEF BeginTurn, PrepareFails, EndTurn, Calms, Inv, TypeOK, queueVars, branchVars
<1>10. CASE RewindPlanned \/ RewindApplied
  BY <1>10, StillShape DEF RewindPlanned, RewindApplied, PlansRewind, CutsBranch, queueVars
<1>. QED
  BY <1>1, <1>2, <1>3, <1>4, <1>5, <1>6, <1>7, <1>8, <1>9, <1>10 DEF DrainStep

LEMMA CallerStepShape ==
  ASSUME Inv, CallerStep
  PROVE  StepShapes
<1>. USE DEF StepShapes
<1>1. where \in [Cmds -> Places]
  BY DEF Inv, TypeOK
<1>2. CASE \E c \in Cancellable : Abort(c)
  <2>1. PICK c \in Cancellable : Abort(c)
    BY <1>2
  <2>2. Interrupt({c}, FALSE) /\ {c} \in SUBSET Cmds
        /\ UNCHANGED <<arrival, generation, branchGeneration, activeTurn, snapshot, offPeakCancelled>>
    BY <2>1 DEF Abort, branchVars, Cancellable, Cmds
  <2>. QED
    BY <2>2, InterruptShape
<1>3. CASE Stop
  <2>1. Interrupt({controller} \ {None}, TRUE) /\ {controller} \ {None} \in SUBSET Cmds
        /\ UNCHANGED <<arrival, generation, branchGeneration, activeTurn, snapshot, offPeakCancelled>>
    BY <1>3 DEF Stop, branchVars, Inv, TypeOK, Cancellable, Cmds
  <2>. QED
    BY <2>1, InterruptShape
<1>4. CASE \E p \in Prompts : SubmitCommand(p) \/ AdmitPrompt(p) \/ Compact(p)
  <2>1. PICK p \in Prompts : SubmitCommand(p) \/ AdmitPrompt(p) \/ Compact(p)
    BY <1>4
  <2>2. p \in Cmds
    BY DEF Cmds
  <2>3. \/ Submit(p, reservation)
        \/ Submit(p, p) /\ ~drainActive /\ ~hasPending /\ lease = None
    BY <2>1 DEF SubmitCommand, AdmitPrompt, Compact, StartInBackground, hasActiveOrQueuedTurnWork
  <2>. QED
    BY <2>2, <2>3, SubmitShape
<1>5. CASE \/ \E p \in Prompts, requireQueue \in BOOLEAN : DeferPrompt(p, requireQueue)
           \/ \E c \in Wakes : DropLateWake(c)
  <2>1. PICK c \in Cmds, outcome \in {"deferred", "dropped"} :
          /\ where[c] = "new" /\ where' = [where EXCEPT ![c] = outcome]
          /\ UNCHANGED <<arrival, cancelPending, drainVars, branchVars, offPeakCancelled>>
    BY <1>5 DEF DeferPrompt, DropLateWake, Wakes, Cmds
  <2>2. where' \in [Cmds -> Places]
    BY <1>1, <2>1 DEF Places, Settled
  <2>3. \A d \in Cmds : where'[d] # where[d] => where[d] = "new" /\ where'[d] \in {"deferred", "dropped"}
    BY <1>1, <2>1
  <2>. QED
    BY <2>1, <2>2, <2>3 DEF Calms, drainVars, branchVars, Waiting, Settled
<1>6. CASE (\E c \in Wakes : PostWake(c)) \/ \E c \in Controls : PostControl(c)
  <2>1. PICK c \in Cmds :
          /\ where[c] = "new" /\ Enqueue(c, lease, reservation)
          /\ c \in OffPeak => ~offPeakCancelled
          /\ UNCHANGED <<activeTurn, snapshot, branchGeneration, offPeakCancelled>>
    <3>1. Controls \cap OffPeak = {}
      BY OffPeakAreWakes, ModesAreDisjoint DEF Wakes
    <3>. QED
      BY <1>6, <3>1 DEF PostWake, PostControl, Wakes, Cmds
  <2>. QED
    BY <2>1, PushShape
<1>7. CASE CancelOffPeak
  <2>1. /\ where' = [c \in Cmds |-> IF c \in queue \cap OffPeak THEN "dropped" ELSE where[c]]
        /\ UNCHANGED <<arrival, cancelPending, reservation, activeTurn, snapshot, branchVars>>
    BY <1>7 DEF CancelOffPeak
  <2>2. where' \in [Cmds -> Places]
    BY <1>1, <2>1 DEF Places, Settled
  <2>3. \A c \in Cmds : where'[c] # where[c] => where[c] = "queued" /\ where'[c] = "dropped"
    BY <2>1 DEF queue
  <2>4. queue' \cap OffPeak = {}
    BY <2>1 DEF queue
  <2>. QED
    BY <2>1, <2>2, <2>3, <2>4 DEF Calms, branchVars, Waiting, Settled
<1>8. CASE \/ \E g \in Goals : RequestGoal(g)
           \/ \E p \in Promoted, mode \in {"after-current", "idle-only"} : AcquireLease(p, mode)
           \/ \E c \in Replayed, edit \in BOOLEAN : RequestReplay(c, edit)
  BY <1>8, StillShape DEF RequestGoal, AcquireLease, RequestReplay, queueVars, drainVars, branchVars
<1>. QED
  BY <1>2, <1>3, <1>4, <1>5, <1>6, <1>7, <1>8 DEF CallerStep

LEMMA HolderStepShape ==
  ASSUME Inv, NEW c \in Cancellable, HolderStep(c)
  PROVE  StepShapes
<1>. USE DEF StepShapes
<1>1. c \in Cmds
  BY DEF Cancellable, Cmds
<1>2. CASE Preempt(c)
  <2>. DEFINE stops == foreground # None /\ ~foreground.aborted
              hit == IF stops THEN {} ELSE {controller} \ {None}
  <2>1. /\ Interrupt(hit, stops) /\ hit \in SUBSET Cmds /\ stops \in BOOLEAN
        /\ UNCHANGED <<arrival, generation, branchGeneration, activeTurn, snapshot, offPeakCancelled>>
    BY <1>2 DEF Preempt, branchVars, Inv, TypeOK, Executions, Cancellable, Cmds
  <2>. HIDE DEF hit, stops
  <2>. QED
    BY <2>1, InterruptShape
<1>3. CASE PromotePrompt(c)
  <2>1. Submit(c, c) /\ c \in Prompts /\ ~drainActive /\ ~hasPending /\ lease = c
    BY <1>3 DEF PromotePrompt, hasActiveOrQueuedTurnWork, promotionLeaseOnly, Inv, LeaseIsOwned
  <2>. QED
    BY <1>1, <2>1, SubmitShape
<1>4. CASE PromoteCompact(c) \/ StartGoal(c)
  <2>1. Submit(c, reservation)
    BY <1>4 DEF PromoteCompact, StartGoal, StartInBackground
  <2>. QED
    BY <1>1, <2>1, SubmitShape
<1>5. CASE ReleaseLease(c)
  <2>1. UNCHANGED <<arrival, generation, branchGeneration, activeTurn, snapshot, offPeakCancelled>>
        /\ holder' = [holder EXCEPT ![c] = IF where[c] = "new" THEN "idle" ELSE "done"]
    BY <1>5 DEF ReleaseLease, HandlerEnds, branchVars
  <2>2. holder'[c] \in {"idle", "done"}
    BY <2>1 DEF Inv, TypeOK
  <2>3. CASE lease = c /\ ~drainActive
    <3>1. /\ Drain(queue, arrival', generation', None, reservation)
          /\ pc = "idle" /\ reservation = None /\ lease # None
      BY <1>1, <1>5, <2>1, <2>3, NoneIsNoValue DEF ReleaseLease, drainActive, Inv, TurnPhases
    <3>2. queue \in SUBSET Cmds /\ None \in Promoted \cup {None} /\ Pushes(queue \ queue)
      BY <2>1 DEF queue, Pushes
    <3>3. DrainRuns(queue, None, reservation)
      BY <2>1, <2>2, <2>3, <3>1, <3>2 DEF DrainRuns
    <3>. QED
      BY <3>1, <3>2, <3>3 DEF Drains
  <2>4. CASE ~(lease = c /\ ~drainActive)
    <3>1. UNCHANGED <<where, reservation, cancelPending>>
      BY <1>5, <2>4 DEF ReleaseLease
    <3>. QED
      BY <2>1, <3>1, StillShape
  <2>. QED
    BY <2>3, <2>4
<1>6. CASE SessionIdle(c) \/ GiveUp(c) \/ PromotionRejected(c) \/ PromoteGoal(c)
  BY <1>6, StillShape DEF SessionIdle, GiveUp, PromotionRejected, PromoteGoal, queueVars, drainVars, branchVars
<1>7. CASE ReplayPlans(c) \/ ReplayCuts(c) \/ ReplayEnds(c)
  BY <1>7, StillShape DEF ReplayPlans, ReplayCuts, ReplayEnds, PlansRewind, CutsBranch, queueVars, drainVars
<1>. QED
  BY <1>2, <1>3, <1>4, <1>5, <1>6, <1>7 DEF HolderStep

LEMMA EveryStepHasAShape ==
  ASSUME Inv, [Next]_vars
  PROVE  StepShapes
<1>1. CASE UNCHANGED vars
  BY <1>1, StillShape DEF vars, queueVars, drainVars, branchVars, StepShapes
<1>. QED
  BY <1>1, DrainStepShape, CallerStepShape, HolderStepShape DEF Next

-----------------------------------------------------------------------------
(* What the shapes do.                                                     *)

\* A push stamps its command with the clock, and leaves the others as they are.
LEMMA PushEffect ==
  ASSUME Inv, StepInv, NEW N \in SUBSET Cmds, Pushes(N)
  PROVE  /\ arrival' \in [Cmds -> Nat] /\ generation' \in [Cmds -> Nat]
         /\ \A c \in N : /\ where[c] = "new" /\ arrival'[c] = clock
                         /\ generation'[c] = branchGeneration
                         /\ c \in OffPeak => ~offPeakCancelled
         /\ \A c \in Cmds \ N : arrival'[c] = arrival[c] /\ generation'[c] = generation[c]
         /\ \A c \in N, d \in Cmds : d \in N => c = d
         /\ clock \in Nat /\ clock > 0
         /\ \A c \in Cmds : arrival'[c] < clock'
<1>. DEFINE stamped == {c \in Cmds : arrival[c] > 0}
<1>1. /\ IsFiniteSet(stamped) /\ Cardinality(stamped) \in Nat
      /\ clock = 1 + Cardinality(stamped)
  BY CmdsAreFinite, FS_Subset, FS_CardinalityType DEF clock
<1>2. arrival \in [Cmds -> Nat] /\ generation \in [Cmds -> Nat] /\ branchGeneration \in Nat
  BY DEF Inv, TypeOK
<1>3. \A c \in Cmds : arrival[c] < clock
  BY DEF StepInv, ArrivalsAreNumbered
<1>4. CASE N = {} /\ UNCHANGED <<arrival, generation>>
  <2>1. clock' = clock
    BY <1>4 DEF clock
  <2>. QED
    BY <1>1, <1>2, <1>3, <1>4, <2>1
<1>5. ASSUME NEW c \in Cmds, N = {c}, where[c] = "new", c \in OffPeak => ~offPeakCancelled,
             arrival' = [arrival EXCEPT ![c] = clock],
             generation' = [generation EXCEPT ![c] = branchGeneration]
      PROVE  /\ arrival' \in [Cmds -> Nat] /\ generation' \in [Cmds -> Nat]
             /\ arrival'[c] = clock /\ generation'[c] = branchGeneration
             /\ \A d \in Cmds \ {c} : arrival'[d] = arrival[d] /\ generation'[d] = generation[d]
             /\ clock' = clock + 1
  <2>1. arrival[c] = 0
    BY <1>5 DEF StepInv, ArrivalsAreNumbered
  <2>2. {d \in Cmds : arrival'[d] > 0} = stamped \cup {c} /\ c \notin stamped
    BY <1>1, <1>2, <1>5, <2>1
  <2>3. Cardinality(stamped \cup {c}) = Cardinality(stamped) + 1
    BY <1>1, <2>2, FS_AddElement
  <2>4. clock' = 1 + Cardinality({d \in Cmds : arrival'[d] > 0})
    BY DEF clock
  <2>5. clock' = clock + 1
    BY <1>1, <2>2, <2>3, <2>4
  <2>. QED
    BY <1>1, <1>2, <1>5, <2>5
<1>. HIDE DEF stamped
<1>6. ASSUME NEW c \in Cmds, N = {c}, where[c] = "new", c \in OffPeak => ~offPeakCancelled,
             arrival' = [arrival EXCEPT ![c] = clock],
             generation' = [generation EXCEPT ![c] = branchGeneration]
      PROVE  \A d \in Cmds : arrival'[d] < clock'
  <2>1. arrival'[c] = clock /\ clock' = clock + 1 /\ clock \in Nat
        /\ \A d \in Cmds \ {c} : arrival'[d] = arrival[d] /\ arrival[d] \in Nat
    BY <1>1, <1>2, <1>5, <1>6
  <2>. QED
    BY <1>3, <2>1
<1>. QED
  BY <1>1, <1>4, <1>5, <1>6 DEF Pushes

\* What starts when the drain runs: a live command of the batch, which is the
\* promoted one under a lease, and otherwise the oldest or in its company.
LEMMA DrainStarts ==
  ASSUME Inv, NEW q \in SUBSET Cmds, NEW l \in Promoted \cup {None}, NEW r \in Prompts \cup {None},
         DrainRuns(q, l, r), arrival' \in [Cmds -> Nat], generation' \in [Cmds -> Nat]
  PROVE  /\ DrainOutcome(q, l)
         /\ executing = {} /\ executing' = batch'
         /\ foreground = None
         /\ cancelPending' \subseteq cancelPending
         /\ \A c \in batch' : c \in q /\ ~Stale(c, generation') /\ (l # None => c = l)
         /\ l = None => \A c \in batch' :
              \/ c = Oldest(q, arrival')
              \/ /\ Oldest(q, arrival') \in Notifications
                 /\ where'[Oldest(q, arrival')] \in {"running", "dropped"}
<1>. DEFINE taken == NextRunnableBatch(q, arrival', l)
            live == {c \in taken : ~Stale(c, generation')}
            first == Oldest(live, arrival')
            skipped == first \in Cancellable \cap cancelPending
            collides == first \in Prompts /\ ~CanStartTurn(first, r)
            outcome == IF skipped THEN "rejected" ELSE IF collides THEN "collided" ELSE "running"
<1>1. /\ NothingRuns /\ activeTurn = None /\ foreground = None
      /\ where \in [Cmds -> Places] /\ cancelPending \subseteq Cmds /\ queue \subseteq q
      /\ Drain(q, arrival', generation', l, r)
      /\ r # None => q = {r} /\ l \in {None, r}
  BY DEF DrainRuns, Inv, TypeOK, TurnPhases, RunningInPhase, NothingRuns, batch
<1>2. DrainOutcome(q, l)
  BY <1>1, DrainEffect
<1>3. executing = {} /\ executing' = batch'
  BY <1>1, <1>2 DEF NothingRuns, DrainOutcome, executing, batch
<1>4. cancelPending' \subseteq cancelPending
  BY <1>1 DEF Drain
<1>5. /\ where' = [c \in Cmds |-> IF c \in live THEN outcome
                                ELSE IF c \in taken THEN "dropped"
                                ELSE IF c \in q THEN "queued" ELSE where[c]]
  BY <1>1 DEF Drain
<1>6. taken \subseteq q /\ (l # None => taken \subseteq {l})
  BY RunnableShape
<1>. HIDE DEF outcome, first, skipped, collides
<1>7. \A c \in batch' : c \in live /\ outcome = "running"
  BY <1>1, <1>5, <1>6 DEF batch, NothingRuns
<1>8. \A c \in batch' : c \in q /\ ~Stale(c, generation') /\ (l # None => c = l)
  BY <1>6, <1>7
<1>9. ASSUME l = None, NEW c \in batch', c # Oldest(q, arrival')
      PROVE  /\ Oldest(q, arrival') \in Notifications
             /\ where'[Oldest(q, arrival')] \in {"running", "dropped"}
  <2>. DEFINE head == Oldest(q, arrival')
  <2>1. taken = NextBatch(q, arrival') /\ c \in taken /\ q # {}
    BY <1>6, <1>7, <1>9 DEF NextRunnableBatch
  <2>2. head \in q
    BY <2>1, OldestIsFirst
  <2>3. head \in Notifications /\ head \in taken
    BY <1>9, <2>1, <2>2 DEF NextBatch, SameExecution
  <2>4. where'[head] \in {outcome, "dropped"}
    BY <1>5, <2>2, <2>3
  <2>. QED
    BY <1>7, <1>9, <2>3, <2>4
<1>. QED
  BY <1>1, <1>2, <1>3, <1>4, <1>8, <1>9

\* What the active loop takes is queued, fresh and of its set; the rest of its set
\* stays ahead of it.
LEMMA TakeEffect ==
  ASSUME Inv, NEW S \in SUBSET Wakes, NEW placed \in [Cmds -> Places], Takes(S, placed)
  PROVE  /\ where' \in [Cmds -> Places]
         /\ batch' = batch
         /\ snapshot' \subseteq S
         /\ \A c \in Cmds : where'[c] # where[c] =>
              \/ /\ c \in S /\ where[c] = "queued" /\ where'[c] \in {"dropped", "absorbing"}
                 /\ where'[c] = "absorbing" => ~Stale(c, generation)
              \/ where[c] = "absorbing" /\ where'[c] = "absorbed"
         /\ \A c \in Cmds : where'[c] = "absorbing" => where[c] = "queued" /\ ~Stale(c, generation) /\ c \in S
         /\ \A c \in snapshot' : where[c] = "queued" /\ c \in S
<1>. DEFINE queued == {c \in S : placed[c] = "queued"}
            fresh == {c \in queued : ~Stale(c, generation)}
            next == Oldest(fresh, arrival)
<1>1. /\ where' = [c \in Cmds |-> IF c \in queued \ fresh THEN "dropped"
                                ELSE IF c \in fresh /\ c = next THEN "absorbing" ELSE placed[c]]
      /\ snapshot' = (IF fresh = {} THEN {} ELSE fresh \ {next})
      /\ \A c \in Cmds : placed[c] = where[c] \/ (where[c] = "absorbing" /\ placed[c] = "absorbed")
      /\ \A c \in Cmds : placed[c] # "absorbing"
  BY DEF Takes, TakeNext
<1>2. S \subseteq Cmds
  BY DEF Wakes, Cmds
<1>3. \A c \in queued : c \in S /\ where[c] = "queued"
  BY <1>1, <1>2
<1>4. \A c \in fresh : c \in queued /\ ~Stale(c, generation)
  OBVIOUS
<1>. HIDE DEF queued, fresh, next
<1>5. where' \in [Cmds -> Places]
  BY <1>1 DEF Places, Settled
<1>6. \A c \in Cmds :
        \/ c \in queued /\ where'[c] = "dropped"
        \/ c \in fresh /\ where'[c] = "absorbing"
        \/ where'[c] = placed[c]
  BY <1>1, <1>4
<1>7. \A c \in Cmds : where'[c] = "running" <=> where[c] = "running"
  <2>1. \A c \in Cmds : placed[c] = "running" <=> where[c] = "running"
    BY <1>1
  <2>. QED
    BY <1>1, <1>3, <1>4, <1>6, <2>1
<1>8. batch' = batch
  BY <1>7 DEF batch
<1>. QED
  BY <1>1, <1>3, <1>4, <1>5, <1>6, <1>8

-----------------------------------------------------------------------------
(* The second invariant is kept.                                           *)

\* A step that pushes N and queues nothing else keeps the order of the arrivals, and
\* the sweep of the off-peak wakes.
LEMMA PushKeepsArrivals ==
  ASSUME Inv, StepInv, NEW N \in SUBSET Cmds, Pushes(N),
         \A c \in Cmds : where'[c] = "new" => where[c] = "new" /\ c \notin N,
         \A c \in Cmds : where'[c] = "queued" => where[c] = "queued" \/ c \in N,
         offPeakCancelled' => offPeakCancelled \/ queue' \cap OffPeak = {}
  PROVE  OffPeakIsSwept' /\ ArrivalsAreNumbered'
<1>1. /\ arrival' \in [Cmds -> Nat] /\ arrival \in [Cmds -> Nat] /\ clock \in Nat /\ clock > 0
      /\ \A c \in N : /\ where[c] = "new" /\ arrival'[c] = clock
                      /\ c \in OffPeak => ~offPeakCancelled
      /\ \A c \in Cmds \ N : arrival'[c] = arrival[c]
      /\ \A c \in N, d \in Cmds : d \in N => c = d
      /\ \A c \in Cmds : arrival'[c] < clock'
  BY PushEffect DEF Inv, TypeOK
<1>2. /\ \A c \in Cmds : where[c] = "new" => arrival[c] = 0
      /\ \A c \in Cmds : where[c] = "queued" => arrival[c] > 0
      /\ \A c \in Cmds : arrival[c] < clock
      /\ \A c, d \in Cmds : arrival[c] = arrival[d] /\ arrival[c] > 0 => c = d
  BY DEF StepInv, ArrivalsAreNumbered
<1>3. OffPeakIsSwept'
  BY <1>1 DEF OffPeakIsSwept, StepInv, queue
<1>4. \A c \in Cmds : where'[c] = "new" => arrival'[c] = 0
  BY <1>1, <1>2
<1>5. \A c \in Cmds : where'[c] = "queued" => arrival'[c] > 0
  BY <1>1, <1>2
<1>6. ASSUME NEW c \in Cmds, NEW d \in Cmds, arrival'[c] = arrival'[d], arrival'[c] > 0
      PROVE  c = d
  <2>1. CASE c \in N /\ d \in N
    BY <1>1, <2>1
  <2>2. CASE c \in N /\ d \notin N
    <3>1. arrival[d] = clock
      BY <1>1, <1>6, <2>2
    <3>2. arrival[d] < clock /\ clock \in Nat
      BY <1>1, <1>2
    <3>. QED
      BY <3>1, <3>2
  <2>3. CASE c \notin N /\ d \in N
    <3>1. arrival[c] = clock
      BY <1>1, <1>6, <2>3
    <3>2. arrival[c] < clock /\ clock \in Nat
      BY <1>1, <1>2
    <3>. QED
      BY <3>1, <3>2
  <2>4. CASE c \notin N /\ d \notin N
    BY <1>1, <1>2, <1>6, <2>4
  <2>. QED
    BY <2>1, <2>2, <2>3, <2>4
<1>. QED
  BY <1>1, <1>3, <1>4, <1>5, <1>6 DEF ArrivalsAreNumbered

\* A command pushed behind the snapshot of the active loop stays behind it.
LEMMA PushKeepsSnapshot ==
  ASSUME Inv, StepInv, NEW N \in SUBSET Cmds, Pushes(N), snapshot' \subseteq snapshot,
         \A c \in Cmds : where'[c] = "new" => where[c] = "new" /\ c \notin N,
         \A c \in Cmds : where'[c] = "queued" => where[c] = "queued" \/ c \in N
  PROVE  SnapshotIsAhead'
<1>1. /\ \A c \in N : where[c] = "new" /\ arrival'[c] = clock
      /\ \A c \in Cmds \ N : arrival'[c] = arrival[c]
  BY PushEffect
<1>2. \A c \in Cmds : arrival[c] < clock
  BY DEF StepInv, ArrivalsAreNumbered
<1>3. snapshot \subseteq Cmds /\ Controls \subseteq Cmds
  BY DEF Inv, TypeOK, Cmds
<1>4. ASSUME NEW c \in snapshot'
      PROVE  c \in Cmds /\ c \notin N /\ where'[c] # "new" /\ arrival'[c] = arrival[c]
  BY <1>1, <1>3, <1>4 DEF StepInv, SnapshotIsAhead
<1>5. ASSUME NEW c \in snapshot', NEW d \in Controls, where'[c] = "queued", where'[d] = "queued"
      PROVE  arrival'[c] < arrival'[d]
  <2>1. where[c] = "queued" /\ c \in snapshot
    BY <1>4, <1>5
  <2>2. CASE d \in N
    BY <1>1, <1>2, <1>4, <2>2
  <2>3. CASE d \notin N
    <3>1. where[d] = "queued" /\ arrival'[d] = arrival[d]
      BY <1>1, <1>3, <1>5, <2>3
    <3>. QED
      BY <1>4, <2>1, <3>1 DEF StepInv, SnapshotIsAhead
  <2>. QED
    BY <2>2, <2>3
<1>. QED
  BY <1>4, <1>5 DEF SnapshotIsAhead

LEMMA DrainsKeepStepInv ==
  ASSUME Inv, StepInv, Drains
  PROVE  StepInv'
<1>1. PICK q \in SUBSET Cmds, l \in Promoted \cup {None}, r \in Prompts \cup {None} : DrainRuns(q, l, r)
  BY DEF Drains
<1>. DEFINE N == q \ queue
<1>2. /\ Pushes(N) /\ N \in SUBSET Cmds /\ queue \subseteq q
      /\ UNCHANGED <<activeTurn, snapshot, branchGeneration, offPeakCancelled>>
  BY <1>1 DEF DrainRuns
<1>. HIDE DEF N
<1>3. arrival' \in [Cmds -> Nat] /\ generation' \in [Cmds -> Nat]
  BY <1>2, PushEffect
<1>4. /\ DrainOutcome(q, l)
      /\ executing = {} /\ executing' = batch'
      /\ cancelPending' \subseteq cancelPending
  BY <1>1, <1>3, DrainStarts
<1>5. CancelMarksRunning'
  BY <1>2, <1>4 DEF StepInv, CancelMarksRunning, executing, batch
<1>6. /\ \A c \in Cmds : where'[c] = "new" => where[c] = "new" /\ c \notin N
      /\ \A c \in Cmds : where'[c] = "queued" => where[c] = "queued" \/ c \in N
  BY <1>4 DEF DrainOutcome, N, queue
<1>7. OffPeakIsSwept' /\ ArrivalsAreNumbered' /\ SnapshotIsAhead'
  BY <1>2, <1>6, PushKeepsArrivals, PushKeepsSnapshot
<1>. QED
  BY <1>5, <1>7 DEF StepInv

LEMMA QueuesKeepsStepInv ==
  ASSUME Inv, StepInv, Queues
  PROVE  StepInv'
<1>1. PICK c \in Cmds :
        /\ Pushes({c}) /\ where' = [where EXCEPT ![c] = "queued"]
        /\ UNCHANGED <<cancelPending, activeTurn, snapshot, branchGeneration, offPeakCancelled>>
  BY DEF Queues
<1>2. {c} \in SUBSET Cmds
  OBVIOUS
<1>3. where[c] = "new"
  BY <1>1, <1>2, PushEffect
<1>4. /\ where'[c] = "queued" /\ \A d \in Cmds \ {c} : where'[d] = where[d]
  BY <1>1 DEF Inv, TypeOK
<1>5. batch' = batch
  BY <1>3, <1>4 DEF batch
<1>6. CancelMarksRunning'
  BY <1>1, <1>5 DEF StepInv, CancelMarksRunning
<1>7. OffPeakIsSwept' /\ ArrivalsAreNumbered' /\ SnapshotIsAhead'
  BY <1>1, <1>2, <1>4, PushKeepsArrivals, PushKeepsSnapshot
<1>. QED
  BY <1>6, <1>7 DEF StepInv

\* A step that pushes nothing and starts nothing.
LEMMA RestKeepsStepInv ==
  ASSUME Inv, StepInv,
         UNCHANGED <<arrival, generation>>,
         \A c \in Cmds : where'[c] # where[c] => where'[c] \in Settled,
         cancelPending' \subseteq batch', snapshot' \subseteq snapshot,
         offPeakCancelled' => offPeakCancelled \/ queue' \cap OffPeak = {}
  PROVE  StepInv'
<1>1. Pushes({}) /\ {} \in SUBSET Cmds
  BY DEF Pushes
<1>2. /\ \A c \in Cmds : where'[c] = "new" => where[c] = "new" /\ c \notin {}
      /\ \A c \in Cmds : where'[c] = "queued" => where[c] = "queued" \/ c \in {}
  BY DEF Settled
<1>3. OffPeakIsSwept' /\ ArrivalsAreNumbered' /\ SnapshotIsAhead'
  BY <1>1, <1>2, PushKeepsArrivals, PushKeepsSnapshot
<1>. QED
  BY <1>3 DEF StepInv, CancelMarksRunning

LEMMA SettlesKeepsStepInv ==
  ASSUME Inv, StepInv, Settles
  PROVE  StepInv'
<1>1. PICK result \in {"resolved", "rejected"} :
        /\ Finish(result)
        /\ UNCHANGED <<arrival, generation, activeTurn, snapshot, branchGeneration, offPeakCancelled>>
  BY DEF Settles
<1>2. /\ \A c \in Cmds : where'[c] = IF c \in batch THEN result ELSE where[c]
      /\ cancelPending' = cancelPending \ batch
  BY <1>1 DEF Finish
<1>3. batch' = {}
  BY <1>2 DEF batch
<1>4. cancelPending' = {}
  BY <1>2 DEF StepInv, CancelMarksRunning
<1>. QED
  BY <1>1, <1>2, <1>3, <1>4, RestKeepsStepInv DEF Settled, StepInv

LEMMA StartsKeepsStepInv ==
  ASSUME Inv, StepInv, Starts
  PROVE  StepInv'
<1>1. /\ UNCHANGED <<where, cancelPending>>
      /\ UNCHANGED <<arrival, generation, activeTurn, snapshot, branchGeneration, offPeakCancelled>>
  BY DEF Starts, StartTurn, CanStartTurn, Inv, TurnPhases
<1>2. batch' = batch
  BY <1>1 DEF batch
<1>. QED
  BY <1>1, <1>2, RestKeepsStepInv DEF StepInv, CancelMarksRunning

LEMMA CalmsKeepsStepInv ==
  ASSUME Inv, StepInv, Calms
  PROVE  StepInv'
<1>1. batch' = batch
  BY DEF Calms, batch, Waiting, Settled
<1>2. cancelPending' \subseteq batch'
  BY <1>1 DEF Calms, StepInv, CancelMarksRunning
<1>. QED
  BY <1>1, <1>2, RestKeepsStepInv DEF Calms

LEMMA AbsorbsKeepsStepInv ==
  ASSUME Inv, StepInv, Absorbs
  PROVE  StepInv'
<1>1. PICK S \in SUBSET Wakes, placed \in [Cmds -> Places] : Takes(S, placed)
  BY DEF Absorbs
<1>2. UNCHANGED <<arrival, generation, cancelPending, activeTurn, branchGeneration, offPeakCancelled>>
  BY <1>1 DEF Takes
<1>3. /\ batch' = batch
      /\ \A c \in Cmds : where'[c] # where[c] =>
           \/ where[c] = "queued" /\ where'[c] \in {"dropped", "absorbing"}
           \/ where[c] = "absorbing" /\ where'[c] = "absorbed"
      /\ \A c \in snapshot' : where[c] = "queued" /\ c \in S
  BY <1>1, TakeEffect
<1>4. Pushes({}) /\ {} \in SUBSET Cmds
  BY <1>2 DEF Pushes
<1>5. /\ \A c \in Cmds : where'[c] = "new" => where[c] = "new" /\ c \notin {}
      /\ \A c \in Cmds : where'[c] = "queued" => where[c] = "queued" \/ c \in {}
  BY <1>3
<1>6. OffPeakIsSwept' /\ ArrivalsAreNumbered'
  BY <1>2, <1>4, <1>5, PushKeepsArrivals
<1>7. CancelMarksRunning'
  BY <1>2, <1>3 DEF StepInv, CancelMarksRunning
<1>8. SnapshotIsAhead'
  <2>1. \A c \in Controls : c \in Cmds
    BY DEF Cmds
  <2>2. \A c \in Wakes : c \in Cmds
    BY DEF Wakes, Cmds
  <2>3. ASSUME NEW c \in S, NEW d \in Controls, where[c] = "queued", where[d] = "queued"
        PROVE  arrival[c] < arrival[d]
    BY <1>1, <2>1, <2>3 DEF Takes, Absorbable, queue, StepInv, SnapshotIsAhead
  <2>. QED
    BY <1>2, <1>3, <1>5, <2>1, <2>2, <2>3 DEF SnapshotIsAhead
<1>. QED
  BY <1>6, <1>7, <1>8 DEF StepInv

LEMMA InitEstablishesStepInv == Init => StepInv
<1>. SUFFICES ASSUME Init PROVE StepInv
  OBVIOUS
<1>1. queue = {} /\ batch = {}
  BY DEF Init, queue, batch
<1>2. {c \in Cmds : arrival[c] > 0} = {}
  BY DEF Init
<1>3. clock = 1
  BY <1>2, FS_EmptySet DEF clock
<1>4. ArrivalsAreNumbered
  BY <1>3 DEF Init, ArrivalsAreNumbered
<1>. QED
  BY <1>1, <1>4 DEF Init, StepInv, CancelMarksRunning, OffPeakIsSwept, SnapshotIsAhead

LEMMA NextKeepsStepInv == Inv /\ StepInv /\ [Next]_vars => StepInv'
BY EveryStepHasAShape, DrainsKeepStepInv, QueuesKeepsStepInv, SettlesKeepsStepInv, StartsKeepsStepInv,
   AbsorbsKeepsStepInv, CalmsKeepsStepInv DEF StepShapes

\* Both invariants hold of the command queue, whatever commands there are.
THEOREM StepInvariance == Spec => []StepInv
BY Invariance, InitEstablishesStepInv, NextKeepsStepInv, PTL DEF Spec

-----------------------------------------------------------------------------
(* The theorems.                                                           *)

\* Cancel-pending marks never outlive their command and never wait for it: they are
\* set on the running command (interrupt) and cleared in its finally.
THEOREM MarksAreOfTheRunning == Spec => []CancelMarksRunning
<1>1. StepInv => CancelMarksRunning
  BY DEF StepInv
<1>. QED
  BY <1>1, StepInvariance, PTL

\* Only a run of the drain starts commands.
LEMMA OnlyDrainsStart ==
  ASSUME Inv, StepInv, StepShapes, NEW c \in Cmds, starting(c)
  PROVE  Drains
<1>1. where[c] \in Waiting /\ where'[c] = "running"
  BY DEF starting
<1>2. CASE Queues
  BY <1>1, <1>2 DEF Queues, Inv, TypeOK, Waiting
<1>3. CASE Settles
  BY <1>1, <1>3 DEF Settles, Finish, Waiting
<1>4. CASE Starts
  BY <1>1, <1>4 DEF Starts, StartTurn, CanStartTurn, Inv, TurnPhases, Waiting
<1>5. CASE Absorbs
  BY <1>1, <1>5, TakeEffect DEF Absorbs, Waiting
<1>6. CASE Calms
  BY <1>1, <1>6 DEF Calms, Settled, Waiting
<1>. QED
  BY <1>2, <1>3, <1>4, <1>5, <1>6 DEF StepShapes

\* A started command, and the run of the drain that started it.
LEMMA StartEffect ==
  ASSUME Inv, StepInv, [Next]_vars, NEW c \in Cmds, starting(c)
  PROVE  \E q \in SUBSET Cmds, l \in Promoted \cup {None} :
           /\ queue \subseteq q /\ Pushes(q \ queue) /\ c \in q
           /\ arrival' \in [Cmds -> Nat]
           /\ DrainOutcome(q, l)
           /\ l = lease \/ (l = None /\ lease # None /\ holder'[lease] \in {"idle", "done"})
           /\ l # None => c = l
           /\ l = None =>
                \/ c = Oldest(q, arrival')
                \/ /\ Oldest(q, arrival') \in Notifications
                   /\ where'[Oldest(q, arrival')] \in {"running", "dropped"}
<1>1. Drains
  BY EveryStepHasAShape, OnlyDrainsStart
<1>2. PICK q \in SUBSET Cmds, l \in Promoted \cup {None}, r \in Prompts \cup {None} : DrainRuns(q, l, r)
  BY <1>1 DEF Drains
<1>3. /\ queue \subseteq q /\ Pushes(q \ queue)
      /\ l = lease \/ (l = None /\ lease # None /\ holder'[lease] \in {"idle", "done"})
  BY <1>2 DEF DrainRuns
<1>4. arrival' \in [Cmds -> Nat] /\ generation' \in [Cmds -> Nat]
  <2>1. q \ queue \in SUBSET Cmds
    OBVIOUS
  <2>. QED
    BY <1>3, <2>1, PushEffect
<1>5. c \in batch'
  BY DEF starting, batch
<1>6. /\ DrainOutcome(q, l)
      /\ \A x \in batch' : x \in q /\ (l # None => x = l)
      /\ l = None => \A x \in batch' :
           \/ x = Oldest(q, arrival')
           \/ /\ Oldest(q, arrival') \in Notifications
              /\ where'[Oldest(q, arrival')] \in {"running", "dropped"}
  BY <1>2, <1>4, DrainStarts
<1>. QED
  BY <1>3, <1>4, <1>5, <1>6

\* Under a promotion lease nothing but the promoted input starts, until the handler
\* that holds the lease is through (selectNextIndex under promotedInputId).
THEOREM OthersAreHeldBack == Spec => LeaseHoldsOthersBack
<1>1. ASSUME Inv, StepInv, [Next]_vars, NEW c \in Cmds,
             lease \notin {None, c}, holder'[lease] # "done", holder'[lease] # "idle"
      PROVE  ~starting(c)
  BY <1>1, StartEffect
<1>2. Inv /\ StepInv /\ [Next]_vars =>
        [\A c \in Cmds :
           lease \notin {None, c} /\ holder'[lease] # "done" /\ holder'[lease] # "idle"
           => ~starting(c)]_vars
  BY <1>1
<1>. QED
  BY <1>2, Invariance, StepInvariance, PTL DEF Spec, LeaseHoldsOthersBack

\* Commands leave the queue in the order of their arrival, but for an input under a
\* lease and for notifications batched with an older one (dequeueNextBatch).
THEOREM OrderIsKept == Spec => OnlyBatchesOvertake
<1>1. ASSUME Inv, StepInv, [Next]_vars, NEW c \in Cmds, NEW d \in Cmds,
             starting(c), lease # c, where[d] = "queued", where'[d] = "queued",
             arrival[d] < arrival'[c]
      PROVE  \E e \in Notifications :
               /\ where[e] = "queued" /\ where'[e] \in {"running", "dropped"}
               /\ arrival[e] < arrival[d]
  <2>1. PICK q \in SUBSET Cmds, l \in Promoted \cup {None} :
          /\ queue \subseteq q /\ Pushes(q \ queue) /\ c \in q
          /\ arrival' \in [Cmds -> Nat]
          /\ DrainOutcome(q, l)
          /\ l = lease \/ (l = None /\ lease # None /\ holder'[lease] \in {"idle", "done"})
          /\ l # None => c = l
          /\ l = None =>
               \/ c = Oldest(q, arrival')
               \/ /\ Oldest(q, arrival') \in Notifications
                  /\ where'[Oldest(q, arrival')] \in {"running", "dropped"}
    BY <1>1, StartEffect
  <2>. DEFINE e == Oldest(q, arrival')
              N == q \ queue
  <2>2. /\ \A x \in N : where[x] = "new" /\ arrival'[x] = clock
        /\ \A x \in Cmds \ N : arrival'[x] = arrival[x]
        /\ arrival \in [Cmds -> Nat] /\ clock \in Nat
        /\ \A x \in Cmds : arrival[x] < clock
    <3>1. N \in SUBSET Cmds /\ Pushes(N)
      BY <2>1
    <3>. HIDE DEF N
    <3>. QED
      BY <1>1, <3>1, PushEffect DEF Inv, TypeOK, StepInv, ArrivalsAreNumbered
  <2>3. d \in q /\ d \notin N /\ arrival'[d] = arrival[d]
    BY <1>1, <2>1, <2>2 DEF queue
  <2>4. e \in q /\ arrival'[e] <= arrival'[d]
    BY <2>1, <2>3, OldestIsFirst
  <2>. HIDE DEF e
  <2>5. arrival'[c] \in Nat /\ arrival[d] \in Nat /\ arrival'[e] \in Nat
    BY <2>1, <2>2, <2>4
  <2>6. e # c
    BY <1>1, <2>3, <2>4, <2>5
  <2>7. e \in Notifications /\ where'[e] \in {"running", "dropped"}
    BY <1>1, <2>1, <2>6 DEF e
  <2>8. e # d
    BY <1>1, <2>7
  <2>9. e \notin N
    <3>1. arrival'[e] <= arrival[d] /\ arrival[d] < clock
      BY <2>2, <2>3, <2>4
    <3>2. arrival'[e] # clock
      BY <2>2, <2>5, <3>1
    <3>. QED
      BY <2>2, <3>2
  <2>10. where[e] = "queued" /\ arrival'[e] = arrival[e]
    BY <2>2, <2>4, <2>9 DEF N, queue
  <2>11. arrival[e] # arrival[d]
    BY <1>1, <2>4, <2>8, <2>10 DEF StepInv, ArrivalsAreNumbered
  <2>12. arrival[e] < arrival[d]
    BY <2>3, <2>4, <2>5, <2>10, <2>11
  <2>. QED
    BY <2>7, <2>10, <2>12
<1>2. Inv /\ StepInv /\ [Next]_vars =>
        [\A c, d \in Cmds :
           /\ starting(c) /\ lease # c
           /\ where[d] = "queued" /\ where'[d] = "queued"
           /\ arrival[d] < arrival'[c]
           => \E e \in Notifications :
                /\ where[e] = "queued" /\ where'[e] \in {"running", "dropped"}
                /\ arrival[e] < arrival[d]]_vars
  BY <1>1
<1>. QED
  BY <1>2, Invariance, StepInvariance, PTL DEF Spec, OnlyBatchesOvertake

\* Only the active loop absorbs.
LEMMA OnlyAbsorbsAbsorb ==
  ASSUME Inv, StepInv, [Next]_vars, NEW c \in Cmds, where[c] # "absorbing", where'[c] = "absorbing"
  PROVE  Absorbs
<1>1. CASE Drains
  <2>1. PICK q \in SUBSET Cmds, l \in Promoted \cup {None}, r \in Prompts \cup {None} : DrainRuns(q, l, r)
    BY <1>1 DEF Drains
  <2>2. Pushes(q \ queue) /\ q \ queue \in SUBSET Cmds
    BY <2>1 DEF DrainRuns
  <2>3. DrainOutcome(q, l)
    BY <2>1, <2>2, PushEffect, DrainStarts
  <2>. QED
    BY <2>3 DEF DrainOutcome
<1>2. CASE Queues
  BY <1>2 DEF Queues, Inv, TypeOK
<1>3. CASE Settles
  BY <1>3 DEF Settles, Finish
<1>4. CASE Starts
  BY <1>4 DEF Starts, StartTurn, CanStartTurn, Inv, TurnPhases
<1>5. CASE Calms
  BY <1>5 DEF Calms, Settled
<1>. QED
  BY <1>1, <1>2, <1>3, <1>4, <1>5, EveryStepHasAShape DEF StepShapes

\* A command that begins to run was waiting: it is the drain that started it.
LEMMA RunningWasWaiting ==
  ASSUME Inv, StepInv, [Next]_vars, NEW c \in Cmds, c \notin executing, where'[c] = "running"
  PROVE  starting(c)
<1>1. where' = where \/ ExecutorStep
  BY DrainStepExecutes, CallerStepExecutes, HolderStepExecutes DEF Next, vars, queueVars
<1>. QED
  BY <1>1 DEF ExecutorStep, executing, Waiting, starting

\* A wake or settings turn queued before a cut of the branch neither starts nor is
\* absorbed after it, whoever cuts the branch and wherever the drain and the active
\* loop await (isStaleBranchRuntimeCommand is asked in the stretch that takes it).
THEOREM StaleBranchesAreFenced == Spec => StaleNeverStarts
<1>1. ASSUME Inv, StepInv, [Next]_vars, NEW c \in BranchBound, c \notin executing, c \in executing'
      PROVE  generation'[c] = branchGeneration'
  <2>1. c \in Cmds
    BY DEF BranchBound, Cmds
  <2>2. CASE where'[c] = "running"
    <3>1. starting(c)
      BY <1>1, <2>1, <2>2, RunningWasWaiting
    <3>2. PICK q \in SUBSET Cmds, l \in Promoted \cup {None}, r \in Prompts \cup {None} : DrainRuns(q, l, r)
      BY <1>1, <2>1, <3>1, EveryStepHasAShape, OnlyDrainsStart DEF Drains
    <3>3. Pushes(q \ queue) /\ q \ queue \in SUBSET Cmds /\ branchGeneration' = branchGeneration
      BY <3>2 DEF DrainRuns
    <3>4. arrival' \in [Cmds -> Nat] /\ generation' \in [Cmds -> Nat]
      BY <1>1, <3>3, PushEffect
    <3>5. \A d \in batch' : ~Stale(d, generation')
      BY <1>1, <3>2, <3>4, DrainStarts
    <3>. QED
      BY <1>1, <2>1, <2>2, <3>3, <3>5 DEF Stale, batch
  <2>3. CASE where'[c] = "absorbing"
    <3>1. where[c] # "absorbing"
      BY <1>1, <2>1 DEF executing
    <3>2. PICK S \in SUBSET Wakes, placed \in [Cmds -> Places] : Takes(S, placed)
      BY <1>1, <2>1, <2>3, <3>1, OnlyAbsorbsAbsorb DEF Absorbs
    <3>3. ~Stale(c, generation)
      BY <1>1, <2>1, <2>3, <3>2, TakeEffect
    <3>. QED
      BY <1>1, <3>2, <3>3 DEF Takes, Stale
  <2>. QED
    BY <1>1, <2>2, <2>3 DEF executing
<1>2. Inv /\ StepInv /\ [Next]_vars =>
        [\A c \in BranchBound :
           c \notin executing /\ c \in executing' => generation'[c] = branchGeneration']_vars
  BY <1>1
<1>. QED
  BY <1>2, Invariance, StepInvariance, PTL DEF Spec, StaleNeverStarts

\* The active loop never carries a wake past an older controlOnly turn, whatever was
\* queued while it persisted the others (drainPendingRuntimeCommandsForActiveLoop).
THEOREM ControlsStopAbsorption == Spec => ControlStopsAbsorption
<1>1. ASSUME Inv, StepInv, [Next]_vars, NEW c \in Wakes, NEW d \in Controls,
             where[c] = "queued", where'[c] = "absorbing", where[d] = "queued"
      PROVE  arrival[c] < arrival[d]
  <2>1. c \in Cmds /\ d \in Cmds
    BY DEF Wakes, Cmds
  <2>2. Absorbs
    BY <1>1, <2>1, OnlyAbsorbsAbsorb
  <2>3. PICK S \in SUBSET Wakes, placed \in [Cmds -> Places] : Takes(S, placed)
    BY <2>2 DEF Absorbs
  <2>4. c \in S
    BY <1>1, <2>1, <2>3, TakeEffect
  <2>. QED
    BY <1>1, <2>1, <2>3, <2>4 DEF Takes, Absorbable, queue, StepInv, SnapshotIsAhead
<1>2. Inv /\ StepInv /\ [Next]_vars =>
        [\A c \in Wakes, d \in Controls :
           where[c] = "queued" /\ where'[c] = "absorbing" /\ where[d] = "queued"
           => arrival[c] < arrival[d]]_vars
  BY <1>1
<1>. QED
  BY <1>2, Invariance, StepInvariance, PTL DEF Spec, ControlStopsAbsorption

\* A stopped execution starts no further turn: throwIfTurnAborted stands between
\* every await of an execution and the reservation of its next turn.
THEOREM StoppedStaysStopped == Spec => StoppedStartsNoTurn
<1>1. ASSUME Inv, StepInv, [Next]_vars, foreground # None, foreground.aborted,
             foreground' = foreground, reservation = None
      PROVE  reservation' = None
  <2>1. CASE Drains
    <3>1. pc \in {"idle", "loop"}
      BY <2>1 DEF Drains, DrainRuns
    <3>2. foreground = None
      BY <1>1, <3>1 DEF Inv, TurnPhases
    <3>. QED
      BY <1>1, <3>2
  <2>2. CASE Starts
    BY <1>1, <2>2 DEF Starts, StartTurn, CanStartTurn, Inv, TurnPhases
  <2>3. CASE Queues \/ Settles \/ Absorbs \/ Calms
    BY <1>1, <2>3 DEF Queues, Settles, Absorbs, Takes, Calms
  <2>. QED
    BY <1>1, <2>1, <2>2, <2>3, EveryStepHasAShape DEF StepShapes
<1>2. Inv /\ StepInv /\ [Next]_vars =>
        [foreground # None /\ foreground.aborted /\ foreground' = foreground
         => ~(reservation = None /\ reservation' # None)]_vars
  BY <1>1
<1>. QED
  BY <1>2, Invariance, StepInvariance, PTL DEF Spec, StoppedStartsNoTurn

\* After the off-peak task card was cancelled none of its wakes waits, and none of
\* them starts or is absorbed.
THEOREM OffPeakIsOver == Spec => OffPeakStaysCancelled
<1>1. ASSUME Inv, StepInv, [Next]_vars, offPeakCancelled, NEW c \in OffPeak, c \in executing'
      PROVE  c \in executing
  <2>1. c \in Cmds /\ c \notin queue
    BY <1>1, OffPeakAreWakes DEF StepInv, OffPeakIsSwept, Wakes, Cmds
  <2>2. CASE where'[c] = "running" /\ where[c] \in Waiting
    <3>1. PICK q \in SUBSET Cmds : Pushes(q \ queue) /\ c \in q
      BY <1>1, <2>1, <2>2, StartEffect DEF starting
    <3>2. q \ queue \in SUBSET Cmds
      OBVIOUS
    <3>3. \A x \in q \ queue : x \in OffPeak => ~offPeakCancelled
      BY <1>1, <3>1, <3>2, PushEffect
    <3>. QED
      BY <1>1, <2>1, <3>1, <3>3
  <2>3. CASE where'[c] = "absorbing" /\ where[c] # "absorbing"
    <3>1. PICK S \in SUBSET Wakes, placed \in [Cmds -> Places] : Takes(S, placed)
      BY <1>1, <2>1, <2>3, OnlyAbsorbsAbsorb DEF Absorbs
    <3>2. where[c] = "queued"
      BY <1>1, <2>1, <2>3, <3>1, TakeEffect
    <3>. QED
      BY <2>1, <3>2 DEF queue
  <2>4. where'[c] = "running" /\ c \notin executing => where[c] \in Waiting
    BY <1>1, <2>1, RunningWasWaiting DEF starting
  <2>. QED
    BY <1>1, <2>1, <2>2, <2>3, <2>4 DEF executing
<1>2. StepInv => (offPeakCancelled => queue \cap OffPeak = {})
  BY DEF StepInv, OffPeakIsSwept
<1>3. Inv /\ StepInv /\ [Next]_vars =>
        [offPeakCancelled => executing' \cap OffPeak \subseteq executing]_vars
  BY <1>1
<1>. QED
  BY <1>2, <1>3, Invariance, StepInvariance, PTL DEF Spec, OffPeakStaysCancelled
=============================================================================
