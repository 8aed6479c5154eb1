----------------------- MODULE RuntimeCommandsProofs -----------------------
(* Safety of RuntimeCommands for every set of commands: one inductive      *)
(* invariant, and the properties that follow from it.                      *)
EXTENDS MCRuntimeCommands, FiniteSetTheorems, WellFoundedInduction, TLAPS

-----------------------------------------------------------------------------
(* The selection operators.                                                *)

Below == {ss \in Nat \X Nat : ss[1] < ss[2]}

\* Every nonempty set of natural numbers has a least element.
LEMMA LeastNatural ==
  ASSUME NEW T \in SUBSET Nat, T # {}
  PROVE  \E m \in T : \A n \in T : m <= n
<1>1. IsWellFoundedOn(Below, Nat)
  BY NatLessThanWellFounded, Zenon DEF OpToRel, Below
<1>2. PICK m \in T : \A n \in T : ~(<<n, m>> \in Below)
  BY WFMin, <1>1
<1>3. \A n \in T : ~(n < m)
  BY <1>2 DEF Below
<1>. QED
  BY <1>3

\* The oldest command of a nonempty set is one of the set, and none of the others
\* arrived before it.
LEMMA OldestIsFirst ==
  ASSUME NEW S \in SUBSET Cmds, S # {}, NEW at \in [Cmds -> Nat]
  PROVE  /\ Oldest(S, at) \in S
         /\ \A d \in S : at[Oldest(S, at)] <= at[d]
<1>. DEFINE T == {at[c] : c \in S}
<1>1. T \in SUBSET Nat /\ T # {}
  OBVIOUS
<1>2. PICK m \in T : \A n \in T : m <= n
  BY <1>1, LeastNatural
<1>3. \E c \in S : \A d \in S : at[c] <= at[d]
  BY <1>2
<1>. QED
  BY <1>3 DEF Oldest

\* A nonempty queue yields a nonempty batch: notifications alone, or one command.
LEMMA NextBatchShape ==
  ASSUME NEW q \in SUBSET Cmds, NEW at \in [Cmds -> Nat]
  PROVE  /\ NextBatch(q, at) \subseteq q
         /\ q # {} => NextBatch(q, at) # {}
         /\ NextBatch(q, at) \subseteq Notifications \/ \E c \in q : NextBatch(q, at) = {c}
<1>1. CASE q = {}
  BY <1>1 DEF NextBatch
<1>2. CASE q # {}
  <2>1. Oldest(q, at) \in q
    BY <1>2, OldestIsFirst
  <2>. QED
    BY <1>2, <2>1 DEF NextBatch, SameExecution
<1>. QED
  BY <1>1, <1>2

\* What may leave the queue: with no lease never nothing, under a lease nothing
\* but the promoted input.
LEMMA RunnableShape ==
  ASSUME NEW q \in SUBSET Cmds, NEW at \in [Cmds -> Nat], NEW l \in Promoted \cup {None}
  PROVE  LET taken == NextRunnableBatch(q, at, l)
         IN /\ taken \subseteq q
            /\ l = None /\ q # {} => taken # {}
            /\ l # None => taken \subseteq {l}
            /\ taken \subseteq Notifications \/ \E c \in q : taken = {c}
<1>1. CASE l = None
  BY <1>1, NextBatchShape DEF NextRunnableBatch
<1>2. CASE l # None
  BY <1>2 DEF NextRunnableBatch
<1>. QED
  BY <1>1, <1>2

-----------------------------------------------------------------------------
(* The inductive invariant.                                                *)

\* Where the drain awaits determines who owns the runtime: the foreground
\* execution, the start reservation and the active turn.
TurnPhases ==
  /\ foreground = None <=> pc \in {"idle", "loop"}
  /\ foreground # None => foreground.cmd \in batch
  /\ IF pc = "prepare" THEN reservation = foreground.cmd ELSE reservation = None
  /\ IF pc \in {"turn", "absorb"}
       THEN activeTurn # None /\ activeTurn.turn = foreground.cmd
       ELSE activeTurn = None

\* Commands run only inside an execution, and wakes are absorbed only in "absorb".
RunningInPhase ==
  /\ pc \in {"idle", "loop"} => batch = {}
  /\ \A c \in Cmds : where[c] = "absorbing" => pc = "absorb"
  /\ snapshot \subseteq Wakes

Preparing == {"leased", "waiting", "starting"} \cup Cleared

\* A handler that has not submitted its promoted input has it nowhere else.
PromotedOutside ==
  \A p \in Promoted :
    holder[p] \in Preparing \cup {"idle", "refused", "busy", "orphaned"} => where[p] = "new"

Inv ==
  /\ TypeOK
  /\ TurnPhases
  /\ RunningInPhase
  /\ PromotedOutside
  /\ LeaseIsOwned
  /\ NoLostWakeup
  /\ NoCollision

-----------------------------------------------------------------------------
(* The drain, from its loop head to its next await.                        *)

\* An idle runtime, or a drain at its loop head: nothing runs.
NothingRuns == \A c \in Cmds : where[c] \notin {"running", "absorbing"}

\* What one Drain does to the commands q of the queue under the lease l.
DrainOutcome(q, l) ==
  /\ where' \in [Cmds -> Places]
  /\ pc' \in {"idle", "loop", "prepare", "verify", "persist", "control"}
  /\ foreground' \in Executions \cup {None}
  /\ cancelPending' \subseteq Cmds
  /\ foreground' = None <=> pc' \in {"idle", "loop"}
  /\ IF pc' = "prepare" THEN reservation' = foreground'.cmd ELSE reservation' = None
  /\ foreground' = None => batch' = {}
  /\ foreground' # None => foreground'.cmd \in batch'
  /\ batch' \subseteq Notifications \/ \E c \in Cmds : batch' = {c}
  /\ lease' \in {l, None}
  /\ l \notin q => lease' = l
  /\ hasPending' /\ lease' = None => pc' # "idle"
  /\ \A c \in Cmds : c \notin q => where'[c] = where[c]
  /\ \A c \in q : where'[c] \in {"queued", "running", "rejected", "dropped"}

\* A reservation can only be that of the prompt that is about to be drained alone.
LEMMA DrainEffect ==
  ASSUME NEW q \in SUBSET Cmds, NEW at \in [Cmds -> Nat], NEW gen \in [Cmds -> Nat],
         NEW l \in Promoted \cup {None}, NEW r \in Prompts \cup {None},
         where \in [Cmds -> Places], cancelPending \subseteq Cmds,
         queue \subseteq q, NothingRuns, activeTurn = None,
         r # None => q = {r} /\ l \in {None, r},
         Drain(q, at, gen, l, r)
  PROVE  DrainOutcome(q, l)
<1>. DEFINE taken == NextRunnableBatch(q, at, l)
            live == {c \in taken : ~Stale(c, gen)}
            head == Oldest(live, at)
            skipped == head \in Cancellable \cap cancelPending
            collides == head \in Prompts /\ ~CanStartTurn(head, r)
            starts == live # {} /\ ~skipped /\ ~collides
            outcome == IF skipped THEN "rejected" ELSE IF collides THEN "collided" ELSE "running"
<1>. HIDE DEF taken, live, head, skipped, collides, starts, outcome
<1>1. /\ taken \subseteq q
      /\ l = None /\ q # {} => taken # {}
      /\ l # None => taken \subseteq {l}
      /\ taken \subseteq Notifications \/ \E c \in q : taken = {c}
  BY RunnableShape DEF taken
<1>2. live \subseteq taken
  BY DEF live
<1>3. live # {} => head \in live
  BY <1>1, <1>2, OldestIsFirst DEF head
<1>4. r # None => taken = {r} /\ live = {r} /\ head = r
  <2>. SUFFICES ASSUME r # None PROVE taken = {r} /\ live = {r} /\ head = r
    OBVIOUS
  <2>1. taken = {r}
    BY <1>1 DEF taken, NextRunnableBatch
  <2>2. ~Stale(r, gen)
    BY ModesAreDisjoint DEF Stale, BranchBound
  <2>. QED
    BY <1>3, <2>1, <2>2 DEF live
<1>5. live # {} => ~collides
  BY <1>4 DEF collides, CanStartTurn
<1>6. /\ where' = [c \in Cmds |-> IF c \in live THEN outcome
                                 ELSE IF c \in taken THEN "dropped"
                                 ELSE IF c \in q THEN "queued" ELSE where[c]]
      /\ lease' = (IF taken = {} THEN l ELSE None)
      /\ cancelPending' = (IF live # {} THEN cancelPending \ {head} ELSE cancelPending)
      /\ foreground' = (IF starts THEN [cmd |-> head, aborted |-> FALSE] ELSE None)
      /\ reservation' = (IF starts /\ head \in Prompts THEN head
                        ELSE IF live # {} /\ skipped /\ r = head THEN None ELSE r)
      /\ pc' = (IF taken = {} THEN "idle" ELSE IF starts THEN FirstAwait(head) ELSE "loop")
  BY DEF Drain, taken, live, head, skipped, collides, starts, outcome
<1>7. \A c \in Cmds :
        /\ c \in live => where'[c] = IF skipped THEN "rejected" ELSE "running"
        /\ c \in taken \ live => where'[c] = "dropped"
        /\ c \in q \ taken => where'[c] = "queued"
        /\ c \notin q => where'[c] = where[c]
  BY <1>1, <1>2, <1>3, <1>5, <1>6 DEF outcome
<1>8. where' \in [Cmds -> Places]
  BY <1>6 DEF outcome, Places, Waiting, Settled
<1>9. batch' = IF starts THEN live ELSE {}
  BY <1>1, <1>2, <1>3, <1>5, <1>7 DEF batch, NothingRuns, starts
<1>10. starts => head \in live /\ head \in Cmds /\ live # {}
  BY <1>1, <1>2, <1>3 DEF starts
<1>11. starts => head \in Prompts \cup Goals \cup Wakes \cup Controls
  BY <1>10 DEF Cmds, Wakes
<1>12. /\ taken = {} => pc' = "idle"
       /\ taken # {} /\ ~starts => pc' = "loop"
       /\ starts => pc' \in {"prepare", "verify", "persist", "control"}
       /\ starts => (pc' = "prepare" <=> head \in Prompts)
       /\ starts => taken # {}
  BY <1>2, <1>6, <1>10, <1>11 DEF FirstAwait
<1>13. /\ starts /\ head \in Prompts => reservation' = head
       /\ ~(starts /\ head \in Prompts) => reservation' = None
  BY <1>3, <1>4, <1>5, <1>6 DEF starts
<1>14. batch' \subseteq Notifications \/ \E c \in Cmds : batch' = {c}
  BY <1>1, <1>2, <1>3, <1>9, <1>10
<1>15. hasPending' /\ lease' = None => pc' # "idle"
  BY <1>1, <1>6, <1>7, <1>12 DEF hasPending, queue
<1>16. /\ starts => foreground' \in Executions /\ foreground' # None /\ foreground'.cmd = head
       /\ ~starts => foreground' = None
  <2>. DEFINE begun == [cmd |-> head, aborted |-> FALSE]
  <2>1. foreground' = IF starts THEN begun ELSE None
    BY <1>6
  <2>2. starts => begun \in Executions
    BY <1>10 DEF Executions
  <2>3. begun.cmd = head
    OBVIOUS
  <2>. QED
    BY <2>1, <2>2, <2>3, NoneIsNoValue
<1>17. /\ starts => foreground'.cmd \in batch'
       /\ foreground' = None <=> pc' \in {"idle", "loop"}
       /\ IF pc' = "prepare" THEN reservation' = foreground'.cmd ELSE reservation' = None
  BY <1>9, <1>10, <1>12, <1>13, <1>16
<1>18. /\ cancelPending' \subseteq Cmds
       /\ lease' \in {l, None}
       /\ l \notin q => lease' = l
  BY <1>1, <1>6
<1>19. \A c \in q : where'[c] \in {"queued", "running", "rejected", "dropped"}
  BY <1>1, <1>2, <1>7
<1>. QED
  BY <1>7, <1>8, <1>9, <1>12, <1>14, <1>15, <1>16, <1>17, <1>18, <1>19 DEF DrainOutcome

\* A step as the abstract executor sees it: commands only move forward, and they
\* begin or join an execution as it allows.
ExecutorStep ==
  /\ \A c \in Cmds : where'[c] # where[c] =>
       \/ where[c] = "new"
       \/ where[c] = "queued" /\ where'[c] # "new"
       \/ c \in executing /\ where'[c] \in {"running", "absorbing"} \cup Settled
  /\ IF executing = {}
       THEN executing' \subseteq Notifications \/ \E c \in Cmds : executing' = {c}
       ELSE /\ executing' = {} \/ executing \cap executing' # {}
            /\ executing' \ executing \subseteq Wakes

\* Commands outside of the execution under way enter the queue, or settle.
LEMMA OutsideStep ==
  ASSUME \A c \in Cmds : where'[c] # where[c] =>
           where[c] \in Waiting /\ where'[c] \in {"queued"} \cup Settled
  PROVE  ExecutorStep
<1>1. executing' = executing
  BY DEF executing, Waiting, Settled
<1>. QED
  BY <1>1 DEF ExecutorStep, executing, Waiting, Settled

\* What the drain takes from the queue begins an execution when nothing runs.
LEMMA DrainExecutes ==
  ASSUME NEW q \in SUBSET Cmds, NEW l, NothingRuns, DrainOutcome(q, l),
         \A c \in q : where[c] \in Waiting
  PROVE  ExecutorStep
<1>1. executing = {} /\ executing' = batch'
  BY DEF NothingRuns, DrainOutcome, executing, batch
<1>2. \A c \in Cmds : where'[c] # where[c] => where[c] \in Waiting /\ where'[c] # "new"
  BY DEF DrainOutcome
<1>. QED
  BY <1>1, <1>2 DEF ExecutorStep, DrainOutcome, Waiting

\* What the drain, and every enqueue that runs it, has to re-establish.
SchedulerOK ==
  /\ where \in [Cmds -> Places]
  /\ arrival \in [Cmds -> Nat]
  /\ generation \in [Cmds -> Nat]
  /\ pc \in PCs
  /\ foreground \in Executions \cup {None}
  /\ reservation \in Cmds \cup {None}
  /\ cancelPending \subseteq Cmds
  /\ TurnPhases
  /\ RunningInPhase
  /\ NoLostWakeup
  /\ NoCollision

LEMMA DrainKeepsScheduler ==
  ASSUME Inv, pc \in {"idle", "loop"},
         NEW q \in SUBSET Cmds, queue \subseteq q,
         NEW l \in Promoted \cup {None}, NEW r \in Prompts \cup {None},
         r # None => q = {r} /\ l \in {None, r},
         arrival' \in [Cmds -> Nat], generation' \in [Cmds -> Nat],
         Drain(q, arrival', generation', l, r),
         UNCHANGED <<activeTurn, snapshot>>
  PROVE  SchedulerOK'
<1>1. foreground = None /\ batch = {} /\ activeTurn = None /\ NothingRuns
  BY DEF Inv, TurnPhases, RunningInPhase, NothingRuns, batch
<1>2. where \in [Cmds -> Places] /\ cancelPending \subseteq Cmds
  BY DEF Inv, TypeOK
<1>3. DrainOutcome(q, l)
  BY <1>1, <1>2, DrainEffect
<1>4. /\ where' \in [Cmds -> Places]
      /\ pc' \in PCs
      /\ foreground' \in Executions \cup {None}
      /\ cancelPending' \subseteq Cmds
      /\ NoLostWakeup'
  BY <1>3 DEF DrainOutcome, PCs, NoLostWakeup, drainActive
<1>5. reservation' \in Cmds \cup {None}
  BY <1>3 DEF DrainOutcome, Executions
<1>6. TurnPhases'
  BY <1>1, <1>3 DEF DrainOutcome, TurnPhases
<1>7. RunningInPhase'
  BY <1>1, <1>3 DEF DrainOutcome, RunningInPhase, NothingRuns, Inv
<1>8. NoCollision'
  BY <1>3 DEF DrainOutcome, NoCollision, Inv
<1>. QED
  BY <1>4, <1>5, <1>6, <1>7, <1>8 DEF SchedulerOK

\* An enqueue either finds a drain under way or runs one.
LEMMA EnqueueKeepsScheduler ==
  ASSUME Inv, NEW c \in Cmds, where[c] = "new",
         NEW r, r = reservation \/ (c = r /\ c \in Prompts /\ ~drainActive /\ ~hasPending /\ lease \in {None, c}),
         Enqueue(c, lease, r),
         UNCHANGED <<activeTurn, snapshot>>
  PROVE  /\ SchedulerOK'
         /\ lease' \in {lease, None}
         /\ lease # c => (lease' = lease \/ where[lease] = "queued")
         /\ \A d \in Cmds \ {c} : where[d] = "new" => where'[d] = "new"
         /\ ExecutorStep
<1>1. /\ arrival' \in [Cmds -> Nat]
      /\ generation' \in [Cmds -> Nat]
  <2>1. clock \in Nat
    BY CmdsAreFinite, FS_Subset, FS_CardinalityType DEF clock
  <2>. QED
    BY <2>1 DEF Enqueue, Inv, TypeOK
<1>2. CASE drainActive
  <2>1. /\ where' = [where EXCEPT ![c] = "queued"]
        /\ lease' = lease
        /\ r = reservation /\ reservation' = reservation
        /\ UNCHANGED <<pc, foreground, cancelPending>>
    BY <1>2 DEF Enqueue
  <2>2. batch' = batch
    BY <2>1 DEF batch, Inv, TypeOK
  <2>3. ExecutorStep
    BY <2>1, OutsideStep DEF Inv, TypeOK, Waiting
  <2>. QED
    BY <1>1, <1>2, <2>1, <2>2, <2>3 DEF SchedulerOK, Inv, TypeOK, TurnPhases, RunningInPhase,
       NoLostWakeup, NoCollision, hasPending, queue, drainActive, Places, Waiting
<1>3. CASE ~drainActive
  <2>1. pc = "idle" /\ reservation = None
    BY <1>3 DEF drainActive, Inv, TurnPhases
  <2>2. Drain(queue \cup {c}, arrival', generation', lease, r)
    BY <1>3 DEF Enqueue
  <2>3. /\ queue \cup {c} \in SUBSET Cmds
        /\ lease \in Promoted \cup {None}
        /\ r \in Prompts \cup {None}
        /\ r # None => queue \cup {c} = {r} /\ lease \in {None, r}
    BY <2>1 DEF queue, hasPending, Inv, TypeOK
  <2>4. SchedulerOK'
    BY <1>1, <2>1, <2>2, <2>3, DrainKeepsScheduler
  <2>5. DrainOutcome(queue \cup {c}, lease)
    <3>1. where \in [Cmds -> Places] /\ cancelPending \subseteq Cmds /\ activeTurn = None /\ NothingRuns
      BY <2>1 DEF Inv, TypeOK, TurnPhases, RunningInPhase, NothingRuns, batch
    <3>2. arrival' \in [Cmds -> Nat] /\ generation' \in [Cmds -> Nat] /\ queue \subseteq queue \cup {c}
      BY <1>1
    <3>. QED
      BY <2>2, <2>3, <3>1, <3>2, DrainEffect
  <2>6. ExecutorStep
    <3>1. NothingRuns /\ \A d \in queue \cup {c} : where[d] \in Waiting
      BY <2>1 DEF Inv, RunningInPhase, NothingRuns, batch, queue, Waiting
    <3>. QED
      BY <2>3, <2>5, <3>1, DrainExecutes
  <2>. QED
    BY <2>3, <2>4, <2>5, <2>6 DEF DrainOutcome, queue
<1>. QED
  BY <1>2, <1>3

LEMMA SubmitKeepsScheduler ==
  ASSUME Inv, NEW c \in Cmds,
         NEW r, r = reservation \/ (c = r /\ c \in Prompts /\ ~drainActive /\ ~hasPending /\ lease \in {None, c}),
         Submit(c, r)
  PROVE  /\ SchedulerOK'
         /\ lease' \in {lease, None}
         /\ lease # c => (lease' = lease \/ where[lease] = "queued")
         /\ \A d \in Cmds \ {c} : where[d] = "new" => where'[d] = "new"
         /\ UNCHANGED <<aborted, activeTurn, snapshot, branchGeneration, plan, offPeakCancelled>>
         /\ ExecutorStep
<1>1. CASE c \in aborted
  <2>1. /\ where' = [where EXCEPT ![c] = "rejected"]
        /\ UNCHANGED <<arrival, generation, lease, reservation, pc, foreground, cancelPending,
                       aborted, activeTurn, snapshot, branchGeneration, plan, offPeakCancelled>>
        /\ where[c] = "new"
    BY <1>1 DEF Submit
  <2>2. batch' = batch /\ queue' = queue
    BY <2>1 DEF batch, queue, Inv, TypeOK
  <2>3. ExecutorStep
    BY <2>1, OutsideStep DEF Inv, TypeOK, Waiting, Settled
  <2>. QED
    BY <2>1, <2>2, <2>3 DEF SchedulerOK, Inv, TypeOK, TurnPhases, RunningInPhase, NoLostWakeup,
       NoCollision, hasPending, drainActive, Places, Settled
<1>2. CASE c \notin aborted
  <2>1. Enqueue(c, lease, r) /\ where[c] = "new"
        /\ UNCHANGED <<aborted, activeTurn, snapshot, branchGeneration, plan, offPeakCancelled>>
    BY <1>2 DEF Submit
  <2>. QED
    BY <2>1, EnqueueKeepsScheduler
<1>. QED
  BY <1>1, <1>2

\* The part of the invariant about promotions follows from a step that takes the
\* lease from a queued input only, and leaves the promoting handlers as they are.
LEMMA HandlersUndisturbed ==
  ASSUME Inv, \A p \in Promoted : holder'[p] = holder[p],
         lease' = lease \/ (lease' = None /\ where[lease] = "queued"),
         \A p \in Promoted : where[p] = "new" => where'[p] = "new"
  PROVE  PromotedOutside' /\ LeaseIsOwned'
<1>1. PromotedOutside'
  BY DEF PromotedOutside, Inv
<1>2. LeaseIsOwned'
  <2>1. CASE lease' = lease
    BY <2>1 DEF LeaseIsOwned, Inv, TypeOK
  <2>2. CASE lease' # lease
    <3>1. lease' = None /\ lease \in Promoted /\ where[lease] = "queued"
      BY <2>2 DEF Inv, TypeOK
    <3>2. holder[lease] \notin Preparing
      BY <3>1 DEF Inv, PromotedOutside
    <3>3. \A p \in Promoted : holder[p] \notin Preparing
      BY <3>2 DEF Inv, LeaseIsOwned, Preparing
    <3>. QED
      BY <3>1, <3>3 DEF LeaseIsOwned, Preparing
  <2>. QED
    BY <2>1, <2>2
<1>. QED
  BY <1>1, <1>2

-----------------------------------------------------------------------------
(* The steps of the drain.                                                 *)

\* A command under way settles, by whatever way.
LEMMA FinishKeepsScheduler ==
  ASSUME Inv, pc \notin {"idle", "loop", "prepare", "turn", "absorb"},
         NEW result \in {"resolved", "rejected"}, Finish(result),
         UNCHANGED <<arrival, generation, reservation, activeTurn, snapshot, lease>>
  PROVE  SchedulerOK' /\ \A c \in Cmds : where[c] = "new" => where'[c] = "new"
<1>1. /\ where' = [c \in Cmds |-> IF c \in batch THEN result ELSE where[c]]
      /\ foreground' = None /\ pc' = "loop"
      /\ cancelPending' \subseteq Cmds
  BY DEF Finish, Inv, TypeOK
<1>2. /\ where' \in [Cmds -> Places]
      /\ batch' = {}
      /\ \A c \in Cmds : where'[c] \in {where[c], result}
  BY <1>1 DEF batch, Places, Settled, Inv, TypeOK
<1>3. \A c \in Cmds : where[c] = "new" => where'[c] = "new"
  BY <1>1 DEF batch
<1>4. activeTurn = None /\ reservation = None /\ \A c \in Cmds : where[c] # "absorbing"
  BY DEF Inv, TurnPhases, RunningInPhase
<1>5. TypeOK /\ RunningInPhase /\ NoCollision
  BY DEF Inv
<1>. QED
  BY <1>1, <1>2, <1>3, <1>4, <1>5 DEF SchedulerOK, TypeOK, PCs, TurnPhases, RunningInPhase,
     NoLostWakeup, NoCollision, hasPending, drainActive

\* executeTurnCommand reserves, fails or, were another turn in the way, collides;
\* nothing is in the way.
LEMMA StartTurnKeepsScheduler ==
  ASSUME Inv, pc \in {"persist", "verify"}, StartTurn,
         UNCHANGED <<arrival, generation, activeTurn, snapshot, lease>>
  PROVE  SchedulerOK' /\ where' = where
<1>1. /\ foreground # None /\ foreground \in Executions /\ foreground.cmd \in Cmds
      /\ reservation = None /\ activeTurn = None
  BY DEF Inv, TypeOK, TurnPhases, Executions
<1>2. /\ UNCHANGED <<where, foreground, cancelPending>>
      /\ \/ pc' = "failed" /\ reservation' = None
         \/ pc' = "prepare" /\ reservation' = foreground.cmd
  BY <1>1 DEF StartTurn, CanStartTurn
<1>3. batch' = batch /\ queue' = queue
  BY <1>2 DEF batch, queue
<1>. QED
  BY <1>1, <1>2, <1>3 DEF SchedulerOK, Inv, TypeOK, PCs, TurnPhases, RunningInPhase,
     NoLostWakeup, NoCollision, hasPending, drainActive

\* The active loop takes the next wake, or returns to the turn.
LEMMA TakeNextKeepsScheduler ==
  ASSUME Inv, pc \in {"turn", "absorb"}, NEW S \in SUBSET Wakes, NEW placed \in [Cmds -> Places],
         \A c \in Cmds : placed[c] \in {where[c], "absorbed"} /\ placed[c] # "absorbing",
         \A c \in Cmds : placed[c] # where[c] => where[c] = "absorbing",
         TakeNext(S, placed),
         UNCHANGED <<arrival, generation, cancelPending, foreground, reservation, activeTurn, lease>>
  PROVE  SchedulerOK' /\ \A c \in Cmds : where[c] = "new" => where'[c] = "new"
<1>. DEFINE queued == {c \in S : placed[c] = "queued"}
            fresh == {c \in queued : ~Stale(c, generation)}
            next == Oldest(fresh, arrival)
<1>1. /\ where' = [c \in Cmds |-> IF c \in queued \ fresh THEN "dropped"
                                ELSE IF c \in fresh /\ c = next THEN "absorbing" ELSE placed[c]]
      /\ snapshot' = (IF fresh = {} THEN {} ELSE fresh \ {next})
      /\ pc' = (IF fresh = {} THEN "turn" ELSE "absorb")
  BY DEF TakeNext
<1>2. fresh \subseteq queued /\ queued \subseteq S
  OBVIOUS
<1>3. \A c \in Cmds : placed[c] \in {"new", "running"} <=> where[c] \in {"new", "running"}
  OBVIOUS
<1>. HIDE DEF queued, fresh, next
<1>4. /\ where' \in [Cmds -> Places]
      /\ \A c \in Cmds : where[c] \in {"new", "running"} => where'[c] = where[c]
      /\ \A c \in Cmds : where'[c] = "running" => where[c] = "running"
      /\ \A c \in Cmds : where'[c] = "absorbing" => pc' = "absorb"
      /\ \A c \in Cmds : where'[c] # "collided"
  BY <1>1, <1>2, <1>3 DEF queued, Places, Waiting, Settled, NoCollision, Inv
<1>5. batch' = batch
  BY <1>4 DEF batch
<1>6. snapshot' \subseteq Wakes
  BY <1>1, <1>2
<1>7. /\ foreground # None /\ pc' \in {"turn", "absorb"}
      /\ activeTurn # None /\ activeTurn.turn = foreground.cmd /\ reservation = None
      /\ foreground.cmd \in batch
  BY <1>1 DEF Inv, TurnPhases
<1>8. TurnPhases' /\ RunningInPhase' /\ NoLostWakeup' /\ NoCollision'
  BY <1>4, <1>5, <1>6, <1>7 DEF TurnPhases, RunningInPhase, NoLostWakeup, NoCollision, drainActive
<1>. QED
  BY <1>4, <1>7, <1>8 DEF SchedulerOK, Inv, TypeOK, PCs

LEMMA DrainStepKeepsInv ==
  ASSUME Inv, DrainStep
  PROVE  Inv'
<1>. USE DEF Inv
<1>1. CASE DrainResumes
  <2>1. /\ pc = "loop"
        /\ Drain(queue, arrival', generation', lease, reservation)
        /\ UNCHANGED <<arrival, aborted, activeTurn, snapshot, holder, controller,
                       branchGeneration, generation, plan, offPeakCancelled>>
    BY <1>1 DEF DrainResumes, branchVars
  <2>2. /\ queue \in SUBSET Cmds /\ lease \in Promoted \cup {None} /\ reservation = None
        /\ arrival' \in [Cmds -> Nat] /\ generation' \in [Cmds -> Nat]
        /\ where \in [Cmds -> Places] /\ cancelPending \subseteq Cmds
        /\ activeTurn = None /\ NothingRuns
    BY <2>1 DEF queue, TypeOK, TurnPhases, RunningInPhase, NothingRuns, batch
  <2>3. SchedulerOK'
    BY <2>1, <2>2, DrainKeepsScheduler
  <2>4. DrainOutcome(queue, lease)
    BY <2>1, <2>2, DrainEffect
  <2>5. PromotedOutside' /\ LeaseIsOwned'
    <3>1. lease' = lease \/ (lease' = None /\ where[lease] = "queued")
      BY <2>4 DEF DrainOutcome, queue
    <3>2. \A p \in Promoted : where[p] = "new" => where'[p] = "new"
      BY <2>4, PromotedAreUserInput DEF DrainOutcome, queue, Cmds, Cancellable
    <3>. QED
      BY <2>1, <3>1, <3>2, HandlersUndisturbed
  <2>6. lease' \in Promoted \cup {None}
    BY <2>2, <2>4 DEF DrainOutcome
  <2>. QED
    BY <2>1, <2>3, <2>5, <2>6 DEF SchedulerOK, TypeOK, RunningInPhase
<1>2. ASSUME SchedulerOK', \A c \in Cmds : where[c] = "new" => where'[c] = "new",
             activeTurn' \in Turns \cup {None}, branchGeneration' \in Nat, plan' \in [Cmds -> Nat],
             aborted' = aborted,
             UNCHANGED <<leaseVars, offPeakCancelled>>
      PROVE  Inv'
  <2>1. PromotedOutside' /\ LeaseIsOwned'
    BY <1>2, HandlersUndisturbed, PromotedAreUserInput DEF leaseVars, Cmds, Cancellable
  <2>2. snapshot' \subseteq Cmds
    BY <1>2 DEF SchedulerOK, RunningInPhase, Wakes, Cmds
  <2>. QED
    BY <1>2, <2>1, <2>2 DEF SchedulerOK, TypeOK, leaseVars
<1>3. CASE Persisted
  BY <1>2, <1>3, StartTurnKeepsScheduler DEF Persisted, branchVars, leaseVars, TypeOK
<1>4. CASE PersistFails
  BY <1>2, <1>4, FinishKeepsScheduler DEF PersistFails, branchVars, leaseVars, TypeOK
<1>5. CASE \E kind \in {"regular", "compact", "rewind"} : BeginTurn(kind)
  <2>1. PICK kind \in {"regular", "compact", "rewind"} : BeginTurn(kind)
    BY <1>5
  <2>. DEFINE begun == [turn |-> foreground.cmd, kind |-> kind]
  <2>2. /\ pc = "prepare" /\ pc' = "turn" /\ reservation' = None /\ activeTurn' = begun
        /\ UNCHANGED <<queueVars, foreground, snapshot, branchVars, leaseVars, offPeakCancelled>>
    BY <2>1 DEF BeginTurn
  <2>3. begun \in Turns /\ begun # None /\ begun.turn = foreground.cmd
    BY <2>2, NoneIsNoValue DEF TypeOK, TurnPhases, Turns, Kinds, Executions
  <2>4. batch' = batch /\ queue' = queue
    BY <2>2 DEF batch, queue, queueVars
  <2>5. SchedulerOK'
    BY <2>2, <2>3, <2>4 DEF SchedulerOK, TypeOK, PCs, TurnPhases, RunningInPhase, NoLostWakeup,
       NoCollision, hasPending, drainActive, queueVars, branchVars, leaseVars
  <2>. QED
    BY <1>2, <2>2, <2>3, <2>5 DEF queueVars, branchVars, TypeOK
<1>6. CASE PrepareFails
  <2>1. /\ pc = "prepare" /\ pc' = "failed" /\ reservation' = None
        /\ UNCHANGED <<queueVars, foreground, activeTurn, snapshot, branchVars, leaseVars, offPeakCancelled>>
    BY <1>6 DEF PrepareFails, TurnPhases
  <2>2. batch' = batch /\ queue' = queue
    BY <2>1 DEF batch, queue, queueVars
  <2>3. SchedulerOK'
    BY <2>1, <2>2 DEF SchedulerOK, TypeOK, PCs, TurnPhases, RunningInPhase, NoLostWakeup,
       NoCollision, hasPending, drainActive, queueVars, branchVars, leaseVars
  <2>. QED
    BY <1>2, <2>1, <2>3 DEF queueVars, branchVars, TypeOK
<1>7. CASE ModelStep
  <2>1. /\ Absorbable \in SUBSET Wakes /\ where \in [Cmds -> Places]
        /\ \A c \in Cmds : where[c] # "absorbing"
    BY <1>7 DEF ModelStep, Absorbable, TypeOK, RunningInPhase
  <2>2. SchedulerOK' /\ \A c \in Cmds : where[c] = "new" => where'[c] = "new"
    BY <1>7, <2>1, TakeNextKeepsScheduler DEF ModelStep, branchVars, leaseVars
  <2>. QED
    BY <1>2, <1>7, <2>2 DEF ModelStep, branchVars, TypeOK
<1>8. CASE Absorbed
  <2>. DEFINE placed == [c \in Cmds |-> IF where[c] = "absorbing" THEN "absorbed" ELSE where[c]]
  <2>1. placed \in [Cmds -> Places]
    BY DEF TypeOK, Places, Settled
  <2>2. /\ \A c \in Cmds : placed[c] \in {where[c], "absorbed"} /\ placed[c] # "absorbing"
        /\ \A c \in Cmds : placed[c] # where[c] => where[c] = "absorbing"
    OBVIOUS
  <2>3. /\ pc = "absorb" /\ snapshot \in SUBSET Wakes /\ TakeNext(snapshot, placed)
        /\ UNCHANGED <<arrival, cancelPending, aborted, foreground, reservation, activeTurn,
                       branchVars, leaseVars, offPeakCancelled>>
    BY <1>8 DEF Absorbed, RunningInPhase
  <2>. HIDE DEF placed
  <2>4. SchedulerOK' /\ \A c \in Cmds : where[c] = "new" => where'[c] = "new"
    BY <2>1, <2>2, <2>3, TakeNextKeepsScheduler DEF branchVars, leaseVars
  <2>. QED
    BY <1>2, <2>3, <2>4 DEF branchVars, TypeOK
<1>9. CASE AbsorbFails
  <2>1. /\ pc = "absorb" /\ pc' = "failed" /\ activeTurn' = None /\ snapshot' = {}
        /\ where' = [c \in Cmds |-> IF where[c] = "absorbing" THEN "rejected" ELSE where[c]]
        /\ UNCHANGED <<arrival, cancelPending, aborted, foreground, reservation, branchVars,
                       leaseVars, offPeakCancelled>>
    BY <1>9 DEF AbsorbFails
  <2>2. /\ where' \in [Cmds -> Places] /\ batch' = batch
        /\ \A c \in Cmds : where[c] = "new" => where'[c] = "new"
        /\ \A c \in Cmds : where'[c] # "absorbing"
    BY <2>1 DEF batch, TypeOK, Places, Settled
  <2>3. SchedulerOK'
    BY <2>1, <2>2 DEF SchedulerOK, TypeOK, PCs, TurnPhases, RunningInPhase, NoLostWakeup,
       NoCollision, hasPending, drainActive, branchVars, leaseVars
  <2>. QED
    BY <1>2, <2>1, <2>2, <2>3 DEF branchVars, TypeOK
<1>10. CASE RewindPlanned \/ RewindApplied
  <2>1. /\ pc = "turn" /\ foreground \in Executions /\ foreground.cmd \in Cmds
        /\ activeTurn \in Turns /\ activeTurn.turn = foreground.cmd
    BY <1>10 DEF RewindPlanned, RewindApplied, TypeOK, TurnPhases, Executions
  <2>2. PICK kind \in {"planned", "rewound"} : activeTurn' = [activeTurn EXCEPT !.kind = kind]
    BY <1>10 DEF RewindPlanned, RewindApplied
  <2>3. /\ UNCHANGED <<queueVars, pc, foreground, reservation, snapshot, generation, leaseVars,
                       offPeakCancelled>>
        /\ branchGeneration' \in Nat /\ plan' \in [Cmds -> Nat]
    BY <1>10, <2>1 DEF RewindPlanned, RewindApplied, PlansRewind, CutsBranch, TypeOK
  <2>4. activeTurn' \in Turns /\ activeTurn' # None /\ activeTurn'.turn = activeTurn.turn
    BY <2>1, <2>2, NoneIsNoValue DEF Turns, Kinds
  <2>5. batch' = batch /\ queue' = queue
    BY <2>3 DEF batch, queue, queueVars
  <2>6. SchedulerOK'
    BY <2>1, <2>3, <2>4, <2>5 DEF SchedulerOK, TypeOK, TurnPhases, RunningInPhase, NoLostWakeup,
       NoCollision, hasPending, drainActive, queueVars, leaseVars
  <2>. QED
    BY <1>2, <2>1, <2>3, <2>4, <2>6 DEF queueVars, TypeOK
<1>11. CASE \E outcome \in {"cleanup", "failed"} : EndTurn(outcome)
  <2>1. /\ pc = "turn" /\ pc' \in {"cleanup", "failed"} /\ activeTurn' = None /\ reservation' = None
        /\ UNCHANGED <<queueVars, foreground, snapshot, branchVars, leaseVars, offPeakCancelled>>
    BY <1>11 DEF EndTurn, TurnPhases
  <2>2. batch' = batch /\ queue' = queue
    BY <2>1 DEF batch, queue, queueVars
  <2>3. SchedulerOK'
    BY <2>1, <2>2 DEF SchedulerOK, TypeOK, PCs, TurnPhases, RunningInPhase, NoLostWakeup,
       NoCollision, hasPending, drainActive, queueVars, branchVars, leaseVars
  <2>. QED
    BY <1>2, <2>1, <2>3 DEF queueVars, branchVars, TypeOK
<1>12. CASE \E continues \in BOOLEAN : TurnSucceeded(continues)
  <2>1. /\ pc = "cleanup"
        /\ \/ Finish("resolved")
           \/ pc' = "verify" /\ UNCHANGED <<where, foreground, cancelPending>>
        /\ UNCHANGED <<arrival, aborted, reservation, activeTurn, snapshot, branchVars, leaseVars,
                       offPeakCancelled>>
    BY <1>12 DEF TurnSucceeded
  <2>2. CASE Finish("resolved")
    BY <1>2, <2>1, <2>2, FinishKeepsScheduler DEF branchVars, leaseVars, TypeOK
  <2>3. CASE pc' = "verify" /\ UNCHANGED <<where, foreground, cancelPending>>
    <3>1. batch' = batch /\ queue' = queue
      BY <2>3 DEF batch, queue
    <3>2. SchedulerOK'
      BY <2>1, <2>3, <3>1 DEF SchedulerOK, TypeOK, PCs, TurnPhases, RunningInPhase, NoLostWakeup,
         NoCollision, hasPending, drainActive, branchVars, leaseVars
    <3>. QED
      BY <1>2, <2>1, <2>3, <3>2 DEF branchVars, TypeOK
  <2>. QED
    BY <2>1, <2>2, <2>3
<1>13. CASE TurnFailed
  BY <1>2, <1>13, FinishKeepsScheduler DEF TurnFailed, branchVars, leaseVars, TypeOK
<1>14. CASE VerifyStops
  BY <1>2, <1>14, FinishKeepsScheduler DEF VerifyStops, branchVars, leaseVars, TypeOK
<1>15. CASE VerifyContinues
  BY <1>2, <1>15, StartTurnKeepsScheduler DEF VerifyContinues, branchVars, leaseVars, TypeOK
<1>16. CASE \E result \in {"resolved", "rejected"} : ControlDone(result)
  BY <1>2, <1>16, FinishKeepsScheduler DEF ControlDone, branchVars, leaseVars, TypeOK
<1>. QED
  BY <1>1, <1>3, <1>4, <1>5, <1>6, <1>7, <1>8, <1>9, <1>10, <1>11, <1>12, <1>13, <1>14, <1>15,
     <1>16 DEF DrainStep

-----------------------------------------------------------------------------
(* The callers and the handlers.                                           *)

\* A step that leaves the drain where it is, and moves only commands outside of it.
LEMMA QuietStep ==
  ASSUME Inv,
         where' \in [Cmds -> Places], arrival' = arrival, generation' = generation,
         UNCHANGED <<pc, activeTurn, snapshot, lease>>, branchGeneration' \in Nat,
         foreground' = foreground \/ (foreground # None /\ foreground' = [foreground EXCEPT !.aborted = TRUE]),
         \A c \in Cmds : where'[c] # where[c] =>
           where[c] \in Waiting /\ where'[c] \in {"rejected", "dropped", "deferred"},
         reservation' \in {reservation, None}, reservation # None => reservation' = reservation,
         cancelPending' \subseteq Cmds, aborted' \subseteq Cmds, offPeakCancelled' \in BOOLEAN
  PROVE  /\ SchedulerOK'
         /\ activeTurn' \in Turns \cup {None} /\ snapshot' \subseteq Cmds
         /\ lease' \in Promoted \cup {None} /\ branchGeneration' \in Nat
<1>. USE DEF Inv
<1>1. foreground' \in Executions \cup {None} /\ (foreground' = None <=> foreground = None)
      /\ (foreground # None => foreground'.cmd = foreground.cmd)
  <2>1. CASE foreground' = foreground
    BY <2>1 DEF TypeOK
  <2>2. CASE foreground # None /\ foreground' = [foreground EXCEPT !.aborted = TRUE]
    <3>. DEFINE stopped == [foreground EXCEPT !.aborted = TRUE]
    <3>1. foreground \in Executions
      BY <2>2 DEF TypeOK
    <3>2. stopped \in Executions /\ stopped.cmd = foreground.cmd
      BY <3>1 DEF Executions
    <3>. QED
      BY <2>2, <3>2, NoneIsNoValue
  <2>. QED
    BY <2>1, <2>2
<1>2. batch' = batch /\ queue' \subseteq queue
  BY DEF batch, queue, Waiting, TypeOK
<1>3. reservation' = reservation
  OBVIOUS
<1>4. TurnPhases'
  BY <1>1, <1>2, <1>3 DEF TurnPhases
<1>5. RunningInPhase' /\ NoCollision' /\ NoLostWakeup'
  BY <1>2 DEF RunningInPhase, NoCollision, NoLostWakeup, hasPending, drainActive
<1>. QED
  BY <1>1, <1>3, <1>4, <1>5 DEF SchedulerOK, TypeOK

\* What an interrupt does to the commands and to the foreground execution.
LEMMA InterruptEffect ==
  ASSUME Inv, NEW S \in SUBSET Cmds, NEW stop \in BOOLEAN, Interrupt(S, stop)
  PROVE  /\ where' \in [Cmds -> Places]
         /\ foreground' = foreground \/ (foreground # None /\ foreground' = [foreground EXCEPT !.aborted = TRUE])
         /\ \A c \in Cmds : where'[c] # where[c] => where[c] = "queued" /\ where'[c] = "rejected"
         /\ reservation' = reservation
         /\ cancelPending' \subseteq Cmds /\ aborted' \subseteq Cmds
<1>. DEFINE fired == {c \in S \ aborted : where[c] \in Waiting \cup {"running"}}
            removed == fired \cap queue
<1>1. /\ aborted' = aborted \cup fired
      /\ where' = [c \in Cmds |-> IF c \in removed THEN "rejected" ELSE where[c]]
      /\ reservation' = (IF reservation \in removed THEN None ELSE reservation)
      /\ cancelPending' = cancelPending \cup (fired \cap batch)
      /\ foreground' = foreground \/ foreground' = Stopped(foreground)
  BY DEF Interrupt
<1>2. reservation # None => reservation \in batch
  BY DEF Inv, TurnPhases
<1>3. reservation \notin removed
  BY <1>2, NoneIsNoValue DEF batch, queue
<1>. QED
  BY <1>1, <1>3 DEF Inv, TypeOK, Stopped, Places, Settled, batch, queue

\* A caller that enqueues c as a direct command.
LEMMA DirectKeepsInv ==
  ASSUME Inv, NEW c \in Cmds \ Promoted,
         SchedulerOK', lease' \in {lease, None},
         lease # c => (lease' = lease \/ where[lease] = "queued"),
         \A d \in Cmds \ {c} : where[d] = "new" => where'[d] = "new",
         \A p \in Promoted : holder'[p] = holder[p],
         holder' \in [Cancellable -> HolderStates], controller' \in Cancellable \cup {None},
         UNCHANGED <<aborted, activeTurn, snapshot, branchGeneration, plan, offPeakCancelled>>
  PROVE  Inv'
<1>1. lease # c
  BY NoneIsNoValue DEF Inv, TypeOK
<1>2. lease' = lease \/ (lease' = None /\ where[lease] = "queued")
  BY <1>1
<1>3. \A p \in Promoted : where[p] = "new" => where'[p] = "new"
  BY PromotedAreUserInput DEF Cancellable, Cmds
<1>4. PromotedOutside' /\ LeaseIsOwned'
  BY <1>2, <1>3, HandlersUndisturbed
<1>. QED
  BY <1>4 DEF Inv, TypeOK, SchedulerOK

\* A step of the handler of c alone: the runtime is left as it is.
LEMMA HandlerMoves ==
  ASSUME Inv, NEW c \in Cancellable, NEW st \in HolderStates,
         holder' = [holder EXCEPT ![c] = st],
         st \in {"idle", "done"} => c \notin Promoted,
         c \in Promoted =>
           \/ st \in Preparing \cup {"refused", "busy", "orphaned"} /\ holder[c] \in Preparing
           \/ st \in Replaying,
         branchGeneration' \in Nat, plan' \in [Cmds -> Nat],
         UNCHANGED <<queueVars, drainVars, generation, lease, controller, offPeakCancelled>>
  PROVE  Inv'
<1>1. /\ holder' \in [Cancellable -> HolderStates]
      /\ holder'[c] = st
      /\ \A q \in Promoted \ {c} : holder'[q] = holder[q]
  BY PromotedAreUserInput DEF Inv, TypeOK
<1>2. LeaseIsOwned'
  BY <1>1 DEF Inv, TypeOK, LeaseIsOwned, Preparing, Cleared, Replaying
<1>3. PromotedOutside'
  BY <1>1 DEF Inv, PromotedOutside, Preparing, Cleared, Replaying, queueVars
<1>4. SchedulerOK'
  BY QuietStep DEF queueVars, drainVars, branchVars, Inv, TypeOK
<1>. QED
  BY <1>1, <1>2, <1>3, <1>4 DEF queueVars, drainVars, branchVars, Inv, TypeOK, SchedulerOK

LEMMA CallerStepKeepsInv ==
  ASSUME Inv, CallerStep
  PROVE  Inv'
<1>1. \A p \in Promoted : p \in Cmds /\ p \notin Wakes /\ p \notin Controls
  BY PromotedAreUserInput, ModesAreDisjoint DEF Cancellable, Cmds, BranchBound, Wakes
<1>2. ASSUME SchedulerOK', activeTurn' \in Turns \cup {None}, snapshot' \subseteq Cmds,
             branchGeneration' \in Nat, plan' \in [Cmds -> Nat], aborted' \subseteq Cmds,
             offPeakCancelled' \in BOOLEAN,
             UNCHANGED leaseVars, \A p \in Promoted : where[p] = "new" => where'[p] = "new"
      PROVE  Inv'
  <2>1. PromotedOutside' /\ LeaseIsOwned'
    BY <1>2, HandlersUndisturbed DEF leaseVars
  <2>. QED
    BY <1>2, <2>1 DEF Inv, SchedulerOK, TypeOK, leaseVars
<1>3. ASSUME NEW S \in SUBSET Cmds, NEW stop \in BOOLEAN, Interrupt(S, stop),
              UNCHANGED <<arrival, pc, activeTurn, snapshot, branchVars, leaseVars, offPeakCancelled>>
       PROVE  Inv'
  <2>1. /\ where' \in [Cmds -> Places]
        /\ foreground' = foreground \/ (foreground # None /\ foreground' = [foreground EXCEPT !.aborted = TRUE])
        /\ \A c \in Cmds : where'[c] # where[c] => where[c] = "queued" /\ where'[c] = "rejected"
        /\ reservation' = reservation
        /\ cancelPending' \subseteq Cmds /\ aborted' \subseteq Cmds
    BY <1>3, InterruptEffect
  <2>2. \A p \in Promoted : where[p] = "new" => where'[p] = "new"
    BY <1>1, <2>1
  <2>3. SchedulerOK' /\ activeTurn' \in Turns \cup {None} /\ snapshot' \subseteq Cmds /\ branchGeneration' \in Nat
    BY <1>3, <2>1, QuietStep DEF branchVars, leaseVars, Waiting, Inv, TypeOK
  <2>. QED
    BY <1>2, <1>3, <2>1, <2>2, <2>3 DEF branchVars, Inv, TypeOK
<1>4. CASE \E c \in Cancellable : Abort(c)
  <2>1. PICK c \in Cancellable : Abort(c)
    BY <1>4
  <2>2. /\ Interrupt({c}, FALSE) /\ {c} \in SUBSET Cmds
        /\ UNCHANGED <<arrival, pc, activeTurn, snapshot, branchVars, leaseVars, offPeakCancelled>>
    BY <2>1 DEF Abort, Cancellable, Cmds
  <2>. QED
    BY <1>3, <2>2
<1>5. CASE \E p \in Prompts : SubmitCommand(p)
  <2>1. PICK p \in Prompts : SubmitCommand(p)
    BY <1>5
  <2>2. p \in Cmds \ Promoted /\ Submit(p, reservation) /\ UNCHANGED <<holder, controller>>
    BY <2>1 DEF SubmitCommand, Cmds
  <2>. QED
    BY <2>2, SubmitKeepsScheduler, DirectKeepsInv DEF Inv, TypeOK
<1>6. CASE \E p \in Prompts : AdmitPrompt(p)
  <2>1. PICK p \in Prompts : AdmitPrompt(p)
    BY <1>6
  <2>2. /\ p \in Cmds \ Promoted /\ Submit(p, p) /\ UNCHANGED <<holder, controller>>
        /\ ~drainActive /\ ~hasPending /\ lease = None
    BY <2>1 DEF AdmitPrompt, Cmds, hasActiveOrQueuedTurnWork
  <2>. QED
    BY <2>2, SubmitKeepsScheduler, DirectKeepsInv DEF Inv, TypeOK
<1>7. CASE \E p \in Prompts : Compact(p)
  <2>1. PICK p \in Prompts : Compact(p)
    BY <1>7
  <2>2. /\ p \in Cmds \ Promoted /\ p \in Cancellable /\ Submit(p, reservation) /\ controller' = p
        /\ holder' = [holder EXCEPT ![p] = "background"]
    BY <2>1 DEF Compact, StartInBackground, Cmds, Cancellable
  <2>3. /\ \A q \in Promoted : holder'[q] = holder[q]
        /\ holder' \in [Cancellable -> HolderStates] /\ controller' \in Cancellable \cup {None}
    BY <2>2, PromotedAreUserInput DEF Inv, TypeOK, HolderStates
  <2>. QED
    BY <2>2, <2>3, SubmitKeepsScheduler, DirectKeepsInv
<1>8. CASE \E p \in Prompts, requireQueue \in BOOLEAN : DeferPrompt(p, requireQueue)
  <2>1. PICK p \in Prompts, requireQueue \in BOOLEAN : DeferPrompt(p, requireQueue)
    BY <1>8
  <2>2. /\ p \notin Promoted /\ where[p] = "new" /\ where' = [where EXCEPT ![p] = "deferred"]
        /\ UNCHANGED <<arrival, cancelPending, aborted, drainVars, branchVars, leaseVars, offPeakCancelled>>
    BY <2>1 DEF DeferPrompt
  <2>3. /\ where' \in [Cmds -> Places]
        /\ \A c \in Cmds : where'[c] # where[c] => where[c] \in Waiting /\ where'[c] = "deferred"
        /\ \A q \in Promoted : where[q] = "new" => where'[q] = "new"
    BY <1>1, <2>2 DEF Inv, TypeOK, Places, Waiting, Settled
  <2>. QED
    BY <1>2, <2>2, <2>3, QuietStep DEF drainVars, branchVars, leaseVars, Inv, TypeOK
<1>9. CASE \E g \in Goals : RequestGoal(g)
  <2>1. PICK g \in Goals : RequestGoal(g)
    BY <1>9
  <2>2. /\ g \in Cancellable \ Promoted /\ holder' = [holder EXCEPT ![g] = "starting"]
        /\ UNCHANGED <<queueVars, drainVars, branchVars, lease, controller, offPeakCancelled>>
    BY <2>1 DEF RequestGoal, Cancellable
  <2>3. \A q \in Promoted : holder'[q] = holder[q]
    BY <2>2, PromotedAreUserInput DEF Inv, TypeOK
  <2>4. PromotedOutside' /\ LeaseIsOwned'
    BY <2>2, <2>3, HandlersUndisturbed DEF queueVars
  <2>5. holder' \in [Cancellable -> HolderStates]
    BY <2>2 DEF Inv, TypeOK, HolderStates
  <2>6. SchedulerOK'
    BY <2>2, QuietStep DEF queueVars, drainVars, branchVars, Inv, TypeOK
  <2>. QED
    BY <2>2, <2>4, <2>5, <2>6 DEF queueVars, drainVars, branchVars, Inv, TypeOK, SchedulerOK
<1>10. CASE \E c \in Wakes : PostWake(c)
  <2>1. PICK c \in Wakes : PostWake(c)
    BY <1>10
  <2>2. /\ c \in Cmds \ Promoted /\ where[c] = "new" /\ Enqueue(c, lease, reservation)
        /\ UNCHANGED <<aborted, activeTurn, snapshot, branchGeneration, plan, holder, controller, offPeakCancelled>>
    BY <1>1, <2>1 DEF PostWake, Wakes, Cmds
  <2>. QED
    BY <2>2, EnqueueKeepsScheduler, DirectKeepsInv DEF Inv, TypeOK
<1>11. CASE \E c \in Wakes : DropLateWake(c)
  <2>1. PICK c \in Wakes : DropLateWake(c)
    BY <1>11
  <2>2. /\ c \notin Promoted /\ where[c] = "new" /\ where' = [where EXCEPT ![c] = "dropped"]
        /\ UNCHANGED <<arrival, cancelPending, aborted, drainVars, branchVars, leaseVars, offPeakCancelled>>
    BY <1>1, <2>1 DEF DropLateWake
  <2>3. /\ where' \in [Cmds -> Places]
        /\ \A d \in Cmds : where'[d] # where[d] => where[d] \in Waiting /\ where'[d] = "dropped"
        /\ \A q \in Promoted : where[q] = "new" => where'[q] = "new"
    BY <1>1, <2>2 DEF Inv, TypeOK, Places, Waiting, Settled
  <2>. QED
    BY <1>2, <2>2, <2>3, QuietStep DEF drainVars, branchVars, leaseVars, Inv, TypeOK
<1>12. CASE \E c \in Controls : PostControl(c)
  <2>1. PICK c \in Controls : PostControl(c)
    BY <1>12
  <2>2. /\ c \in Cmds \ Promoted /\ where[c] = "new" /\ Enqueue(c, lease, reservation)
        /\ UNCHANGED <<aborted, activeTurn, snapshot, branchGeneration, plan, holder, controller, offPeakCancelled>>
    BY <1>1, <2>1 DEF PostControl, Cmds
  <2>. QED
    BY <2>2, EnqueueKeepsScheduler, DirectKeepsInv DEF Inv, TypeOK
<1>13. CASE \E p \in Promoted, mode \in {"after-current", "idle-only"} : AcquireLease(p, mode)
  <2>1. PICK p \in Promoted, mode \in {"after-current", "idle-only"} : AcquireLease(p, mode)
    BY <1>13
  <2>2. /\ holder[p] = "idle" /\ where[p] = "new" /\ lease = None /\ lease' = p
        /\ \E st \in {"ready", "leased"} : holder' = [holder EXCEPT ![p] = st]
        /\ UNCHANGED <<queueVars, drainVars, controller, branchVars, offPeakCancelled>>
    BY <2>1 DEF AcquireLease
  <2>3. \A q \in Promoted : holder[q] \notin Preparing
    BY <2>2, NoneIsNoValue, <1>1 DEF Inv, LeaseIsOwned, Preparing
  <2>4. /\ holder' \in [Cancellable -> HolderStates] /\ holder'[p] \in {"ready", "leased"}
        /\ \A q \in Promoted \ {p} : holder'[q] = holder[q]
    BY <2>2, PromotedAreUserInput DEF Inv, TypeOK, HolderStates
  <2>5. LeaseIsOwned'
    BY <2>2, <2>3, <2>4 DEF LeaseIsOwned, Preparing
  <2>6. PromotedOutside'
    BY <2>2, <2>4 DEF Inv, PromotedOutside, queueVars
  <2>7. NoLostWakeup'
    BY <2>2, NoneIsNoValue, <1>1 DEF NoLostWakeup
  <2>8. TurnPhases' /\ RunningInPhase' /\ NoCollision'
    BY <2>2 DEF Inv, TurnPhases, RunningInPhase, NoCollision, batch, queueVars, drainVars
  <2>. QED
    BY <2>2, <2>4, <2>5, <2>6, <2>7, <2>8 DEF Inv, TypeOK, queueVars, drainVars, branchVars
<1>14. CASE \E c \in Replayed, edit \in BOOLEAN : RequestReplay(c, edit)
  <2>1. PICK c \in Replayed, edit \in BOOLEAN : RequestReplay(c, edit)
    BY <1>14
  <2>2. c \in Cancellable \ Promoted
    BY <2>1, ReplayedAreUserInput
  <2>3. PICK st \in {"editing", "clear"} : holder' = [holder EXCEPT ![c] = st]
    BY <2>1 DEF RequestReplay
  <2>4. UNCHANGED <<queueVars, drainVars, branchVars, lease, controller, offPeakCancelled>>
    BY <2>1 DEF RequestReplay
  <2>. QED
    BY <2>2, <2>3, <2>4, HandlerMoves DEF branchVars, Inv, TypeOK, HolderStates, Replaying
<1>15. CASE Stop
  <2>1. /\ Interrupt({controller} \ {None}, TRUE) /\ {controller} \ {None} \in SUBSET Cmds
        /\ UNCHANGED <<arrival, pc, activeTurn, snapshot, branchVars, leaseVars, offPeakCancelled>>
    BY <1>15 DEF Stop, Inv, TypeOK, Cancellable, Cmds
  <2>. QED
    BY <1>3, <2>1
<1>16. CASE CancelOffPeak
  <2>1. /\ offPeakCancelled' = TRUE
        /\ where' = [c \in Cmds |-> IF c \in queue \cap OffPeak THEN "dropped" ELSE where[c]]
        /\ foreground' = Stopped(foreground)
        /\ UNCHANGED <<arrival, cancelPending, aborted, pc, reservation, activeTurn, snapshot,
                       branchVars, leaseVars>>
    BY <1>16 DEF CancelOffPeak
  <2>2. /\ where' \in [Cmds -> Places]
        /\ \A c \in Cmds : where'[c] # where[c] => where[c] = "queued" /\ where'[c] = "dropped"
    BY <2>1 DEF Inv, TypeOK, Places, Settled, queue
  <2>3. foreground' = foreground \/ (foreground # None /\ foreground' = [foreground EXCEPT !.aborted = TRUE])
    BY <2>1 DEF Stopped
  <2>. QED
    BY <1>1, <1>2, <2>1, <2>2, <2>3, QuietStep DEF branchVars, leaseVars, Waiting, Inv, TypeOK
<1>. QED
  BY <1>4, <1>5, <1>6, <1>7, <1>8, <1>9, <1>10, <1>11, <1>12, <1>13, <1>14, <1>15,
     <1>16 DEF CallerStep

\* The handler of a promoted p submits it: it holds the lease, and no other
\* handler is preparing a promotion.
LEMMA SubmitPromotedKeepsInv ==
  ASSUME Inv, NEW p \in Promoted, holder[p] \in Preparing,
         NEW r, r = reservation \/ (p = r /\ p \in Prompts /\ ~drainActive /\ ~hasPending),
         Submit(p, r),
         NEW st \in {"admitted", "background"}, holder' = [holder EXCEPT ![p] = st],
         controller' \in Cancellable \cup {None}
  PROVE  Inv'
<1>1. p \in Cmds /\ p \in Cancellable /\ p # None /\ lease = p
  BY PromotedAreUserInput, NoneIsNoValue DEF Cancellable, Cmds, Inv, LeaseIsOwned, Preparing, Cleared
<1>2. /\ SchedulerOK'
      /\ lease' \in {p, None}
      /\ \A d \in Cmds \ {p} : where[d] = "new" => where'[d] = "new"
      /\ UNCHANGED <<aborted, activeTurn, snapshot, branchGeneration, plan, offPeakCancelled>>
  BY <1>1, SubmitKeepsScheduler
<1>3. /\ holder' \in [Cancellable -> HolderStates]
      /\ holder'[p] = st
      /\ \A q \in Promoted \ {p} : holder'[q] = holder[q] /\ holder[q] \notin Preparing
  BY <1>1, PromotedAreUserInput DEF Inv, TypeOK, HolderStates, LeaseIsOwned, Preparing, Cleared
<1>4. LeaseIsOwned'
  BY <1>2, <1>3 DEF LeaseIsOwned, Preparing, Cleared
<1>5. PromotedOutside'
  BY <1>2, <1>3, PromotedAreUserInput DEF Inv, PromotedOutside, Preparing, Cleared, Cmds, Cancellable
<1>. QED
  BY <1>1, <1>2, <1>3, <1>4, <1>5 DEF Inv, TypeOK, SchedulerOK

\* The finally of a handler: the lease, if it still is its, is released, and the
\* drain that the lease held up goes on.
LEMMA ReleaseLeaseKeepsInv ==
  ASSUME Inv, NEW c \in Cancellable, ReleaseLease(c)
  PROVE  Inv'
<1>1. /\ holder[c] \notin Preparing
      /\ holder' = [holder EXCEPT ![c] = IF where[c] = "new" THEN "idle" ELSE "done"]
      /\ controller' \in {controller, None}
      /\ UNCHANGED <<arrival, aborted, activeTurn, snapshot, branchVars, offPeakCancelled>>
  BY DEF ReleaseLease, Releasing, HandlerEnds, Preparing, Cleared
<1>2. /\ holder' \in [Cancellable -> HolderStates]
      /\ holder'[c] = IF where[c] = "new" THEN "idle" ELSE "done"
      /\ \A q \in Promoted \ {c} : holder'[q] = holder[q]
  BY <1>1, PromotedAreUserInput DEF Inv, TypeOK, HolderStates
<1>3. c \in Promoted => c # None /\ c \in Cmds
  BY PromotedAreUserInput, NoneIsNoValue DEF Cancellable, Cmds
<1>4. ASSUME SchedulerOK', lease' \in {lease, None}, lease = c => lease' = None,
             lease' = lease \/ lease = c,
             \A q \in Cmds : where[q] = "new" => where'[q] = "new"
      PROVE  Inv'
  <2>1. lease' # None => lease' = lease /\ lease # c /\ lease \in Promoted
    BY <1>4 DEF Inv, TypeOK
  <2>2. \A q \in Promoted : holder'[q] \in Preparing => q # c /\ holder[q] \in Preparing
    BY <1>2 DEF Preparing, Cleared
  <2>3. LeaseIsOwned'
    <3>1. lease' # None => holder'[lease'] \notin {"idle", "done"}
      BY <1>2, <2>1 DEF Inv, LeaseIsOwned
    <3>2. \A q \in Promoted : holder'[q] \in Preparing => lease' = q
      BY <1>4, <2>2 DEF Inv, LeaseIsOwned, Preparing, Cleared
    <3>. QED
      BY <3>1, <3>2 DEF LeaseIsOwned, Preparing, Cleared
  <2>4. PromotedOutside'
    <3>1. \A q \in Promoted \ {c} : holder'[q] \in Preparing \cup {"idle", "refused", "busy", "orphaned"} => where'[q] = "new"
      BY <1>2, <1>4, PromotedAreUserInput DEF Inv, PromotedOutside, Cancellable, Cmds
    <3>2. c \in Promoted /\ holder'[c] \in Preparing \cup {"idle", "refused", "busy", "orphaned"} => where'[c] = "new"
      BY <1>2, <1>3, <1>4 DEF Preparing, Cleared
    <3>. QED
      BY <3>1, <3>2 DEF PromotedOutside
  <2>. QED
    BY <1>1, <1>2, <1>4, <2>1, <2>3, <2>4 DEF Inv, TypeOK, SchedulerOK, branchVars
<1>5. CASE lease = c /\ ~drainActive
  <2>1. /\ Drain(queue, arrival', generation', None, reservation)
        /\ reservation = None /\ pc = "idle" /\ activeTurn = None
    BY <1>1, <1>5 DEF ReleaseLease, branchVars, drainActive, Inv, TurnPhases
  <2>2. /\ queue \in SUBSET Cmds /\ None \in Promoted \cup {None} /\ queue \subseteq queue
        /\ reservation \in Prompts \cup {None}
        /\ arrival' \in [Cmds -> Nat] /\ generation' \in [Cmds -> Nat]
        /\ where \in [Cmds -> Places] /\ cancelPending \subseteq Cmds /\ NothingRuns
    BY <1>1, <2>1 DEF queue, branchVars, Inv, TypeOK, TurnPhases, RunningInPhase, NothingRuns, batch
  <2>3. SchedulerOK'
    BY <1>1, <2>1, <2>2, DrainKeepsScheduler
  <2>4. DrainOutcome(queue, None)
    BY <2>1, <2>2, DrainEffect
  <2>5. lease' = None /\ \A q \in Cmds : where[q] = "new" => where'[q] = "new"
    BY <2>4 DEF DrainOutcome, queue
  <2>. QED
    BY <1>4, <1>5, <2>3, <2>5
<1>6. CASE ~(lease = c /\ ~drainActive)
  <2>1. /\ lease' = IF lease = c THEN None ELSE lease
        /\ UNCHANGED <<where, pc, foreground, reservation, cancelPending>>
    BY <1>6 DEF ReleaseLease
  <2>2. batch' = batch /\ queue' = queue
    BY <2>1 DEF batch, queue
  <2>3. SchedulerOK'
    BY <1>1, <1>6, <2>1, <2>2 DEF SchedulerOK, Inv, TypeOK, TurnPhases, RunningInPhase, NoLostWakeup,
       NoCollision, hasPending, drainActive, branchVars
  <2>. QED
    BY <1>4, <2>1, <2>3
<1>. QED
  BY <1>5, <1>6

LEMMA HolderStepKeepsInv ==
  ASSUME Inv, NEW c \in Cancellable, HolderStep(c)
  PROVE  Inv'
<1>1. c \in Cmds
  BY DEF Cancellable, Cmds
<1>2. CASE Preempt(c)
  <2>. DEFINE stops == foreground # None /\ ~foreground.aborted
              hit == IF stops THEN {} ELSE {controller} \ {None}
  <2>1. /\ Interrupt(hit, stops)
        /\ UNCHANGED <<arrival, pc, activeTurn, snapshot, branchVars, lease, controller, offPeakCancelled>>
    BY <1>2 DEF Preempt
  <2>. DEFINE st == IF holder[c] = "leased" THEN "waiting" ELSE "stopping"
  <2>2. holder' = [holder EXCEPT ![c] = st] /\ (st = "waiting" => holder[c] = "leased")
        /\ st \in {"waiting", "stopping"}
    BY <1>2 DEF Preempt
  <2>3. hit \in SUBSET Cmds /\ stops \in BOOLEAN
    BY DEF Inv, TypeOK, Executions, Cancellable, Cmds
  <2>. HIDE DEF hit, stops, st
  <2>4. /\ where' \in [Cmds -> Places]
        /\ foreground' = foreground \/ (foreground # None /\ foreground' = [foreground EXCEPT !.aborted = TRUE])
        /\ \A d \in Cmds : where'[d] # where[d] => where[d] = "queued" /\ where'[d] = "rejected"
        /\ reservation' = reservation
        /\ cancelPending' \subseteq Cmds /\ aborted' \subseteq Cmds
    BY <2>1, <2>3, InterruptEffect
  <2>5. SchedulerOK' /\ activeTurn' \in Turns \cup {None} /\ snapshot' \subseteq Cmds
        /\ lease' \in Promoted \cup {None} /\ branchGeneration' \in Nat
    BY <2>1, <2>4, QuietStep DEF branchVars, Waiting, Inv, TypeOK
  <2>6. /\ holder' \in [Cancellable -> HolderStates] /\ holder'[c] = st
        /\ \A q \in Promoted \ {c} : holder'[q] = holder[q]
    BY <2>2, PromotedAreUserInput DEF Inv, TypeOK, HolderStates, Replaying
  <2>7. LeaseIsOwned'
    BY <2>1, <2>2, <2>6 DEF Inv, TypeOK, LeaseIsOwned, Preparing, Cleared
  <2>8. PromotedOutside'
    BY <2>1, <2>2, <2>4, <2>6, PromotedAreUserInput DEF Inv, PromotedOutside, Preparing, Cleared, Cancellable, Cmds
  <2>. QED
    BY <2>1, <2>4, <2>5, <2>6, <2>7, <2>8 DEF Inv, TypeOK, SchedulerOK, branchVars
<1>3. CASE SessionIdle(c)
  <2>1. PICK st \in {"barred", "clear"} : /\ holder' = [holder EXCEPT ![c] = st]
                                          /\ st = "barred" => holder[c] = "waiting"
    BY <1>3 DEF SessionIdle
  <2>2. UNCHANGED <<queueVars, drainVars, branchVars, lease, controller, offPeakCancelled>>
    BY <1>3 DEF SessionIdle
  <2>. QED
    BY <2>1, <2>2, HandlerMoves DEF branchVars, Inv, TypeOK, Preparing, Cleared, HolderStates, Replaying
<1>4. CASE GiveUp(c)
  BY <1>4, HandlerMoves DEF GiveUp, branchVars, Inv, TypeOK, Preparing, Cleared, HolderStates
<1>5. CASE PromotionRejected(c)
  BY <1>5, HandlerMoves DEF PromotionRejected, branchVars, Inv, TypeOK, Preparing, Cleared, HolderStates
<1>6. CASE PromoteGoal(c)
  <2>1. PICK st \in {"starting", "orphaned"} : holder' = [holder EXCEPT ![c] = st]
    BY <1>6 DEF PromoteGoal
  <2>. QED
    BY <1>6, <2>1, HandlerMoves DEF PromoteGoal, branchVars, Inv, TypeOK, Preparing, Cleared, HolderStates
<1>7. ASSUME c \in Promoted, holder[c] \in Preparing, NEW r,
             r = reservation \/ (c = r /\ c \in Prompts /\ ~drainActive /\ ~hasPending),
             Submit(c, r), NEW st \in {"admitted", "background"},
             holder' = [holder EXCEPT ![c] = st], controller' \in {controller, c}
      PROVE  Inv'
  <2>1. controller' \in Cancellable \cup {None}
    BY <1>7 DEF Inv, TypeOK
  <2>. QED
    BY <1>7, <2>1, SubmitPromotedKeepsInv
<1>8. ASSUME c \notin Promoted, StartInBackground(c)
      PROVE  Inv'
  <2>1. /\ c \in Cmds \ Promoted /\ Submit(c, reservation) /\ controller' = c
        /\ holder' = [holder EXCEPT ![c] = "background"]
    BY <1>1, <1>8 DEF StartInBackground
  <2>2. /\ \A q \in Promoted : holder'[q] = holder[q]
        /\ holder' \in [Cancellable -> HolderStates] /\ controller' \in Cancellable \cup {None}
    BY <1>8, <2>1, PromotedAreUserInput DEF Inv, TypeOK, HolderStates
  <2>. QED
    BY <2>1, <2>2, SubmitKeepsScheduler, DirectKeepsInv
<1>9. holder[c] \in Cleared => holder[c] \in Preparing
  BY DEF Preparing, Cleared
<1>10. CASE PromotePrompt(c)
  <2>1. /\ holder[c] \in Cleared /\ c \in Promoted \cap Prompts /\ ~drainActive /\ ~hasPending
        /\ Submit(c, c) /\ holder' = [holder EXCEPT ![c] = "admitted"] /\ controller' = controller
    BY <1>10 DEF PromotePrompt, hasActiveOrQueuedTurnWork, promotionLeaseOnly
  <2>. QED
    BY <1>7, <1>9, <2>1
<1>11. CASE PromoteCompact(c)
  BY <1>7, <1>8, <1>9, <1>11 DEF PromoteCompact, StartInBackground
<1>12. CASE StartGoal(c)
  <2>1. holder[c] \in Preparing
    BY <1>12 DEF StartGoal, Preparing, Cleared
  <2>. QED
    BY <1>7, <1>8, <1>12, <2>1 DEF StartGoal, StartInBackground
<1>13. CASE ReleaseLease(c)
  BY <1>13, ReleaseLeaseKeepsInv
<1>14. CASE c \in Replayed /\ (ReplayPlans(c) \/ ReplayCuts(c) \/ ReplayEnds(c))
  <2>1. c \in Cancellable \ Promoted
    BY <1>14, ReplayedAreUserInput
  <2>2. PICK st \in {"planned", "rewound", "idle"} : holder' = [holder EXCEPT ![c] = st]
    BY <1>14 DEF ReplayPlans, ReplayCuts, ReplayEnds
  <2>3. branchGeneration' \in Nat /\ plan' \in [Cmds -> Nat]
    BY <1>1, <1>14 DEF ReplayPlans, ReplayCuts, ReplayEnds, PlansRewind, CutsBranch, Inv, TypeOK
  <2>4. UNCHANGED <<queueVars, drainVars, generation, lease, controller, offPeakCancelled>>
    BY <1>14 DEF ReplayPlans, ReplayCuts, ReplayEnds, PlansRewind, CutsBranch
  <2>. QED
    BY <2>1, <2>2, <2>3, <2>4, HandlerMoves DEF HolderStates, Replaying
<1>. QED
  BY <1>2, <1>3, <1>4, <1>5, <1>6, <1>10, <1>11, <1>12, <1>13, <1>14 DEF HolderStep

-----------------------------------------------------------------------------
(* The theorems.                                                           *)

LEMMA InitEstablishesInv == Init => Inv
<1>. SUFFICES ASSUME Init PROVE Inv
  OBVIOUS
<1>1. TypeOK
  <2>1. /\ where \in [Cmds -> Places] /\ arrival \in [Cmds -> Nat] /\ generation \in [Cmds -> Nat]
        /\ plan \in [Cmds -> Nat] /\ holder \in [Cancellable -> HolderStates]
    BY DEF Init, Places, Waiting, HolderStates
  <2>. QED
    BY <2>1 DEF Init, TypeOK, PCs
<1>2. queue = {} /\ batch = {}
  BY DEF Init, queue, batch
<1>3. TurnPhases /\ RunningInPhase /\ NoLostWakeup /\ NoCollision
  BY <1>2 DEF Init, TurnPhases, RunningInPhase, NoLostWakeup, NoCollision, hasPending
<1>4. PromotedOutside /\ LeaseIsOwned
  BY PromotedAreUserInput DEF Init, PromotedOutside, LeaseIsOwned, Cleared, Cancellable, Cmds
<1>. QED
  BY <1>1, <1>3, <1>4 DEF Inv

LEMMA NextKeepsInv == Inv /\ [Next]_vars => Inv'
<1>1. ASSUME Inv, UNCHANGED vars PROVE Inv'
  <2>1. batch' = batch /\ queue' = queue
    BY <1>1 DEF vars, queueVars, batch, queue
  <2>. QED
    BY <1>1, <2>1 DEF vars, queueVars, drainVars, branchVars, leaseVars, Inv, TypeOK, TurnPhases,
       RunningInPhase, PromotedOutside, LeaseIsOwned, NoLostWakeup, NoCollision, hasPending, drainActive
<1>. QED
  BY <1>1, DrainStepKeepsInv, CallerStepKeepsInv, HolderStepKeepsInv DEF Next

\* The inductive invariant holds of the command queue, whatever commands there are.
THEOREM Invariance == Spec => []Inv
BY InitEstablishesInv, NextKeepsInv, PTL DEF Spec

\* Every variable of the command queue keeps its type: in particular a command is
\* always in exactly one of the places enqueue, drain, active loop and settlement
\* put it in.
THEOREM TypeCorrect == Spec => []TypeOK
<1>1. Inv => TypeOK
  BY DEF Inv
<1>. QED
  BY <1>1, Invariance, PTL

\* A session runs one turn at a time: turn, reservation and foreground execution
\* (runtime-turn.ts, runtime-command-queue.ts) always name the same command, and a
\* turn is never both reserved and active.
THEOREM TurnsAreSerial == Spec => []OneTurn
<1>1. Inv => OneTurn
  BY DEF Inv, TurnPhases, OneTurn
<1>. QED
  BY <1>1, Invariance, PTL

\* No accepted command is lost to a collision: reserveTurnStart never throws for a
\* command that the drain has taken from the queue.
THEOREM NoCommandCollides == Spec => []NoCollision
<1>1. Inv => NoCollision
  BY DEF Inv
<1>. QED
  BY <1>1, Invariance, PTL

\* A queued command always has a drain under way, or a promotion lease whose release
\* will start one (drainRuntimeCommands, releaseForegroundPromotionLease).
THEOREM WakeupsAreKept == Spec => []NoLostWakeup
<1>1. Inv => NoLostWakeup
  BY DEF Inv
<1>. QED
  BY <1>1, Invariance, PTL

\* A promotion lease is that of a handler under way (sendQueuedNow, startNow): while
\* the handler prepares its promotion nothing takes the lease from it.
THEOREM LeasesAreOwned == Spec => []LeaseIsOwned
<1>1. Inv => LeaseIsOwned
  BY DEF Inv
<1>. QED
  BY <1>1, Invariance, PTL

-----------------------------------------------------------------------------
(* The refinement: the command queue implements the serial executor.       *)

\* An execution under way ends with all its commands.
LEMMA FinishExecutes ==
  ASSUME Inv, pc \notin {"idle", "loop", "absorb"},
         NEW result \in {"resolved", "rejected"}, Finish(result)
  PROVE  ExecutorStep
<1>1. executing = batch /\ batch # {}
  BY DEF Inv, TypeOK, TurnPhases, RunningInPhase, executing, batch
<1>2. \A c \in Cmds : where'[c] = IF c \in batch THEN result ELSE where[c]
  BY DEF Finish
<1>3. executing' = {}
  BY <1>1, <1>2 DEF executing, batch
<1>. QED
  BY <1>1, <1>2, <1>3 DEF ExecutorStep, Settled

\* The active loop takes a wake into the execution under way.
LEMMA TakeNextExecutes ==
  ASSUME Inv, pc \in {"turn", "absorb"}, NEW S \in SUBSET Wakes, NEW placed \in [Cmds -> Places],
         \A c \in Cmds : placed[c] # where[c] => where[c] = "absorbing" /\ placed[c] = "absorbed",
         TakeNext(S, placed)
  PROVE  ExecutorStep
<1>. DEFINE queued == {c \in S : placed[c] = "queued"}
<1>1. \A c \in Cmds : where'[c] # placed[c] => c \in queued /\ where'[c] \in {"dropped", "absorbing"}
  BY DEF TakeNext
<1>2. \A c \in queued : where[c] = "queued"
  BY DEF Wakes, Cmds
<1>. HIDE DEF queued
<1>3. \A c \in Cmds : where'[c] # where[c] =>
        \/ c \in S /\ where[c] = "queued" /\ where'[c] \in {"dropped", "absorbing"}
        \/ where[c] = "absorbing" /\ where'[c] = "absorbed"
  BY <1>1, <1>2 DEF queued
<1>4. batch \subseteq executing \cap executing' /\ batch # {}
  BY <1>3 DEF Inv, TurnPhases, executing, batch
<1>5. executing' \ executing \subseteq Wakes
  BY <1>3 DEF executing
<1>. QED
  BY <1>3, <1>4, <1>5 DEF ExecutorStep, executing, Settled

LEMMA DrainStepExecutes ==
  ASSUME Inv, DrainStep
  PROVE  where' = where \/ ExecutorStep
<1>1. CASE DrainResumes
  <2>1. /\ pc = "loop" /\ Drain(queue, arrival, generation, lease, reservation)
        /\ queue \in SUBSET Cmds /\ lease \in Promoted \cup {None} /\ reservation = None
        /\ arrival \in [Cmds -> Nat] /\ generation \in [Cmds -> Nat]
        /\ where \in [Cmds -> Places] /\ cancelPending \subseteq Cmds
        /\ activeTurn = None /\ NothingRuns
    BY <1>1 DEF DrainResumes, queue, Inv, TypeOK, TurnPhases, RunningInPhase, NothingRuns, batch
  <2>2. DrainOutcome(queue, lease)
    BY <2>1, DrainEffect
  <2>. QED
    BY <2>1, <2>2, DrainExecutes DEF queue, Waiting
<1>2. CASE Persisted \/ VerifyContinues
  BY <1>2, FinishExecutes, StartTurnKeepsScheduler
     DEF Persisted, VerifyContinues, StartTurn, Inv, TurnPhases, CanStartTurn
<1>3. CASE PersistFails \/ TurnFailed \/ VerifyStops
  BY <1>3, FinishExecutes DEF PersistFails, TurnFailed, VerifyStops
<1>4. CASE \E result \in {"resolved", "rejected"} : ControlDone(result)
  BY <1>4, FinishExecutes DEF ControlDone
<1>5. CASE \E continues \in BOOLEAN : TurnSucceeded(continues)
  BY <1>5, FinishExecutes DEF TurnSucceeded
<1>6. CASE ModelStep
  <2>1. Absorbable \in SUBSET Wakes /\ where \in [Cmds -> Places]
    BY DEF Absorbable, Inv, TypeOK
  <2>. QED
    BY <1>6, <2>1, TakeNextExecutes DEF ModelStep
<1>7. CASE Absorbed
  <2>. DEFINE placed == [c \in Cmds |-> IF where[c] = "absorbing" THEN "absorbed" ELSE where[c]]
  <2>1. /\ placed \in [Cmds -> Places]
        /\ \A c \in Cmds : placed[c] # where[c] => where[c] = "absorbing" /\ placed[c] = "absorbed"
    BY DEF Inv, TypeOK, Places, Settled
  <2>2. pc = "absorb" /\ snapshot \in SUBSET Wakes /\ TakeNext(snapshot, placed)
    BY <1>7 DEF Absorbed, Inv, RunningInPhase
  <2>. HIDE DEF placed
  <2>. QED
    BY <2>1, <2>2, TakeNextExecutes
<1>8. CASE AbsorbFails
  <2>1. /\ pc = "absorb"
        /\ \A c \in Cmds : where'[c] = IF where[c] = "absorbing" THEN "rejected" ELSE where[c]
    BY <1>8 DEF AbsorbFails
  <2>2. executing' = batch /\ batch \subseteq executing /\ batch # {}
    BY <2>1 DEF executing, batch, Inv, TurnPhases
  <2>. QED
    BY <2>1, <2>2 DEF ExecutorStep, executing, Settled
<1>9. CASE \/ \E kind \in {"regular", "compact", "rewind"} : BeginTurn(kind)
           \/ PrepareFails \/ RewindPlanned \/ RewindApplied
           \/ \E outcome \in {"cleanup", "failed"} : EndTurn(outcome)
  BY <1>9 DEF BeginTurn, PrepareFails, RewindPlanned, RewindApplied, EndTurn, queueVars
<1>. QED
  BY <1>1, <1>2, <1>3, <1>4, <1>5, <1>6, <1>7, <1>8, <1>9 DEF DrainStep

LEMMA InterruptExecutes ==
  ASSUME Inv, NEW S \in SUBSET Cmds, NEW stop \in BOOLEAN, Interrupt(S, stop)
  PROVE  ExecutorStep
BY InterruptEffect, OutsideStep DEF Waiting, Settled

LEMMA CallerStepExecutes ==
  ASSUME Inv, CallerStep
  PROVE  where' = where \/ ExecutorStep
<1>1. where \in [Cmds -> Places]
  BY DEF Inv, TypeOK
<1>2. CASE \/ \E c \in Cancellable : Abort(c)
           \/ Stop
  <2>1. PICK S \in SUBSET Cmds, stop \in BOOLEAN : Interrupt(S, stop)
    <3>1. CASE \E c \in Cancellable : Abort(c)
      <4>1. PICK c \in Cancellable : Interrupt({c}, FALSE)
        BY <3>1 DEF Abort
      <4>2. {c} \in SUBSET Cmds
        BY DEF Cancellable, Cmds
      <4>. QED
        BY <4>1, <4>2
    <3>2. CASE Stop
      <4>1. Interrupt({controller} \ {None}, TRUE) /\ {controller} \ {None} \in SUBSET Cmds
        BY <3>2 DEF Stop, Inv, TypeOK, Cancellable, Cmds
      <4>. QED
        BY <4>1
    <3>. QED
      BY <1>2, <3>1, <3>2
  <2>. QED
    BY <2>1, InterruptExecutes
<1>3. CASE \E p \in Prompts : SubmitCommand(p) \/ AdmitPrompt(p) \/ Compact(p)
  <2>1. PICK p \in Prompts : SubmitCommand(p) \/ AdmitPrompt(p) \/ Compact(p)
    BY <1>3
  <2>2. p \in Cmds
    BY DEF Cmds
  <2>3. \/ Submit(p, reservation)
        \/ Submit(p, p) /\ ~drainActive /\ ~hasPending /\ lease = None
    BY <2>1 DEF SubmitCommand, AdmitPrompt, Compact, StartInBackground, hasActiveOrQueuedTurnWork
  <2>. QED
    BY <2>2, <2>3, SubmitKeepsScheduler
<1>4. CASE \E p \in Prompts, requireQueue \in BOOLEAN : DeferPrompt(p, requireQueue)
  BY <1>1, <1>4, OutsideStep DEF DeferPrompt, Waiting, Settled
<1>5. CASE \E c \in Wakes : DropLateWake(c)
  BY <1>1, <1>5, OutsideStep DEF DropLateWake, Waiting, Settled
<1>6. CASE (\E c \in Wakes : PostWake(c)) \/ \E c \in Controls : PostControl(c)
  <2>1. PICK c \in Cmds : /\ where[c] = "new" /\ Enqueue(c, lease, reservation)
                          /\ UNCHANGED <<activeTurn, snapshot>>
    BY <1>6 DEF PostWake, PostControl, Wakes, Cmds
  <2>. QED
    BY <2>1, EnqueueKeepsScheduler
<1>7. CASE CancelOffPeak
  BY <1>1, <1>7, OutsideStep DEF CancelOffPeak, queue, Waiting, Settled
<1>8. CASE \/ \E g \in Goals : RequestGoal(g)
           \/ \E p \in Promoted, mode \in {"after-current", "idle-only"} : AcquireLease(p, mode)
           \/ \E c \in Replayed, edit \in BOOLEAN : RequestReplay(c, edit)
  BY <1>8 DEF RequestGoal, AcquireLease, RequestReplay, queueVars
<1>. QED
  BY <1>2, <1>3, <1>4, <1>5, <1>6, <1>7, <1>8 DEF CallerStep

LEMMA HolderStepExecutes ==
  ASSUME Inv, NEW c \in Cancellable, HolderStep(c)
  PROVE  where' = where \/ ExecutorStep
<1>1. c \in Cmds
  BY DEF Cancellable, Cmds
<1>2. CASE Preempt(c)
  <2>. DEFINE stops == foreground # None /\ ~foreground.aborted
              hit == IF stops THEN {} ELSE {controller} \ {None}
  <2>1. Interrupt(hit, stops) /\ hit \in SUBSET Cmds /\ stops \in BOOLEAN
    BY <1>2 DEF Preempt, Inv, TypeOK, Executions, Cancellable, Cmds
  <2>. HIDE DEF hit, stops
  <2>. QED
    BY <2>1, InterruptExecutes
<1>3. CASE PromotePrompt(c)
  <2>1. Submit(c, c) /\ c \in Prompts /\ ~drainActive /\ ~hasPending /\ lease = c
    BY <1>3 DEF PromotePrompt, hasActiveOrQueuedTurnWork, promotionLeaseOnly, Inv, LeaseIsOwned
  <2>. QED
    BY <1>1, <2>1, SubmitKeepsScheduler
<1>4. CASE PromoteCompact(c) \/ StartGoal(c)
  <2>1. Submit(c, reservation)
    BY <1>4 DEF PromoteCompact, StartGoal, StartInBackground
  <2>. QED
    BY <1>1, <2>1, SubmitKeepsScheduler
<1>5. CASE ReleaseLease(c)
  <2>1. CASE lease = c /\ ~drainActive
    <3>1. Drain(queue, arrival, generation, None, reservation)
      BY <1>5, <2>1 DEF ReleaseLease
    <3>2. /\ queue \in SUBSET Cmds /\ None \in Promoted \cup {None} /\ queue \subseteq queue
          /\ reservation = None /\ activeTurn = None /\ NothingRuns
          /\ arrival \in [Cmds -> Nat] /\ generation \in [Cmds -> Nat]
          /\ where \in [Cmds -> Places] /\ cancelPending \subseteq Cmds
      BY <2>1 DEF queue, drainActive, Inv, TypeOK, TurnPhases, RunningInPhase, NothingRuns, batch
    <3>3. DrainOutcome(queue, None)
      BY <3>1, <3>2, DrainEffect
    <3>. QED
      BY <3>2, <3>3, DrainExecutes DEF queue, Waiting
  <2>2. CASE ~(lease = c /\ ~drainActive)
    BY <1>5, <2>2 DEF ReleaseLease
  <2>. QED
    BY <2>1, <2>2
<1>6. CASE SessionIdle(c) \/ GiveUp(c) \/ PromotionRejected(c) \/ PromoteGoal(c)
  BY <1>6 DEF SessionIdle, GiveUp, PromotionRejected, PromoteGoal, queueVars
<1>7. CASE ReplayPlans(c) \/ ReplayCuts(c) \/ ReplayEnds(c)
  BY <1>7 DEF ReplayPlans, ReplayCuts, ReplayEnds, queueVars
<1>. QED
  BY <1>2, <1>3, <1>4, <1>5, <1>6, <1>7 DEF HolderStep

LEMMA InitMapsToInit == Init => Executor!Init
BY DEF Init, Executor!Init, stage

\* Under the mapping, a step of the executor is one of its actions.
LEMMA ExecutorStepMaps ==
  ASSUME where \in [Cmds -> Places], where' \in [Cmds -> Places], ExecutorStep
  PROVE  Executor!Begin \/ Executor!Continue
<1>1. Executor!running = executing /\ Executor!running' = executing'
  BY DEF Executor!running, executing, stage
<1>2. stage' \in [Cmds -> Executor!Stages]
  BY DEF stage, Executor!Stages
<1>3. \A c \in Cmds : stage'[c] # stage[c] => <<stage[c], stage'[c]>> \in Executor!Forward
  <2>. SUFFICES ASSUME NEW c \in Cmds, stage'[c] # stage[c]
                PROVE  <<stage[c], stage'[c]>> \in Executor!Forward
    OBVIOUS
  <2>1. where'[c] # where[c] /\ where[c] \in Places /\ where'[c] \in Places
    BY DEF stage
  <2>2. CASE where[c] = "new"
    BY <2>1, <2>2 DEF stage, Executor!Forward
  <2>3. CASE where[c] = "queued" /\ where'[c] # "new"
    BY <2>1, <2>3 DEF stage, Executor!Forward
  <2>4. CASE c \in executing /\ where'[c] \in {"running", "absorbing"} \cup Settled
    BY <2>1, <2>4 DEF stage, Executor!Forward, executing, Settled
  <2>. QED
    BY <2>1, <2>2, <2>3, <2>4 DEF ExecutorStep
<1>4. Executor!Advance
  BY <1>2, <1>3 DEF Executor!Advance
<1>. QED
  BY <1>1, <1>4 DEF ExecutorStep, Executor!Begin, Executor!Continue

LEMMA NextMapsToExecutor == Inv /\ Inv' /\ [Next]_vars => [Executor!Begin \/ Executor!Continue]_stage
<1>. SUFFICES ASSUME Inv, Inv', [Next]_vars
              PROVE  [Executor!Begin \/ Executor!Continue]_stage
  OBVIOUS
<1>1. where' = where \/ ExecutorStep
  BY DrainStepExecutes, CallerStepExecutes, HolderStepExecutes DEF Next, vars, queueVars
<1>2. CASE where' = where
  BY <1>2 DEF stage
<1>3. CASE ExecutorStep
  BY <1>3, ExecutorStepMaps DEF Inv, TypeOK
<1>. QED
  BY <1>1, <1>2, <1>3

\* The command queue implements the serial executor: no command of a session is
\* executed twice or after it settled, executions never overlap, and only wakes
\* share an execution or join one (drainRuntimeCommandQueue, runRuntimeCommand and
\* drainPendingRuntimeCommandsForActiveLoop together).
THEOREM ImplementsSerialExecutor == Spec => IsSerialExecutor
<1>1. Spec => Executor!Init
  BY InitMapsToInit DEF Spec
<1>2. Spec => [][Executor!Begin \/ Executor!Continue]_stage
  BY Invariance, NextMapsToExecutor, PTL DEF Spec
<1>. QED
  BY <1>1, <1>2, PTL DEF IsSerialExecutor, Executor!Spec
=============================================================================
