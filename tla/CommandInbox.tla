---------------------------- MODULE CommandInbox ----------------------------
(***************************************************************************)
(* Command admission and lookup for one session of the CLI: CommandInbox   *)
(* with the gateway's handleCommand and queryCommands around it, the       *)
(* session_input ledger, the transcript and command facts it falls back    *)
(* on, the lazy PersistentCommandIndex over them, and the runtime events   *)
(* that move an admitted input on.                                         *)
(*                                                                         *)
(* A request is one v4/command or v4/commands/query call.  It may be       *)
(* repeated for the same command any number of times: the client retries   *)
(* when an acknowledgement is lost.  One action is the code between two    *)
(* awaits of one coroutine.  The final promise of a command in flight is   *)
(* delivered to the request that joined it by the action that settles it.  *)
(*                                                                         *)
(* The four durable lookups of one request read one index: the facts of a  *)
(* command do not change while its key gate is held and it is in no memory *)
(* table, so reading them one by one would find the same.                  *)
(***************************************************************************)
EXTENDS Naturals, Sequences, FiniteSets

CONSTANTS
  Inputs,         \* commands that admit an input which becomes a user message
  Compacts,       \* compact commands: admitted too, but without a message
  Plain,          \* history management such as renameSession: no durable input
  Requests,       \* concurrent calls
  Limit,          \* idempotencyTablePerSession, the size of the settled table
  MaxCrashes,     \* bound on the number of process crashes
  StoreFails,     \* whether reading the store may fail
  SessionResume,  \* whether session/resume is called, which has no READY gate
  None

Cmds == Inputs \cup Compacts \cup Plain
Durable == Inputs \cup Compacts
Acks == {"accepted", "failed", "noop"}
Answers == Acks \cup {"duplicate", "rejected", "unknown", "unavailable"}
Facts == [transcript : SUBSET Inputs, timeline : SUBSET Compacts,
          discarded : SUBSET Durable]
Executing == {"admit", "execute", "cancel", "settle"}
InTurn == {"turn", "compacting", "promoting", "recording", "removing"}

ASSUME KindsAreDisjoint ==
  /\ Inputs \cap Compacts = {}
  /\ Durable \cap Plain = {}
ASSUME LimitIsPositive == Limit \in Nat \ {0}
ASSUME CrashesAreBounded == MaxCrashes \in Nat
ASSUME SwitchesAreBoolean == {StoreFails, SessionResume} \subseteq BOOLEAN
ASSUME NoneIsNoValue ==
  /\ None \notin Cmds \cup Requests \cup Answers \cup {"miss", "error"}
  /\ None \notin BOOLEAN

ASSUME FactsAreNoNames == Facts \cap (Requests \cup {None}) = {}

VARIABLES
  pc,           \* where each request awaits
  subject,      \* the command it is about
  querying,     \* TRUE for commands/query
  found,        \* what its lookup brought: an ack, "miss" or "error"; before
                \*   that, the load it waits for
  answer,       \* what it is answered with, until it returns
  keyGate,      \* per command, the FIFO of requests on its key gate
  sessionGate,  \* the FIFO of requests on the session's admission gate
  live,         \* per command, the ack its live-input pin carries, or None
  settled,      \* the settled table, least recently used first
  index,        \* PersistentCommandIndex: None, its facts, or the load under
                \*   way, named by the request that started it
  sweeping,     \* per load: None, or whether it discards admitted rows
  row,          \* status of each command's session_input row (durable)
  timeline,     \* commands with a timeline command fact (durable)
  resident,     \* whether the session is registered in memory
  resuming,     \* "no", or which resume is under way
  work,         \* what the runtime does for each admitted command
  taken,        \* how often the execution of each command was accepted
  crashes       \* crashes so far

requestVars == <<pc, subject, querying, found, answer>>
gateVars == <<keyGate, sessionGate>>
memoryVars == <<live, settled>>
indexVars == <<index, sweeping>>
ledgerVars == <<row, timeline>>
sessionVars == <<resident, resuming>>
runtimeVars == <<work, taken>>
vars == <<requestVars, gateVars, memoryVars, indexVars, ledgerVars,
          sessionVars, runtimeVars, crashes>>


-----------------------------------------------------------------------------
\* Derived state.

\* inFlight: pinned from the decision to execute until settle.
InFlight == {subject[r] : r \in {q \in Requests : pc[q] \in Executing}}

Pinned(c) == c \in InFlight \/ live[c] # None

HoldsKey(r) == subject[r] # None /\ keyGate[subject[r]] # <<>>
               /\ Head(keyGate[subject[r]]) = r
HoldsSession(r) == sessionGate # <<>> /\ Head(sessionGate) = r

\* Mutant: only a cancelled row counts as discarded.
FactsOfCancelled(ledger, marks) ==
  [transcript |-> {c \in Inputs : ledger[c] = "promoted"},
   timeline   |-> marks,
   discarded  |-> {c \in Durable : ledger[c] = "cancelled"}]

\* loadPersistentCommandFacts over a ledger and the command facts.
FactsOf(ledger, marks) ==
  [transcript |-> {c \in Inputs : ledger[c] = "promoted"},
   timeline   |-> marks,
   discarded  |-> {c \in Durable : ledger[c] \in {"cancelled", "discarded"}}]

\* Mutant: a discarded row is believed before a timeline fact.
FactInLedgerFirst(facts, c) ==
  IF c \in facts.transcript THEN "accepted"
  ELSE IF c \in facts.discarded THEN "failed"
  ELSE IF c \in facts.timeline THEN "accepted" ELSE "miss"

\* The order of lookupExact: transcript, timeline, discarded.
FactIn(facts, c) ==
  IF c \in facts.transcript \cup facts.timeline THEN "accepted"
  ELSE IF c \in facts.discarded THEN "failed" ELSE "miss"

\* What a restart or a lookup of an unregistered session does to the ledger.
Swept(ledger) ==
  [c \in Cmds |-> IF ledger[c] = "admitted" THEN "discarded" ELSE ledger[c]]

\* Mutant: every load discards, as at process start.
DiscardsAlways == TRUE

\* Whether a load discards admitted rows: only while no runtime may own them.
DiscardsOnLoad == ~resident

\* The settled table as a least-recently-used sequence.
Knows(table, c) == \E i \in DOMAIN table : table[i].cmd = c
Place(table, c) == CHOOSE i \in DOMAIN table : table[i].cmd = c
Without(table, c) ==
  IF Knows(table, c)
    THEN SubSeq(table, 1, Place(table, c) - 1)
         \o SubSeq(table, Place(table, c) + 1, Len(table))
    ELSE table

\* Mutant: one entry too many is kept.
RememberOneMore(table, c, ack) ==
  LET grown == Append(Without(table, c), [cmd |-> c, ack |-> ack])
  IN IF Len(grown) > Limit + 1 THEN Tail(grown) ELSE grown

Remember(table, c, ack) ==
  LET grown == Append(Without(table, c), [cmd |-> c, ack |-> ack])
  IN IF Len(grown) > Limit THEN Tail(grown) ELSE grown
Remembered(c) == Knows(settled, c)
SettledAck(c) == settled[Place(settled, c)].ack

\* Mutant: a repetition is answered like the first try.
RetryAckSame(r, ack) == ack

\* retryAck: a failure stays a failure, anything else reads "duplicate".
RetryAck(r, ack) ==
  IF querying[r] \/ ack = "failed" THEN ack ELSE "duplicate"

-----------------------------------------------------------------------------
\* Requests: gates and lookup.

\* A call arrives.  A READY flight is awaited before the inbox is entered;
\* deactivation is excluded by the operation lease around every call.
Arrive(r, c, query) ==
  /\ pc[r] = "idle"
  /\ resuming # "ready"
  /\ pc' = [pc EXCEPT ![r] = "key"]
  /\ subject' = [subject EXCEPT ![r] = c]
  /\ querying' = [querying EXCEPT ![r] = query]
  /\ keyGate' = [keyGate EXCEPT ![c] = Append(@, r)]
  /\ UNCHANGED <<found, answer, sessionGate, memoryVars, indexVars,
                 ledgerVars, sessionVars, runtimeVars, crashes>>

\* A request stands at a gate it holds, about to look its command up.
AtLookup(r) ==
  \/ pc[r] = "key" /\ HoldsKey(r)
  \/ pc[r] = "gate" /\ HoldsSession(r)

\* The command is executing: wait for its final promise.
JoinFlight(r) ==
  /\ AtLookup(r)
  /\ subject[r] \in InFlight
  /\ pc' = [pc EXCEPT ![r] = "joined"]
  /\ UNCHANGED <<subject, querying, found, answer, gateVars, memoryVars,
                 indexVars, ledgerVars, sessionVars, runtimeVars, crashes>>

\* Mutant: the live table is looked up before inFlight.
FindNowLiveFirst(r) ==
  LET c == subject[r] IN
  /\ AtLookup(r)
  /\ \/ /\ live[c] # None
        /\ found' = [found EXCEPT ![r] = live[c]]
        /\ UNCHANGED settled
     \/ /\ live[c] = None /\ Remembered(c) /\ c \notin InFlight
        /\ found' = [found EXCEPT ![r] = SettledAck(c)]
        /\ settled' = Remember(settled, c, SettledAck(c))
     \/ /\ live[c] = None /\ ~Remembered(c) /\ c \notin InFlight
        /\ index \in Facts
        /\ found' = [found EXCEPT ![r] = FactIn(index, c)]
        /\ UNCHANGED settled
  /\ pc' = [pc EXCEPT ![r] = "looked"]
  /\ UNCHANGED <<subject, querying, answer, gateVars, live, indexVars,
                 ledgerVars, sessionVars, runtimeVars, crashes>>

\* The command is in a memory table, or the loaded index decides.
FindNow(r) ==
  LET c == subject[r] IN
  /\ AtLookup(r)
  /\ c \notin InFlight
  /\ \/ /\ live[c] # None
        /\ found' = [found EXCEPT ![r] = live[c]]
        /\ UNCHANGED settled
     \/ /\ live[c] = None /\ Remembered(c)
        /\ found' = [found EXCEPT ![r] = SettledAck(c)]
        /\ settled' = Remember(settled, c, SettledAck(c))
     \/ /\ live[c] = None /\ ~Remembered(c)
        /\ index \in Facts
        /\ found' = [found EXCEPT ![r] = FactIn(index, c)]
        /\ UNCHANGED settled
  /\ pc' = [pc EXCEPT ![r] = "looked"]
  /\ UNCHANGED <<subject, querying, answer, gateVars, live, indexVars,
                 ledgerVars, sessionVars, runtimeVars, crashes>>

\* No memory of it: await the index, starting its load if there is none.
\* Whether the load discards admitted rows is fixed here, before it reads.
AwaitIndex(r) ==
  LET c == subject[r] IN
  /\ AtLookup(r)
  /\ c \notin InFlight /\ live[c] = None /\ ~Remembered(c)
  /\ index \notin Facts
  /\ IF index = None
       THEN /\ index' = r
            /\ sweeping' = [sweeping EXCEPT ![r] = DiscardsOnLoad]
            /\ found' = [found EXCEPT ![r] = r]
       ELSE /\ found' = [found EXCEPT ![r] = index]
            /\ UNCHANGED indexVars
  /\ pc' = [pc EXCEPT ![r] = "load"]
  /\ UNCHANGED <<subject, querying, answer, gateVars, memoryVars, ledgerVars,
                 sessionVars, runtimeVars, crashes>>

Waiters(o) == {r \in Requests : pc[r] = "load" /\ found[r] = o}

\* A load reads the store.  Its waiters get what it read even if the index
\* was invalidated meanwhile; the index itself only if it was not.
LoadDone(o) ==
  /\ sweeping[o] # None
  /\ row' = IF sweeping[o] THEN Swept(row) ELSE row
  /\ LET facts == FactsOf(row', timeline) IN
     /\ found' = [r \in Requests |->
          IF r \in Waiters(o) THEN FactIn(facts, subject[r]) ELSE found[r]]
     /\ index' = IF index = o THEN facts ELSE index
  /\ pc' = [r \in Requests |-> IF r \in Waiters(o) THEN "looked" ELSE pc[r]]
  /\ sweeping' = [sweeping EXCEPT ![o] = None]
  /\ UNCHANGED <<subject, querying, answer, gateVars, memoryVars, timeline,
                 sessionVars, runtimeVars, crashes>>

\* Mutant: a failed load is reported only to the request that began it.
LoadFailsForOne(o) ==
  /\ StoreFails
  /\ sweeping[o] # None
  /\ found' = [found EXCEPT ![o] = "error"]
  /\ index' = IF index = o THEN None ELSE index
  /\ pc' = [pc EXCEPT ![o] = "looked"]
  /\ sweeping' = [sweeping EXCEPT ![o] = None]
  /\ UNCHANGED <<subject, querying, answer, gateVars, memoryVars, ledgerVars,
                 sessionVars, runtimeVars, crashes>>

\* A failed load is not cached.
LoadFails(o) ==
  /\ StoreFails
  /\ sweeping[o] # None
  /\ found' = [r \in Requests |->
       IF r \in Waiters(o) THEN "error" ELSE found[r]]
  /\ index' = IF index = o THEN None ELSE index
  /\ pc' = [r \in Requests |-> IF r \in Waiters(o) THEN "looked" ELSE pc[r]]
  /\ sweeping' = [sweeping EXCEPT ![o] = None]
  /\ UNCHANGED <<subject, querying, answer, gateVars, memoryVars, ledgerVars,
                 sessionVars, runtimeVars, crashes>>

-----------------------------------------------------------------------------
\* Answers.  Every answered request gives up the gates it still holds.

\* A gate whose holder is among rs passes to the request next in line.
PassOn(gate, rs) ==
  IF gate # <<>> /\ Head(gate) \in rs THEN Tail(gate) ELSE gate

\* The requests rs are answered with what reply assigns them.
Reply(rs, reply) ==
  /\ pc' = [r \in Requests |-> IF r \in rs THEN "answered" ELSE pc[r]]
  /\ answer' = [r \in Requests |-> IF r \in rs THEN reply[r] ELSE answer[r]]
  /\ keyGate' = [c \in Cmds |-> PassOn(keyGate[c], rs)]
  /\ sessionGate' = PassOn(sessionGate, rs)

\* A hit, an error, or a query's miss ends the call.
Found(r) ==
  /\ pc[r] = "looked"
  /\ found[r] # "miss" \/ querying[r]
  /\ Reply({r}, [q \in {r} |->
       CASE found[r] = "error" -> "unavailable"
         [] found[r] = "miss"  -> "unknown"
         [] OTHER              -> RetryAck(r, found[r])])
  /\ found' = [found EXCEPT ![r] = None]
  /\ UNCHANGED <<subject, querying, memoryVars, indexVars, ledgerVars,
                 sessionVars, runtimeVars, crashes>>

\* Mutant: the session gate is not taken.
MissedUngated(r) ==
  /\ pc[r] = "looked"
  /\ found[r] = "miss" /\ ~querying[r]
  /\ pc' = [pc EXCEPT ![r] = IF subject[r] \in Plain THEN "prepare" ELSE "decide"]
  /\ found' = [found EXCEPT ![r] = None]
  /\ UNCHANGED <<subject, querying, answer, gateVars, memoryVars, indexVars,
                 ledgerVars, sessionVars, runtimeVars, crashes>>

\* A first miss queues for the session gate; a second one, made while
\* holding it, goes on to the decision.
Missed(r) ==
  /\ pc[r] = "looked"
  /\ found[r] = "miss" /\ ~querying[r]
  /\ IF HoldsSession(r)
       THEN /\ pc' = [pc EXCEPT ![r] = IF subject[r] \in Plain
                                       THEN "prepare" ELSE "decide"]
            /\ UNCHANGED sessionGate
       ELSE /\ pc' = [pc EXCEPT ![r] = "gate"]
            /\ sessionGate' = Append(sessionGate, r)
  /\ found' = [found EXCEPT ![r] = None]
  /\ UNCHANGED <<subject, querying, answer, keyGate, memoryVars, indexVars,
                 ledgerVars, sessionVars, runtimeVars, crashes>>

\* The caller takes the answer; the call is over.
Return(r) ==
  /\ pc[r] = "answered"
  /\ pc' = [pc EXCEPT ![r] = "idle"]
  /\ subject' = [subject EXCEPT ![r] = None]
  /\ querying' = [querying EXCEPT ![r] = FALSE]
  /\ answer' = [answer EXCEPT ![r] = None]
  /\ UNCHANGED <<found, gateVars, memoryVars, indexVars, ledgerVars,
                 sessionVars, runtimeVars, crashes>>

-----------------------------------------------------------------------------
\* Decision and execution, under the session gate.

\* prepareDecision: a session management command resumes a cold session,
\* or waits for the resume that already does.
Prepare(r) ==
  /\ pc[r] = "prepare"
  /\ \/ /\ (resuming = "ready") \/ (resuming = "legacy" /\ ~resident)
        /\ pc' = [pc EXCEPT ![r] = "cold"]
        /\ UNCHANGED resuming
     \/ /\ resuming # "ready" /\ resident
        /\ pc' = [pc EXCEPT ![r] = "decide"]
        /\ UNCHANGED resuming
     \/ /\ resuming = "no" /\ ~resident
        /\ pc' = [pc EXCEPT ![r] = "cold"]
        /\ resuming' = "ready"
  /\ UNCHANGED <<subject, querying, found, answer, gateVars, memoryVars,
                 indexVars, ledgerVars, resident, runtimeVars, crashes>>

\* decide refuses: no session, a stale revision or target.  Not remembered.
Reject(r) ==
  /\ pc[r] = "decide"
  /\ Reply({r}, [q \in {r} |-> "rejected"])
  /\ UNCHANGED <<subject, querying, found, memoryVars, indexVars, ledgerVars,
                 sessionVars, runtimeVars, crashes>>

\* decide allows: the command is in flight, and only now is its key free.
Accept(r) ==
  /\ pc[r] = "decide"
  /\ resident
  /\ pc' = [pc EXCEPT ![r] = IF subject[r] \in Durable
                             THEN "admit" ELSE "execute"]
  /\ keyGate' = [keyGate EXCEPT ![subject[r]] = PassOn(@, {r})]
  /\ UNCHANGED <<subject, querying, found, answer, sessionGate, memoryVars,
                 indexVars, ledgerVars, sessionVars, runtimeVars, crashes>>

\* admitInputCommand writes the row, a repeated one keeping its status, and
\* pinLiveInput takes the command over from the settled table.
Admit(r) ==
  LET c == subject[r] IN
  /\ pc[r] = "admit"
  /\ row' = [row EXCEPT ![c] = IF @ = "none" THEN "admitted" ELSE @]
  /\ live' = [live EXCEPT ![c] = "accepted"]
  /\ settled' = Without(settled, c)
  /\ pc' = [pc EXCEPT ![r] = "execute"]
  /\ UNCHANGED <<subject, querying, found, answer, gateVars, indexVars,
                 timeline, sessionVars, runtimeVars, crashes>>

\* executeCommand starts a turn or a compact, queues the input behind the
\* active turn, or does a plain command's work.
Execute(r) ==
  LET c == subject[r] IN
  /\ pc[r] = "execute"
  /\ pc' = [pc EXCEPT ![r] = "settle"]
  /\ \/ /\ c \in Plain
        /\ UNCHANGED runtimeVars
     \/ /\ c \in Durable
        /\ \E begun \in {"queued", IF c \in Inputs THEN "turn" ELSE "compacting"} :
             work' = [work EXCEPT ![c] = begun]
        /\ taken' = [taken EXCEPT ![c] = IF @ = 2 THEN 2 ELSE @ + 1]
  /\ UNCHANGED <<subject, querying, found, answer, gateVars, memoryVars,
                 indexVars, ledgerVars, sessionVars, crashes>>

\* executeCommand throws: an admitted input has to be cancelled first.
ExecuteFails(r) ==
  /\ pc[r] = "execute"
  /\ subject[r] \in Durable
  /\ pc' = [pc EXCEPT ![r] = "cancel"]
  /\ UNCHANGED <<subject, querying, found, answer, gateVars, memoryVars,
                 indexVars, ledgerVars, sessionVars, runtimeVars, crashes>>

\* Mutant: those who joined are let out of the gates but never answered.
DeliverToOwner(r, ack) ==
  LET joined == {q \in Requests : pc[q] = "joined" /\ subject[q] = subject[r]}
  IN /\ pc' = [pc EXCEPT ![r] = "answered"]
     /\ answer' = [answer EXCEPT ![r] = ack]
     /\ keyGate' = [c \in Cmds |-> PassOn(keyGate[c], {r} \cup joined)]
     /\ sessionGate' = PassOn(sessionGate, {r})

\* The final promise: whoever joined the flight gets the final ack, and the
\* session gate passes on.
Deliver(r, ack) ==
  LET joined == {q \in Requests : pc[q] = "joined" /\ subject[q] = subject[r]}
  IN Reply({r} \cup joined,
           [q \in {r} \cup joined |-> IF q = r THEN ack ELSE RetryAck(q, ack)])

\* Mutant: settle retires the pin of an input that is still queued.
SettleUnpinned(r) ==
  /\ pc[r] = "settle"
  /\ settled' = Remember(settled, subject[r], "accepted")
  /\ live' = [live EXCEPT ![subject[r]] = None]
  /\ Deliver(r, "accepted")
  /\ UNCHANGED <<subject, querying, found, indexVars, ledgerVars, sessionVars,
                 runtimeVars, crashes>>

\* settle of a success: a live pin keeps it, otherwise the settled table.
Settle(r) ==
  LET c == subject[r] IN
  /\ pc[r] = "settle"
  /\ IF live[c] # None
       THEN /\ live' = [live EXCEPT ![c] = "accepted"]
            /\ UNCHANGED settled
       ELSE /\ settled' = Remember(settled, c, "accepted")
            /\ UNCHANGED live
  /\ Deliver(r, "accepted")
  /\ UNCHANGED <<subject, querying, found, indexVars, ledgerVars, sessionVars,
                 runtimeVars, crashes>>

\* releaseLiveInput and settle with a final that is not a success.
SettleWith(r, ack) ==
  /\ live' = [live EXCEPT ![subject[r]] = None]
  /\ settled' = Remember(settled, subject[r], ack)
  /\ Deliver(r, ack)

\* A durable command fails: at admission, before its row is written, or in
\* its execution, when the row is cancelled unless that write fails as well.
SettleFailed(r) ==
  LET c == subject[r] IN
  /\ \/ pc[r] = "admit" /\ UNCHANGED row
     \/ /\ pc[r] = "cancel"
        /\ row' = [row EXCEPT ![c] = IF @ = "admitted" THEN "cancelled" ELSE @]
     \/ pc[r] = "cancel" /\ StoreFails /\ UNCHANGED row
  /\ SettleWith(r, "failed")
  /\ UNCHANGED <<subject, querying, found, indexVars, timeline, sessionVars,
                 runtimeVars, crashes>>

\* A plain command fails or finds nothing to do.
SettlePlain(r) ==
  /\ pc[r] = "execute"
  /\ subject[r] \in Plain
  /\ \E ack \in {"failed", "noop"} : SettleWith(r, ack)
  /\ UNCHANGED <<subject, querying, found, indexVars, ledgerVars, sessionVars,
                 runtimeVars, crashes>>

-----------------------------------------------------------------------------
\* The runtime: what becomes of an admitted input.

Progress(c, from, to) == work[c] = from /\ work' = [work EXCEPT ![c] = to]

\* A queued input's turn comes; its pin stays.
Drain(c) ==
  /\ Progress(c, "queued", IF c \in Inputs THEN "turn" ELSE "compacting")
  /\ UNCHANGED <<requestVars, gateVars, memoryVars, indexVars, ledgerVars,
                 sessionVars, taken, crashes>>

\* promoteSessionInput: message and row in one transaction, whatever the
\* row's status was.
Promote(c) ==
  /\ c \in Inputs
  /\ Progress(c, "turn", "promoting")
  /\ row' = [row EXCEPT ![c] = "promoted"]
  /\ UNCHANGED <<requestVars, gateVars, memoryVars, indexVars, timeline,
                 sessionVars, taken, crashes>>

\* A UserPromptSubmit hook, Stop or a failed preparation ends the turn
\* before its prompt is persisted.
Blocked(c) ==
  /\ c \in Inputs
  /\ Progress(c, "turn", "none")
  /\ UNCHANGED <<requestVars, gateVars, memoryVars, indexVars, ledgerVars,
                 sessionVars, taken, crashes>>

\* A queued input is removed by the user or discarded with its turn: the
\* row first, then the event.
Remove(c) ==
  /\ Progress(c, "queued", "removing")
  /\ row' = [row EXCEPT ![c] = IF @ = "admitted" THEN "cancelled" ELSE @]
  /\ UNCHANGED <<requestVars, gateVars, memoryVars, indexVars, timeline,
                 sessionVars, taken, crashes>>

\* Mutant: the release of the pin leaves the index as it was loaded.
InvalidateNothing == UNCHANGED indexVars

\* invalidatePersistentCommandFacts, which precedes releaseLiveInput.
Invalidate == index' = None /\ UNCHANGED sweeping

\* releaseLiveInput with the pin's own ack.
Release(c) ==
  /\ live' = [live EXCEPT ![c] = None]
  /\ settled' = IF live[c] = None THEN settled
                ELSE Remember(settled, c, live[c])

\* SessionInputPromoted or TurnSteerDiscarded reaches the gateway.
Announce(c) ==
  /\ work[c] \in {"promoting", "removing"}
  /\ work' = [work EXCEPT ![c] = "none"]
  /\ Invalidate
  /\ Release(c)
  /\ UNCHANGED <<requestVars, gateVars, ledgerVars, sessionVars, taken,
                 crashes>>

\* A compact ends, however it ends.
CompactOver(c) ==
  /\ c \in Compacts
  /\ Progress(c, "compacting", "recording")
  /\ UNCHANGED <<requestVars, gateVars, memoryVars, indexVars, ledgerVars,
                 sessionVars, taken, crashes>>

\* recordPersistentCommandFact: saved, and added to the index, which is
\* loaded for it if need be; a load under way reads the saved fact.
RecordFact(c) ==
  /\ Progress(c, "recording", "none")
  /\ timeline' = timeline \cup {c}
  /\ index' = IF index \in Requests THEN index
              ELSE IF index = None THEN FactsOf(row, timeline')
              ELSE [index EXCEPT !.timeline = @ \cup {c}]
  /\ UNCHANGED <<requestVars, gateVars, memoryVars, sweeping, row,
                 sessionVars, taken, crashes>>

\* The fact cannot be saved: a warning, no more.
RecordFails(c) ==
  /\ StoreFails
  /\ Progress(c, "recording", "none")
  /\ UNCHANGED <<requestVars, gateVars, memoryVars, indexVars, ledgerVars,
                 sessionVars, taken, crashes>>

-----------------------------------------------------------------------------
\* The session: resume, deactivation, crash.

BeginResume(how) ==
  /\ resuming = "no" /\ ~resident
  /\ resuming' = how
  /\ UNCHANGED <<requestVars, gateVars, memoryVars, indexVars, ledgerVars,
                 resident, runtimeVars, crashes>>

\* A request whose next steps need no input or output: the store is
\* synchronous SQLite behind async functions, a lookup runs in microtasks.
Runnable(r) ==
  AtLookup(r) \/ pc[r] \in {"load", "looked", "prepare", "decide"}

\* The record is registered before the runtime resumes.  The application is
\* built before that, so every request has run as far as microtasks take it.
Register ==
  /\ resuming # "no" /\ ~resident
  /\ \A r \in Requests : ~Runnable(r)
  /\ resident' = TRUE
  /\ UNCHANGED <<requestVars, gateVars, memoryVars, indexVars, ledgerVars,
                 resuming, runtimeVars, crashes>>

\* discardPersistedPendingSteerInputs, the last thing a resume writes; that it
\* cannot is a warning.
FinishResume ==
  /\ resuming # "no" /\ resident
  /\ resuming' = "no"
  /\ row' = Swept(row) \/ (StoreFails /\ UNCHANGED row)
  /\ pc' = [r \in Requests |-> IF pc[r] = "cold" THEN "decide" ELSE pc[r]]
  /\ UNCHANGED <<subject, querying, found, answer, gateVars, memoryVars,
                 indexVars, timeline, resident, runtimeVars, crashes>>

\* A resume that fails before it registers the record; the command that
\* waited for it cannot be decided.
ResumeFails ==
  /\ resuming # "no" /\ ~resident
  /\ resuming' = "no"
  /\ LET cold == {r \in Requests : pc[r] = "cold"} IN
       Reply(cold, [r \in cold |-> "unavailable"])
  /\ UNCHANGED <<subject, querying, found, memoryVars, indexVars, ledgerVars,
                 resident, runtimeVars, crashes>>

\* deactivateSessionRecord: no call, no pin, no queue, no work.  clearSession
\* drops the settled table; the index stays.
Deactivate ==
  /\ resident /\ resuming = "no"
  /\ \A r \in Requests : pc[r] = "idle"
  /\ \A c \in Cmds : ~Pinned(c) /\ work[c] = "none"
  /\ resident' = FALSE
  /\ settled' = <<>>
  /\ UNCHANGED <<requestVars, gateVars, live, indexVars, ledgerVars, resuming,
                 runtimeVars, crashes>>

\* The process dies and a new one starts; only the store survives.
Crash ==
  /\ crashes < MaxCrashes
  /\ crashes' = crashes + 1
  /\ pc' = [r \in Requests |-> "idle"]
  /\ subject' = [r \in Requests |-> None]
  /\ querying' = [r \in Requests |-> FALSE]
  /\ found' = [r \in Requests |-> None]
  /\ answer' = [r \in Requests |-> None]
  /\ keyGate' = [c \in Cmds |-> <<>>]
  /\ sessionGate' = <<>>
  /\ live' = [c \in Cmds |-> None]
  /\ settled' = <<>>
  /\ index' = None
  /\ sweeping' = [r \in Requests |-> None]
  /\ resident' = FALSE
  /\ resuming' = "no"
  /\ work' = [c \in Cmds |-> "none"]
  /\ UNCHANGED <<ledgerVars, taken>>

-----------------------------------------------------------------------------
\* The session is resident, no command has ever been given to it.
Init ==
  /\ pc = [r \in Requests |-> "idle"]
  /\ subject = [r \in Requests |-> None]
  /\ querying = [r \in Requests |-> FALSE]
  /\ found = [r \in Requests |-> None]
  /\ answer = [r \in Requests |-> None]
  /\ keyGate = [c \in Cmds |-> <<>>]
  /\ sessionGate = <<>>
  /\ live = [c \in Cmds |-> None]
  /\ settled = <<>>
  /\ index = None
  /\ sweeping = [r \in Requests |-> None]
  /\ row = [c \in Cmds |-> "none"]
  /\ timeline = {}
  /\ resident = TRUE
  /\ resuming = "no"
  /\ work = [c \in Cmds |-> "none"]
  /\ taken = [c \in Cmds |-> 0]
  /\ crashes = 0

\* What a request does once it has arrived.
Request(r) ==
  \/ JoinFlight(r) \/ FindNow(r) \/ AwaitIndex(r) \/ Found(r) \/ Missed(r)
  \/ Prepare(r) \/ Reject(r) \/ Accept(r) \/ Admit(r)
  \/ Execute(r) \/ ExecuteFails(r)
  \/ Settle(r) \/ SettleFailed(r) \/ SettlePlain(r)
  \/ Return(r)

Loading(o) == LoadDone(o) \/ LoadFails(o)

\* What the runtime does with a command that no user has to decide.
Runtime(c) ==
  \/ Drain(c) \/ Promote(c) \/ Blocked(c) \/ Announce(c)
  \/ CompactOver(c) \/ RecordFact(c) \/ RecordFails(c)

Resume == Register \/ FinishResume \/ ResumeFails

BeginAnyResume == \E how \in {"ready"} \cup (IF SessionResume THEN {"legacy"} ELSE {}) :
                    BeginResume(how)

Next ==
  \/ \E r \in Requests, c \in Cmds, query \in BOOLEAN : Arrive(r, c, query)
  \/ \E r \in Requests : Request(r)
  \/ \E o \in Requests : Loading(o)
  \/ \E c \in Durable : Runtime(c) \/ Remove(c)
  \/ BeginAnyResume
  \/ Resume
  \/ Deactivate
  \/ Crash

Spec == Init /\ [][Next]_vars

\* The event loop runs every continuation, the store answers every read, and
\* what the runtime began goes on by itself.
Fairness ==
  /\ \A r \in Requests : WF_vars(Request(r)) /\ WF_vars(Loading(r))
  /\ \A c \in Durable : WF_vars(Runtime(c))
  /\ WF_vars(Resume)

FairSpec == Spec /\ Fairness

-----------------------------------------------------------------------------
\* Type invariant.
TypeOK ==
  /\ pc \in [Requests -> {"idle", "key", "load", "looked", "joined", "gate",
                          "prepare", "cold", "decide", "answered"}
                         \cup Executing]
  /\ subject \in [Requests -> Cmds \cup {None}]
  /\ querying \in [Requests -> BOOLEAN]
  /\ found \in [Requests -> Acks \cup {"miss", "error", None} \cup Requests]
  /\ answer \in [Requests -> Answers \cup {None}]
  /\ keyGate \in [Cmds -> Seq(Requests)]
  /\ sessionGate \in Seq(Requests)
  /\ live \in [Cmds -> Acks \cup {None}]
  /\ settled \in Seq([cmd : Cmds, ack : Acks]) /\ Len(settled) <= Limit
  /\ index \in Facts \cup Requests \cup {None}
  /\ sweeping \in [Requests -> BOOLEAN \cup {None}]
  /\ row \in [Cmds -> {"none", "admitted", "promoted", "cancelled", "discarded"}]
  /\ timeline \in SUBSET Compacts
  /\ resident \in BOOLEAN
  /\ resuming \in {"no", "ready", "legacy"}
  /\ work \in [Cmds -> {"none", "queued"} \cup InTurn]
  /\ taken \in [Cmds -> 0..2]
  /\ crashes \in 0..MaxCrashes

\* The execution of an input or a compact is accepted at most once, however
\* often its command is retried, whatever the settled table has evicted, and
\* across deactivation, resume and crash.
OncePerCommand == \A c \in Durable : taken[c] <= 1

\* Until the durable facts show what became of it, an input the runtime works
\* on is pinned in memory: no eviction and no deactivation reaches it.
WorkIsPinned == \A c \in Durable : work[c] # "none" => Pinned(c)

\* The ledger sweep of a resume or of a lookup never discards an input that
\* the running process is working on.
SweepSparesWork == \A c \in Durable : row[c] = "discarded" => work[c] = "none"

\* Between the decision to execute and its settle, a session admits one
\* command; the requests joined to it hold its key gate.
OneInFlight ==
  /\ Cardinality({r \in Requests : pc[r] \in Executing}) <= 1
  /\ \A r \in Requests : pc[r] = "joined" => subject[r] \in InFlight

\* A command whose execution was accepted is never answered "unknown" again,
\* by a query or to a client that would send it once more.
NeverForgotten ==
  [][\A r \in Requests :
       answer[r] = None /\ answer'[r] = "unknown" =>
         subject[r] \in Plain \/ taken[subject[r]] = 0]_vars

\* "failed" is told of no input that has become a message, of no compact that
\* ran to its end, and of nothing the runtime is still working on.
FailedMeansFailed ==
  [][\A r \in Requests :
       answer[r] = None /\ answer'[r] = "failed" =>
         LET c == subject[r] IN
         /\ row[c] # "promoted"
         /\ c \notin timeline
         /\ work[c] = "none"]_vars

\* "accepted" and "duplicate" are told only of what was executed: a pin that is
\* set before the execution, or a row that is written before it, tells nobody so.
AcceptedWasExecuted ==
  [][\A r \in Requests :
       answer[r] = None /\ answer'[r] \in {"accepted", "duplicate"} =>
         subject[r] \in Plain \/ taken[subject[r]] > 0]_vars

\* Whom a call waits for, itself when its next step is its own: the first in the
\* line at its gate, who began the load, who executes the command.
WaitsFor(r) ==
  CASE pc[r] = "key"    -> Head(keyGate[subject[r]])
    [] pc[r] = "gate"   -> Head(sessionGate)
    [] pc[r] = "load"   -> found[r]
    [] pc[r] = "joined" -> CHOOSE q \in Requests :
                             pc[q] \in Executing /\ subject[q] = subject[r]
    [] OTHER            -> r

\* A call goes on by its own step, by the end of its load or by that of a resume.
CanProceed(r) ==
  \/ AtLookup(r)
  \/ pc[r] = "load" /\ found[r] = r /\ sweeping[r] # None
  \/ pc[r] = "cold" /\ resuming # "no"
  \/ pc[r] \in Executing \cup {"looked", "prepare", "decide", "answered"}

\* No calls wait for each other in a circle, or for one that will never go on:
\* from a key gate over the session gate and the index load it is three steps at
\* most to a call that goes on.
NoCircularWait ==
  \A r \in Requests : pc[r] # "idle" => CanProceed(WaitsFor(WaitsFor(WaitsFor(r))))

\* What the execution of each command has come to: nothing yet, work under way, a
\* durable fact, or none.
Fate(c) ==
  IF taken[c] = 0 THEN "open"
  ELSE IF row[c] = "promoted" \/ c \in timeline THEN "kept"
  ELSE IF work[c] # "none" THEN "running" ELSE "lost"

fate == [c \in Cmds |-> Fate(c)]
executing == [r \in Requests |-> pc[r] = "settle"]

Once == INSTANCE OnceOnly WITH Calls <- Requests

\* Gates, tables, index, ledger and resume together execute each command once, and
\* every answer agrees with what became of it, whatever was evicted or has crashed.
ImplementsOnceOnly == Once!Spec

\* Every call is answered and returns, whoever waits on whom: key gates,
\* session gate, index loads, final promises and READY flights.
EveryCallReturns == \A r \in Requests : pc[r] # "idle" ~> pc[r] = "idle"

-----------------------------------------------------------------------------
\* What the repository says and its code does not do.

\* "The pin is released when the input enters the transcript, is cancelled or
\* fails": the live pin of an input does not outlive its work.
PinIsReleased == \A c \in Durable : live[c] # None ~> live[c] = None

\* "cancelled is a durable terminal fact as well": a command whose row was
\* cancelled is not executed again after the settled table has lost it.
CancelledStaysCancelled ==
  [][\A c \in Durable : taken'[c] # taken[c] => row[c] # "cancelled"]_vars
=============================================================================
