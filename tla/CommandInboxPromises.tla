----------------------- MODULE CommandInboxPromises -----------------------
(* What CommandInbox promises whoever calls it, for every set of commands    *)
(* and of concurrent calls, every size of the settled table and every number *)
(* of crashes: that no calls wait for each other in a circle, that only what *)
(* was executed is acknowledged, and, with a store that answers and no       *)
(* resume outside the READY gate, that it implements OnceOnly.               *)
EXTENDS CommandInboxProofs

-----------------------------------------------------------------------------
(* The invariant, next to that of CommandInboxProofs.                       *)

\* A call without a command is idle, an answer is there until it is taken, and only
\* a command goes past its first lookup.
TalkAt(r) ==
  /\ pc[r] = "idle" => subject[r] = None
  /\ answer[r] # None <=> pc[r] = "answered"
  /\ pc[r] \in {"gate", "prepare", "cold", "decide"} \cup Executing => ~querying[r]

Talk == \A r \in Requests : TalkAt(r)

\* What a call waits for without a gate is under way: a load, a resume.
Served ==
  /\ \A r \in Requests :
       /\ pc[r] = "load" => found[r] \in Requests /\ sweeping[found[r]] # None
       /\ pc[r] = "cold" => resuming # "no"
  /\ index \in Requests => sweeping[index] # None

\* Who waits at a gate stands in its line.
StandsIn(gate, r) == \E i \in DOMAIN gate : gate[i] = r

InLine ==
  \A r \in Requests : /\ pc[r] = "key" => StandsIn(keyGate[subject[r]], r)
                      /\ pc[r] = "gate" => StandsIn(sessionGate, r)

Executed(c) == taken[c] > 0

\* The memory tables, the index and the store tell of an acceptance only where the
\* execution was accepted; a pin may precede it as long as the command is in flight.
EarnedAt(r) ==
  subject[r] \in Durable =>
    /\ pc[r] = "settle" => Executed(subject[r])
    /\ pc[r] = "looked" => found[r] # "noop" /\ (found[r] = "accepted" => Executed(subject[r]))

EntryEarned(e) ==
  e.cmd \in Durable => e.ack # "noop" /\ (e.ack = "accepted" => Executed(e.cmd))

EffectEarned(c) ==
  /\ row[c] = "promoted" \/ c \in timeline \/ work[c] # "none" => Executed(c)
  /\ live[c] # None /\ c \notin InFlight => Executed(c)
  /\ index \in Facts /\ c \in index.transcript \cup index.timeline => Executed(c)

Earned ==
  /\ \A r \in Requests : EarnedAt(r)
  /\ \A i \in DOMAIN settled : EntryEarned(settled[i])
  /\ \A c \in Durable : EffectEarned(c)

-----------------------------------------------------------------------------
(* Calls and their answers.                                                 *)

\* No answer is None.
LEMMA AnswersAreSome ==
  /\ None \notin Answers
  /\ None \notin Acks
  /\ \A a \in {"unavailable", "unknown", "rejected", "duplicate", "accepted", "failed", "noop"} :
       a \in Answers /\ a # None
BY NoneIsNoValue DEF Answers, Acks

\* Who is answered has an answer.
LEMMA ReplyTalk ==
  ASSUME TypeOK, Talk, NEW rs \in SUBSET Requests, NEW reply, Reply(rs, reply),
         \A r \in rs : reply[r] \in Answers, UNCHANGED <<subject, querying>>
  PROVE  Talk'
<1>1. \A r \in Requests : /\ pc'[r] = IF r \in rs THEN "answered" ELSE pc[r]
                          /\ answer'[r] = IF r \in rs THEN reply[r] ELSE answer[r]
  BY DEF Reply
<1>. QED
  BY <1>1, AnswersAreSome DEF Talk, TalkAt, Executing

LEMMA DeliverTalk ==
  ASSUME TypeOK, Talk, NEW r \in Requests, NEW ack \in Acks, Deliver(r, ack),
         UNCHANGED <<subject, querying>>
  PROVE  Talk'
<1>. DEFINE rs == {r} \cup {q \in Requests : pc[q] = "joined" /\ subject[q] = subject[r]}
            reply == [q \in rs |-> IF q = r THEN ack ELSE RetryAck(q, ack)]
<1>1. rs \in SUBSET Requests
  OBVIOUS
<1>2. \A q \in rs : reply[q] \in Answers
  BY DEF Answers, Acks, RetryAck
<1>3. Reply(rs, reply)
  BY DEF Deliver
<1>. HIDE DEF rs, reply
<1>. QED
  BY <1>1, <1>2, <1>3, ReplyTalk

LEMMA RequestTalk ==
  ASSUME TypeOK, Kinds, Talk, NEW r \in Requests, Request(r)
  PROVE  Talk'
<1>1. CASE \/ JoinFlight(r) \/ FindNow(r) \/ AwaitIndex(r) \/ Missed(r) \/ Prepare(r) \/ Accept(r)
           \/ Admit(r) \/ Execute(r) \/ ExecuteFails(r)
  <2>1. /\ UNCHANGED <<subject, querying, answer>>
        /\ \A q \in Requests \ {r} : pc'[q] = pc[q]
    BY <1>1 DEF TypeOK, JoinFlight, FindNow, AwaitIndex, Missed, Prepare, Accept, Admit, Execute,
                ExecuteFails
  <2>2. /\ pc[r] \notin {"idle", "answered"} /\ pc'[r] \notin {"idle", "answered"}
        /\ \/ pc'[r] \in {"joined", "looked", "load"}
           \/ pc[r] = "looked" /\ ~querying[r]
           \/ pc[r] \in {"prepare", "decide"} \cup Executing
    BY <1>1 DEF TypeOK, JoinFlight, FindNow, AwaitIndex, AtLookup, Missed, Prepare, Accept, Admit,
                Execute, ExecuteFails, Executing
  <2>. QED
    BY <2>1, <2>2 DEF Talk, TalkAt, Executing
<1>2. CASE Found(r)
  <2>. DEFINE reply == [q \in {r} |->
                CASE found[r] = "error" -> "unavailable"
                  [] found[r] = "miss"  -> "unknown"
                  [] OTHER              -> RetryAck(r, found[r])]
  <2>1. Reply({r}, reply) /\ UNCHANGED <<subject, querying>> /\ found[r] \in Acks \cup {"miss", "error"}
    BY <1>2 DEF Found, Kinds, RequestKinds
  <2>2. reply[r] \in Answers
    BY <2>1 DEF RetryAck, Answers, Acks
  <2>. HIDE DEF reply
  <2>. QED
    BY <2>1, <2>2, ReplyTalk
<1>3. CASE Reject(r)
  <2>1. Reply({r}, [q \in {r} |-> "rejected"]) /\ UNCHANGED <<subject, querying>>
    BY <1>3 DEF Reject
  <2>2. \A q \in {r} : [p \in {r} |-> "rejected"][q] \in Answers
    BY DEF Answers
  <2>. QED
    BY <2>1, <2>2, ReplyTalk
<1>4. CASE Settle(r) \/ SettleFailed(r) \/ SettlePlain(r)
  <2>1. PICK ack \in Acks : Deliver(r, ack)
    BY <1>4, Settles
  <2>2. UNCHANGED <<subject, querying>>
    BY <1>4 DEF Settle, SettleFailed, SettlePlain
  <2>. QED
    BY <2>1, <2>2, DeliverTalk
<1>5. CASE Return(r)
  <2>1. /\ pc'[r] = "idle" /\ subject'[r] = None /\ answer'[r] = None
        /\ \A q \in Requests \ {r} : /\ pc'[q] = pc[q] /\ subject'[q] = subject[q]
                                     /\ answer'[q] = answer[q] /\ querying'[q] = querying[q]
    BY <1>5 DEF Return, TypeOK
  <2>. QED
    BY <2>1 DEF Talk, TalkAt, Executing
<1>. QED
  BY <1>1, <1>2, <1>3, <1>4, <1>5 DEF Request

LEMMA TalkStep ==
  ASSUME TypeOK, Kinds, Talk, [Next]_vars
  PROVE  Talk'
<1>1. ASSUME NEW r \in Requests, NEW c \in Cmds, NEW query \in BOOLEAN, Arrive(r, c, query)
      PROVE  Talk'
  <2>1. /\ pc[r] = "idle" /\ pc'[r] = "key" /\ UNCHANGED answer
        /\ \A q \in Requests \ {r} : pc'[q] = pc[q] /\ subject'[q] = subject[q] /\ querying'[q] = querying[q]
    BY <1>1 DEF Arrive, TypeOK
  <2>. QED
    BY <2>1 DEF Talk, TalkAt, Executing
<1>2. ASSUME NEW r \in Requests, Request(r) PROVE Talk'
  BY <1>2, RequestTalk
<1>3. ASSUME NEW o \in Requests, Loading(o) PROVE Talk'
  <2>1. /\ UNCHANGED <<subject, querying, answer>>
        /\ \A q \in Requests : pc'[q] = pc[q] \/ (pc[q] = "load" /\ pc'[q] = "looked")
    BY <1>3, LoadingGoesOn
  <2>. QED
    BY <2>1 DEF Talk, TalkAt, Executing
<1>4. ASSUME NEW c \in Durable, Runtime(c) \/ Remove(c) PROVE Talk'
  BY <1>4, RuntimeFrame DEF requestVars, Talk, TalkAt
<1>5. CASE BeginAnyResume \/ Register \/ Deactivate \/ UNCHANGED vars
  BY <1>5 DEF BeginAnyResume, BeginResume, Register, Deactivate, vars, requestVars, Talk, TalkAt
<1>6. CASE FinishResume
  <2>1. /\ UNCHANGED <<subject, querying, answer>>
        /\ \A q \in Requests : pc'[q] = IF pc[q] = "cold" THEN "decide" ELSE pc[q]
    BY <1>6 DEF FinishResume
  <2>. QED
    BY <2>1 DEF Talk, TalkAt, Executing
<1>7. CASE ResumeFails
  <2>. DEFINE cold == {r \in Requests : pc[r] = "cold"}
              reply == [r \in cold |-> "unavailable"]
  <2>1. Reply(cold, reply) /\ UNCHANGED <<subject, querying>>
    BY <1>7 DEF ResumeFails
  <2>2. cold \in SUBSET Requests /\ \A r \in cold : reply[r] \in Answers
    BY DEF Answers
  <2>. HIDE DEF cold, reply
  <2>. QED
    BY <2>1, <2>2, ReplyTalk
<1>8. CASE Crash
  BY <1>8 DEF Crash, Talk, TalkAt, Executing
<1>. QED
  BY <1>1, <1>2, <1>3, <1>4, <1>5, <1>6, <1>7, <1>8 DEF Next, Resume

-----------------------------------------------------------------------------
(* Waiting for a load or a resume.                                          *)

LEMMA ServedStep ==
  ASSUME TypeOK, Kinds, Loads, Served, [Next]_vars
  PROVE  Served'
<1>0. index \notin Requests \/ index \notin Facts
  BY FactsAreNoNames
<1>1. ASSUME NEW r \in Requests, NEW c \in Cmds, NEW query \in BOOLEAN, Arrive(r, c, query)
      PROVE  Served'
  <2>1. /\ pc'[r] = "key" /\ UNCHANGED <<found, index, sweeping, resuming>>
        /\ \A q \in Requests \ {r} : pc'[q] = pc[q]
    BY <1>1 DEF Arrive, TypeOK, indexVars, sessionVars
  <2>. QED
    BY <2>1 DEF Served
<1>2. ASSUME NEW r \in Requests, Request(r) PROVE Served'
  <2>1. \A q \in Requests \ {r} : /\ found'[q] = found[q]
                                  /\ pc'[q] \in {"load", "cold"} => pc'[q] = pc[q]
    BY <1>2, RequestTouches
  <2>2. CASE AwaitIndex(r)
    <3>1. /\ pc'[r] = "load" /\ UNCHANGED resuming
          /\ index \in Requests \cup {None}
      BY <2>2 DEF AwaitIndex, TypeOK, sessionVars
    <3>2. CASE index = None
      <4>1. /\ index' = r /\ found'[r] = r
            /\ sweeping'[r] \in BOOLEAN /\ \A o \in Requests \ {r} : sweeping'[o] = sweeping[o]
        BY <2>2, <3>2 DEF AwaitIndex, TypeOK, DiscardsOnLoad
      <4>2. \A o \in Requests : sweeping[o] # None => sweeping'[o] # None
        BY <4>1, NoneIsNoValue
      <4>. QED
        BY <2>1, <3>1, <4>1, <4>2, NoneIsNoValue DEF Served
    <3>3. CASE index # None
      <4>1. found'[r] = index /\ UNCHANGED <<index, sweeping>>
        BY <2>2, <3>3 DEF AwaitIndex, TypeOK, indexVars
      <4>. QED
        BY <2>1, <3>1, <3>3, <4>1 DEF Served
    <3>. QED
      BY <3>2, <3>3
  <2>3. CASE ~AwaitIndex(r)
    <3>1. UNCHANGED <<index, sweeping>> /\ pc'[r] # "load"
      BY <1>2, <2>3 DEF Request, JoinFlight, FindNow, Found, Missed, Prepare, Reject, Accept, Admit,
                  Execute, ExecuteFails, Settle, SettleFailed, SettlePlain, SettleWith, Deliver, Reply,
                  Return, indexVars, TypeOK
    <3>2. resuming # "no" => resuming' # "no"
      BY <1>2, <2>3 DEF Request, JoinFlight, FindNow, Found, Missed, Prepare, Reject, Accept, Admit,
                  Execute, ExecuteFails, Settle, SettleFailed, SettlePlain, Return, sessionVars
    <3>3. pc'[r] = "cold" => resuming' # "no"
      BY <1>2, <2>3 DEF Request, JoinFlight, FindNow, Found, Missed, Prepare, Reject, Accept, Admit,
                  Execute, ExecuteFails, Settle, SettleFailed, SettlePlain, SettleWith, Deliver, Reply,
                  Return, TypeOK
    <3>. QED
      BY <2>1, <3>1, <3>2, <3>3 DEF Served
  <2>. QED
    BY <2>2, <2>3
<1>3. ASSUME NEW o \in Requests, Loading(o) PROVE Served'
  <2>1. /\ sweeping' = [sweeping EXCEPT ![o] = None] /\ UNCHANGED resuming
        /\ index' \notin Requests \/ (index' = index /\ index # o)
    <3>1. sweeping' = [sweeping EXCEPT ![o] = None] /\ UNCHANGED resuming
      BY <1>3 DEF Loading, LoadDone, LoadFails, sessionVars
    <3>2. CASE index = o
      <4>1. index' = None \/ \E facts \in Facts : index' = facts
        <5>1. ASSUME LoadDone(o) PROVE \E facts \in Facts : index' = facts
          <6>1. index' = FactsOf(row', timeline)
            BY <3>2, <5>1 DEF LoadDone
          <6>2. FactsOf(row', timeline) \in Facts
            BY DEF FactsOf, Facts, TypeOK
          <6>. QED
            BY <6>1, <6>2
        <5>. QED
          BY <1>3, <3>2, <5>1 DEF Loading, LoadFails
      <4>. QED
        BY <3>1, <4>1, FactsAreNoNames, NoneIsNoValue
    <3>3. CASE index # o
      BY <1>3, <3>1, <3>3 DEF Loading, LoadDone, LoadFails
    <3>. QED
      BY <3>2, <3>3
  <2>2. \A q \in Requests : \/ pc'[q] = "looked"
                            \/ pc'[q] = pc[q] /\ found'[q] = found[q] /\ ~(pc[q] = "load" /\ found[q] = o)
    <3>1. \A q \in Requests : \/ q \notin Waiters(o) /\ pc'[q] = pc[q] /\ found'[q] = found[q]
                              \/ pc'[q] = "looked"
      BY <1>3, LoadingGoesOn
    <3>. QED
      BY <3>1 DEF Waiters
  <2>3. \A q \in Requests \ {o} : sweeping'[q] = sweeping[q]
    BY <2>1 DEF TypeOK
  <2>. QED
    BY <2>1, <2>2, <2>3 DEF Served
<1>4. ASSUME NEW c \in Durable, Runtime(c) \/ Remove(c) PROVE Served'
  <2>1. UNCHANGED <<pc, found, sweeping, resuming>>
    BY <1>4, RuntimeFrame DEF requestVars, sessionVars
  <2>2. index' \in Requests => index' = index
    <3>1. CASE Announce(c)
      BY <3>1, NoneIsNoValue DEF Announce, Invalidate
    <3>2. CASE RecordFact(c)
      <4>1. timeline' \in SUBSET Compacts
        BY <1>4, <3>2, RuntimeType DEF TypeOK
      <4>2. FactsOf(row, timeline') \in Facts
        BY <4>1, FactsType DEF TypeOK
      <4>3. index \in Facts => [index EXCEPT !.timeline = @ \cup {c}] \in Facts
        <5>1. c \in Compacts
          BY <3>2 DEF RecordFact, Progress, Kinds, CommandKinds, Cmds, Durable
        <5>. QED
          BY <5>1 DEF Facts
      <4>. QED
        BY <3>2, <4>2, <4>3, FactsAreNoNames, NoneIsNoValue DEF RecordFact, TypeOK
    <3>3. CASE ~Announce(c) /\ ~RecordFact(c)
      BY <1>4, <3>3 DEF Runtime, Remove, Drain, Promote, Blocked, CompactOver, RecordFails, indexVars
    <3>. QED
      BY <3>1, <3>2, <3>3
  <2>. QED
    BY <2>1, <2>2 DEF Served
<1>5. CASE BeginAnyResume \/ Register \/ Deactivate \/ UNCHANGED vars
  BY <1>5 DEF BeginAnyResume, BeginResume, Register, Deactivate, vars, requestVars, indexVars,
              sessionVars, Served
<1>6. CASE FinishResume \/ ResumeFails
  <2>1. /\ UNCHANGED <<found, index, sweeping>>
        /\ \A q \in Requests : pc'[q] # "cold" /\ (pc'[q] = "load" => pc[q] = "load")
    BY <1>6 DEF FinishResume, ResumeFails, Reply, indexVars
  <2>. QED
    BY <2>1 DEF Served
<1>7. CASE Crash
  BY <1>7, NoneIsNoValue DEF Crash, Served
<1>. QED
  BY <1>1, <1>2, <1>3, <1>4, <1>5, <1>6, <1>7 DEF Next, Resume

-----------------------------------------------------------------------------
(* Waiting at a gate.                                                       *)

LEMMA StandsOn ==
  ASSUME NEW gate \in Seq(Requests), NEW q \in Requests, StandsIn(gate, q)
  PROVE  /\ \A r : StandsIn(Append(gate, r), q)
         /\ \A rs : q \notin rs => StandsIn(PassOn(gate, rs), q)
<1>1. PICK i \in 1 .. Len(gate) : gate[i] = q
  BY DEF StandsIn
<1>2. ASSUME NEW r PROVE StandsIn(Append(gate, r), q)
  <2>1. i \in DOMAIN Append(gate, r) /\ Append(gate, r)[i] = q
    BY <1>1
  <2>. QED
    BY <2>1 DEF StandsIn
<1>3. ASSUME NEW rs, q \notin rs PROVE StandsIn(PassOn(gate, rs), q)
  <2>1. CASE gate # <<>> /\ Head(gate) \in rs
    <3>1. PassOn(gate, rs) = Tail(gate)
      BY <2>1 DEF PassOn
    <3>2. i # 1
      BY <1>1, <1>3, <2>1
    <3>3. i - 1 \in DOMAIN Tail(gate) /\ Tail(gate)[i - 1] = q
      BY <1>1, <2>1, <3>2
    <3>. QED
      BY <3>1, <3>3 DEF StandsIn
  <2>2. CASE ~(gate # <<>> /\ Head(gate) \in rs)
    BY <2>2 DEF PassOn
  <2>. QED
    BY <2>1, <2>2
<1>. QED
  BY <1>2, <1>3

LEMMA LastInLine ==
  ASSUME NEW gate \in Seq(Requests), NEW r \in Requests
  PROVE  StandsIn(Append(gate, r), r)
<1>1. Len(gate) + 1 \in DOMAIN Append(gate, r) /\ Append(gate, r)[Len(gate) + 1] = r
  OBVIOUS
<1>. QED
  BY <1>1 DEF StandsIn

LEMMA ReplyInLine ==
  ASSUME TypeOK, Kinds, InLine, NEW rs \in SUBSET Requests, NEW reply, Reply(rs, reply),
         UNCHANGED subject
  PROVE  InLine'
<1>. SUFFICES ASSUME NEW q \in Requests
              PROVE  /\ pc'[q] = "key" => StandsIn(keyGate'[subject[q]], q)
                     /\ pc'[q] = "gate" => StandsIn(sessionGate', q)
  BY DEF InLine, StandsIn
<1>1. /\ pc'[q] = IF q \in rs THEN "answered" ELSE pc[q]
      /\ \A c \in Cmds : keyGate'[c] = PassOn(keyGate[c], rs)
      /\ sessionGate' = PassOn(sessionGate, rs)
  BY DEF Reply
<1>2. ASSUME pc'[q] = "key" PROVE StandsIn(keyGate'[subject[q]], q)
  <2>1. /\ q \notin rs /\ subject[q] \in Cmds /\ keyGate[subject[q]] \in Seq(Requests)
        /\ StandsIn(keyGate[subject[q]], q)
    BY <1>1, <1>2 DEF InLine, TypeOK, Kinds, RequestKinds
  <2>. QED
    BY <1>1, <2>1, StandsOn
<1>3. ASSUME pc'[q] = "gate" PROVE StandsIn(sessionGate', q)
  <2>1. q \notin rs /\ sessionGate \in Seq(Requests) /\ StandsIn(sessionGate, q)
    BY <1>1, <1>3 DEF InLine, TypeOK
  <2>. QED
    BY <1>1, <2>1, StandsOn
<1>. QED
  BY <1>2, <1>3

\* Those who wait go on waiting where the gates stay as they are.
LEMMA InLineFrame ==
  ASSUME InLine, UNCHANGED <<keyGate, sessionGate>>,
         \A q \in Requests : pc'[q] \in {"key", "gate"} => pc'[q] = pc[q] /\ subject'[q] = subject[q]
  PROVE  InLine'
BY DEF InLine, StandsIn

LEMMA RequestInLine ==
  ASSUME TypeOK, Kinds, InLine, NEW r \in Requests, Request(r)
  PROVE  InLine'
<1>1. CASE JoinFlight(r) \/ FindNow(r) \/ AwaitIndex(r) \/ Prepare(r) \/ Admit(r) \/ Execute(r)
           \/ ExecuteFails(r) \/ Return(r)
  <2>1. UNCHANGED <<keyGate, sessionGate>>
    BY <1>1 DEF JoinFlight, FindNow, AwaitIndex, Prepare, Admit, Execute, ExecuteFails, Return, gateVars
  <2>2. pc'[r] \notin {"key", "gate"}
    BY <1>1 DEF JoinFlight, FindNow, AwaitIndex, Prepare, Admit, Execute, ExecuteFails, Return, TypeOK
  <2>3. \A q \in Requests \ {r} : /\ subject'[q] = subject[q]
                                  /\ pc'[q] = pc[q] \/ pc'[q] = "answered"
    BY RequestTouches
  <2>. QED
    BY <2>1, <2>2, <2>3, InLineFrame
<1>2. CASE Missed(r)
  <2>0. /\ UNCHANGED <<subject, keyGate>> /\ pc'[r] \in {"gate", "prepare", "decide"}
        /\ \A q \in Requests \ {r} : pc'[q] = pc[q]
        /\ \/ sessionGate' = sessionGate /\ pc'[r] # "gate"
           \/ sessionGate' = Append(sessionGate, r)
    BY <1>2 DEF Missed, TypeOK
  <2>1. CASE sessionGate' = sessionGate /\ pc'[r] # "gate"
    BY <2>0, <2>1, InLineFrame
  <2>2. CASE sessionGate' = Append(sessionGate, r)
    <3>1. StandsIn(sessionGate', r)
      BY <2>2, LastInLine DEF TypeOK
    <3>2. ASSUME NEW q \in Requests \ {r}, pc'[q] = "gate" PROVE StandsIn(sessionGate', q)
      BY <2>0, <2>2, <3>2, StandsOn DEF InLine, TypeOK
    <3>. QED
      BY <2>0, <3>1, <3>2 DEF InLine, StandsIn
  <2>. QED
    BY <2>0, <2>1, <2>2
<1>3. CASE Accept(r)
  <2>0. /\ UNCHANGED <<subject, sessionGate>> /\ pc'[r] \notin {"key", "gate"}
        /\ \A q \in Requests \ {r} : pc'[q] = pc[q]
        /\ \A c \in Cmds : keyGate'[c] = keyGate[c] \/ keyGate'[c] = PassOn(keyGate[c], {r})
    BY <1>3 DEF Accept, TypeOK
  <2>1. ASSUME NEW q \in Requests, pc'[q] = "key" PROVE StandsIn(keyGate'[subject[q]], q)
    <3>1. /\ q # r /\ subject[q] \in Cmds /\ keyGate[subject[q]] \in Seq(Requests)
          /\ StandsIn(keyGate[subject[q]], q)
      BY <2>0, <2>1 DEF InLine, TypeOK, Kinds, RequestKinds
    <3>2. q \notin {r}
      BY <3>1
    <3>. QED
      BY <2>0, <3>1, <3>2, StandsOn
  <2>. QED
    BY <2>0, <2>1 DEF InLine, StandsIn
<1>4. CASE Found(r) \/ Reject(r)
  <2>1. UNCHANGED subject /\ \E reply : Reply({r}, reply)
    BY <1>4 DEF Found, Reject
  <2>. QED
    BY <2>1, ReplyInLine
<1>5. CASE Settle(r) \/ SettleFailed(r) \/ SettlePlain(r)
  <2>1. UNCHANGED subject /\ \E ack \in Acks : Deliver(r, ack)
    BY <1>5, Settles
  <2>2. \E rs \in SUBSET Requests : \E reply : Reply(rs, reply)
    BY <2>1 DEF Deliver
  <2>. QED
    BY <2>1, <2>2, ReplyInLine
<1>. QED
  BY <1>1, <1>2, <1>3, <1>4, <1>5 DEF Request

LEMMA InLineStep ==
  ASSUME TypeOK, Kinds, InLine, [Next]_vars
  PROVE  InLine'
<1>1. ASSUME NEW r \in Requests, NEW c \in Cmds, NEW query \in BOOLEAN, Arrive(r, c, query)
      PROVE  InLine'
  <2>0. /\ pc'[r] = "key" /\ subject'[r] = c /\ UNCHANGED sessionGate
        /\ \A q \in Requests \ {r} : pc'[q] = pc[q] /\ subject'[q] = subject[q]
        /\ keyGate'[c] = Append(keyGate[c], r)
        /\ \A d \in Cmds \ {c} : keyGate'[d] = keyGate[d]
    BY <1>1 DEF Arrive, TypeOK, gateVars
  <2>1. StandsIn(keyGate'[c], r)
    BY <2>0, LastInLine DEF TypeOK
  <2>2. ASSUME NEW q \in Requests \ {r}, pc'[q] = "key" PROVE StandsIn(keyGate'[subject'[q]], q)
    <3>1. /\ subject'[q] = subject[q] /\ subject[q] \in Cmds /\ keyGate[subject[q]] \in Seq(Requests)
          /\ StandsIn(keyGate[subject[q]], q)
      BY <2>0, <2>2 DEF InLine, TypeOK, Kinds, RequestKinds
    <3>2. \/ keyGate'[subject'[q]] = keyGate[subject[q]]
          \/ keyGate'[subject'[q]] = Append(keyGate[subject[q]], r)
      BY <2>0, <3>1
    <3>. QED
      BY <3>1, <3>2, StandsOn
  <2>. QED
    BY <2>0, <2>1, <2>2 DEF InLine, StandsIn
<1>2. ASSUME NEW r \in Requests, Request(r) PROVE InLine'
  BY <1>2, RequestInLine
<1>3. ASSUME NEW o \in Requests, Loading(o) PROVE InLine'
  <2>1. /\ UNCHANGED <<subject, keyGate, sessionGate>>
        /\ \A q \in Requests : pc'[q] = pc[q] \/ pc'[q] = "looked"
    BY <1>3, LoadingGoesOn DEF gateVars
  <2>. QED
    BY <2>1, InLineFrame
<1>4. ASSUME NEW c \in Durable, Runtime(c) \/ Remove(c) PROVE InLine'
  BY <1>4, RuntimeFrame, InLineFrame DEF requestVars, gateVars
<1>5. CASE BeginAnyResume \/ Register \/ Deactivate \/ UNCHANGED vars
  BY <1>5, InLineFrame DEF BeginAnyResume, BeginResume, Register, Deactivate, vars, requestVars, gateVars
<1>6. CASE FinishResume
  <2>1. /\ UNCHANGED <<subject, keyGate, sessionGate>>
        /\ \A q \in Requests : pc'[q] = pc[q] \/ pc'[q] = "decide"
    BY <1>6 DEF FinishResume, gateVars
  <2>. QED
    BY <2>1, InLineFrame
<1>7. CASE ResumeFails
  <2>. DEFINE cold == {r \in Requests : pc[r] = "cold"}
  <2>1. UNCHANGED subject /\ cold \in SUBSET Requests /\ \E reply : Reply(cold, reply)
    BY <1>7 DEF ResumeFails
  <2>. HIDE DEF cold
  <2>. QED
    BY <2>1, ReplyInLine
<1>8. CASE Crash
  BY <1>8 DEF Crash, InLine
<1>. QED
  BY <1>1, <1>2, <1>3, <1>4, <1>5, <1>6, <1>7, <1>8 DEF Next, Resume

-----------------------------------------------------------------------------
(* Nobody waits in a circle.                                                *)

Waiting == Inv /\ Loads /\ Served /\ InLine

\* Who can go on waits for itself.
LEMMA ProceedsAlone ==
  ASSUME NEW r \in Requests, CanProceed(r)
  PROVE  WaitsFor(r) = r
<1>1. CASE AtLookup(r)
  BY <1>1 DEF AtLookup, HoldsKey, HoldsSession, WaitsFor
<1>2. CASE pc[r] = "load" /\ found[r] = r
  BY <1>2 DEF WaitsFor
<1>3. CASE pc[r] = "cold" \/ pc[r] \in Executing \cup {"looked", "prepare", "decide", "answered"}
  BY <1>3 DEF WaitsFor, Executing
<1>. QED
  BY <1>1, <1>2, <1>3 DEF CanProceed

\* Past the gates a call waits for one that can go on: a load is the work of the call
\* that started it, who joined waits for the one that executes its command.
LEMMA PastTheGates ==
  ASSUME Waiting, NEW r \in Requests, pc[r] \notin {"idle", "key", "gate"}
  PROVE  WaitsFor(r) \in Requests /\ CanProceed(WaitsFor(r))
<1>1. CASE pc[r] = "load"
  <2>1. WaitsFor(r) = found[r] /\ found[r] \in Requests /\ sweeping[found[r]] # None
    BY <1>1 DEF WaitsFor, Waiting, Served
  <2>2. pc[found[r]] = "load" /\ found[found[r]] = found[r]
    BY <2>1 DEF Waiting, Loads
  <2>. QED
    BY <2>1, <2>2 DEF CanProceed
<1>2. CASE pc[r] = "joined"
  <2>. DEFINE Executes(q) == pc[q] \in Executing /\ subject[q] = subject[r]
  <2>1. \E q \in Requests : Executes(q)
    BY <1>2 DEF Waiting, Inv, Flights, InFlight
  <2>2. WaitsFor(r) = CHOOSE q \in Requests : Executes(q)
    BY <1>2 DEF WaitsFor
  <2>3. WaitsFor(r) \in Requests /\ Executes(WaitsFor(r))
    BY <2>1, <2>2
  <2>. QED
    BY <2>3 DEF CanProceed
<1>3. CASE pc[r] \in {"cold", "looked", "prepare", "decide", "answered"} \cup Executing
  <2>1. CanProceed(r)
    BY <1>3 DEF CanProceed, Waiting, Served
  <2>. QED
    BY <2>1, ProceedsAlone
<1>. QED
  BY <1>1, <1>2, <1>3 DEF Waiting, Inv, TypeOK

\* The first at the session gate goes on, unless it waits for the index.
LEMMA AtTheSessionGate ==
  ASSUME Waiting, NEW r \in Requests, pc[r] = "gate"
  PROVE  /\ WaitsFor(r) \in Requests
         /\ CanProceed(WaitsFor(r)) \/ pc[WaitsFor(r)] \notin {"idle", "key", "gate"}
<1>. DEFINE h == Head(sessionGate)
<1>1. WaitsFor(r) = h
  BY DEF WaitsFor
<1>2. PICK i \in DOMAIN sessionGate : sessionGate[i] = r
  BY DEF Waiting, InLine, StandsIn
<1>3. 1 \in DOMAIN sessionGate /\ sessionGate # <<>> /\ h = sessionGate[1] /\ h \in Requests
  BY <1>2 DEF Waiting, Inv, TypeOK
<1>4. h \in AtGate \cup SessionHolders
  BY <1>3 DEF Waiting, Inv, Gates, Lined
<1>. HIDE DEF h
<1>5. CASE h \in AtGate
  <2>1. AtLookup(h)
    BY <1>3, <1>5 DEF AtGate, AtLookup, HoldsSession, h
  <2>. QED
    BY <1>1, <1>3, <2>1 DEF CanProceed
<1>6. CASE h \in SessionHolders
  BY <1>1, <1>3, <1>6 DEF SessionHolders, OnSession, Executing
<1>. QED
  BY <1>4, <1>5, <1>6

\* The first at a key gate goes on, unless it waits for anything but a key.
LEMMA AtAKeyGate ==
  ASSUME Waiting, NEW r \in Requests, pc[r] = "key"
  PROVE  /\ WaitsFor(r) \in Requests
         /\ CanProceed(WaitsFor(r)) \/ pc[WaitsFor(r)] \notin {"idle", "key"}
<1>. DEFINE c == subject[r]
            h == Head(keyGate[c])
<1>1. WaitsFor(r) = h
  BY DEF WaitsFor
<1>2. PICK i \in DOMAIN keyGate[c] : keyGate[c][i] = r
  BY DEF Waiting, InLine, StandsIn
<1>c. c \in Cmds /\ c # None /\ keyGate[c] \in Seq(Requests)
  BY DEF Waiting, Inv, TypeOK, Kinds, RequestKinds
<1>3. 1 \in DOMAIN keyGate[c] /\ keyGate[c] # <<>> /\ h = keyGate[c][1] /\ h \in Requests
  BY <1>2, <1>c
<1>4. h \in AtKey(c) \cup KeyHolders(c)
  BY <1>3, <1>c DEF Waiting, Inv, Gates, Lined
<1>. HIDE DEF h
<1>5. CASE h \in AtKey(c)
  <2>1. AtLookup(h)
    BY <1>3, <1>5, <1>c DEF AtKey, AtLookup, HoldsKey, h
  <2>. QED
    BY <1>1, <1>3, <2>1 DEF CanProceed
<1>6. CASE h \in KeyHolders(c)
  BY <1>1, <1>3, <1>6 DEF KeyHolders, OnKey
<1>. QED
  BY <1>4, <1>5, <1>6

LEMMA WaitsEnd == Waiting => NoCircularWait
<1>. SUFFICES ASSUME Waiting, NEW r \in Requests, pc[r] # "idle"
              PROVE  CanProceed(WaitsFor(WaitsFor(WaitsFor(r))))
  BY DEF NoCircularWait
<1>1. \A q \in Requests : CanProceed(q) => WaitsFor(q) = q
  BY ProceedsAlone
<1>2. \A q \in Requests : pc[q] \notin {"idle", "key", "gate"} =>
        WaitsFor(q) \in Requests /\ CanProceed(WaitsFor(q))
  BY PastTheGates
<1>3. \A q \in Requests : pc[q] \notin {"idle", "key"} =>
        WaitsFor(WaitsFor(q)) \in Requests /\ CanProceed(WaitsFor(WaitsFor(q)))
  BY <1>1, <1>2, AtTheSessionGate
<1>. QED
  BY <1>1, <1>3, AtAKeyGate

LEMMA InitWaiting == Init => Waiting
<1>. SUFFICES ASSUME Init PROVE Waiting
  OBVIOUS
<1>1. Served /\ InLine
  BY NoneIsNoValue DEF Init, Served, InLine
<1>. QED
  BY <1>1, InitInv, InitOrder DEF Waiting

LEMMA StepWaiting == Waiting /\ [Next]_vars => Waiting'
<1>. SUFFICES ASSUME Waiting, [Next]_vars PROVE Waiting'
  OBVIOUS
<1>1. Inv /\ TypeOK /\ Kinds /\ Loads /\ Served /\ InLine
  BY DEF Waiting, Inv
<1>. QED
  BY <1>1, StepInv, LoadsStep, ServedStep, InLineStep DEF Waiting

\* However many calls are queued at the gates, wait for a load or have joined one
\* another: the call that each of them waits for in the end can go on.  This needs the
\* gates to be lines in which only the first has gone on, the joined to have somebody
\* in flight, and every awaited load to be the work of a call that awaits it as well.
THEOREM NobodyWaitsInACircle == Spec => []NoCircularWait
<1>1. Spec => []Waiting
  BY InitWaiting, StepWaiting, PTL DEF Spec
<1>. QED
  BY <1>1, WaitsEnd, PTL

-----------------------------------------------------------------------------
(* Only what was executed is acknowledged.                                  *)

LEMMA ExecuteTakes ==
  ASSUME TypeOK, NEW r \in Requests, Execute(r)
  PROVE  /\ \A c \in Cmds : Executed(c) => Executed(c)'
         /\ subject[r] \in Durable => Executed(subject[r])'
<1>. DEFINE d == subject[r]
<1>1. CASE d \in Plain /\ UNCHANGED taken
  <2>1. d \notin Durable
    BY <1>1, KindsAreDisjoint
  <2>. QED
    BY <1>1, <2>1 DEF Executed
<1>2. CASE d \in Durable /\ taken' = [taken EXCEPT ![d] = IF @ = 2 THEN 2 ELSE @ + 1]
  <2>1. d \in Cmds /\ taken \in [Cmds -> 0 .. 2]
    BY <1>2 DEF Durable, Cmds, TypeOK
  <2>. HIDE DEF d
  <2>2. \A c \in Cmds : taken'[c] = IF c = d THEN IF taken[d] = 2 THEN 2 ELSE taken[d] + 1 ELSE taken[c]
    BY <1>2, <2>1
  <2>3. taken'[d] > 0 /\ \A c \in Cmds : taken[c] > 0 => taken'[c] > 0
    BY <2>1, <2>2
  <2>4. UNCHANGED d
    BY DEF Execute, d
  <2>. QED
    BY <2>3, <2>4 DEF Executed, d
<1>. QED
  BY <1>1, <1>2 DEF Execute, runtimeVars

LEMMA ExecutedStays ==
  ASSUME TypeOK, [Next]_vars, NEW c \in Cmds, Executed(c)
  PROVE  Executed(c)'
<1>1. ASSUME NEW r \in Requests, Execute(r) PROVE Executed(c)'
  BY <1>1, ExecuteTakes
<1>2. CASE UNCHANGED taken
  BY <1>2 DEF Executed
<1>3. ASSUME NEW r \in Requests, Request(r), ~Execute(r) PROVE UNCHANGED taken
  BY <1>3 DEF Request, JoinFlight, FindNow, AwaitIndex, Found, Missed, Prepare, Reject, Accept, Admit,
              ExecuteFails, Settle, SettleFailed, SettlePlain, Return, runtimeVars
<1>4. ASSUME NEW r \in Requests, NEW d \in Cmds, NEW query \in BOOLEAN, Arrive(r, d, query)
      PROVE  UNCHANGED taken
  BY <1>4 DEF Arrive, runtimeVars
<1>5. ASSUME NEW o \in Requests, Loading(o) PROVE UNCHANGED taken
  BY <1>5, LoadingGoesOn DEF runtimeVars
<1>6. ASSUME NEW d \in Durable, Runtime(d) \/ Remove(d) PROVE UNCHANGED taken
  BY <1>6, RuntimeFrame
<1>7. CASE BeginAnyResume \/ Resume \/ Deactivate \/ Crash \/ UNCHANGED vars
  <2>1. UNCHANGED taken
    BY <1>7 DEF BeginAnyResume, BeginResume, Resume, Register, FinishResume, ResumeFails, Deactivate,
                Crash, vars, runtimeVars
  <2>. QED
    BY <1>2, <2>1
<1>. QED
  BY <1>1, <1>2, <1>3, <1>4, <1>5, <1>6, <1>7 DEF Next

\* What the settled table and what the index tell.
LEMMA TablesTell ==
  ASSUME TypeOK, Kinds, Earned, NEW c \in Durable
  PROVE  /\ c \in Cmds
         /\ Remembered(c) => SettledAck(c) # "noop" /\ (SettledAck(c) = "accepted" => Executed(c))
         /\ index \in Facts /\ FactIn(index, c) = "accepted" => Executed(c)
         /\ live[c] # None /\ c \notin InFlight => live[c] = "accepted" /\ Executed(c)
<1>1. c \in Cmds
  BY DEF Cmds, Durable
<1>2. ASSUME Remembered(c)
      PROVE  SettledAck(c) # "noop" /\ (SettledAck(c) = "accepted" => Executed(c))
  <2>1. /\ Place(settled, c) \in DOMAIN settled /\ settled[Place(settled, c)].cmd = c
        /\ SettledAck(c) = settled[Place(settled, c)].ack
    BY <1>2, SettledType DEF SettledAck
  <2>. QED
    BY <2>1 DEF Earned, EntryEarned
<1>3. index \in Facts /\ FactIn(index, c) = "accepted" => Executed(c)
  BY DEF FactIn, Earned, EffectEarned
<1>4. live[c] # None /\ c \notin InFlight => live[c] = "accepted" /\ Executed(c)
  BY <1>1 DEF Earned, EffectEarned, Kinds, CommandKinds
<1>. QED
  BY <1>1, <1>2, <1>3, <1>4

\* A request's own lookup, and what goes on with the execution.
LEMMA EarnedOwn ==
  ASSUME TypeOK, Kinds, Earned, NEW r \in Requests, Request(r)
  PROVE  EarnedAt(r)'
<1>. SUFFICES ASSUME subject'[r] \in Durable
              PROVE  /\ pc'[r] = "settle" => taken'[subject'[r]] > 0
                     /\ pc'[r] = "looked" => /\ found'[r] # "noop"
                                             /\ found'[r] = "accepted" => taken'[subject'[r]] > 0
  BY DEF EarnedAt, Executed
<1>1. CASE FindNow(r)
  <2>. DEFINE c == subject[r]
  <2>1. /\ pc'[r] = "looked" /\ subject' = subject /\ UNCHANGED taken /\ c \in Durable
        /\ c \notin InFlight
        /\ \/ live[c] # None /\ found'[r] = live[c]
           \/ Remembered(c) /\ found'[r] = SettledAck(c)
           \/ index \in Facts /\ found'[r] = FactIn(index, c)
    BY <1>1 DEF FindNow, TypeOK, runtimeVars
  <2>2. /\ Remembered(c) => SettledAck(c) # "noop" /\ (SettledAck(c) = "accepted" => Executed(c))
        /\ index \in Facts /\ FactIn(index, c) = "accepted" => Executed(c)
        /\ live[c] # None => live[c] = "accepted" /\ Executed(c)
    BY <2>1, TablesTell
  <2>3. FactIn(index, c) # "noop"
    BY FactInType
  <2>4. taken'[subject'[r]] > 0 <=> Executed(c)
    BY <2>1 DEF Executed
  <2>. QED
    BY <2>1, <2>2, <2>3, <2>4
<1>2. CASE Execute(r)
  <2>1. pc'[r] = "settle" /\ subject' = subject /\ subject[r] \in Cmds /\ subject[r] \in Durable
    BY <1>2 DEF Execute, TypeOK, Durable, Cmds
  <2>2. taken'[subject'[r]] > 0
    BY <1>2, <2>1, ExecuteTakes DEF Executed
  <2>. QED
    BY <2>1, <2>2
<1>3. CASE ~FindNow(r) /\ ~Execute(r)
  <2>1. pc'[r] \notin {"looked", "settle"}
    BY <1>3 DEF Request, JoinFlight, AwaitIndex, Found, Missed, Prepare, Reject, Accept, Admit,
                ExecuteFails, Settle, SettleFailed, SettlePlain, SettleWith, Deliver, Reply, Return,
                TypeOK
  <2>. QED
    BY <2>1
<1>. QED
  BY <1>1, <1>2, <1>3

LEMMA EntriesOwn ==
  ASSUME TypeOK, Kinds, Earned, [Next]_vars, NEW r \in Requests, Request(r), NEW i \in DOMAIN settled'
  PROVE  EntryEarned(settled[i])'
<1>. DEFINE c == subject[r]
<1>1. ASSUME NEW j \in DOMAIN settled, settled'[i] = settled[j]
      PROVE  EntryEarned(settled[i])'
  <2>1. EntryEarned(settled[j])
    BY DEF Earned
  <2>2. settled[j].cmd \in Durable => settled[j].cmd \in Cmds
    BY DEF Durable, Cmds
  <2>. QED
    BY <1>1, <2>1, <2>2, ExecutedStays DEF EntryEarned
<1>2. ASSUME NEW ack \in Acks, c \in Cmds, settled' = Remember(settled, c, ack),
             c \in Durable => ack # "noop" /\ (ack = "accepted" => Executed(c))
      PROVE  EntryEarned(settled[i])'
  <2>1. CASE settled'[i].cmd = c /\ settled'[i].ack = ack
    BY <1>2, <2>1, ExecutedStays DEF EntryEarned
  <2>. QED
    BY <1>1, <1>2, <2>1, RememberEntries DEF EntriesFrom
<1>3. CASE FindNow(r)
  <2>1. \/ UNCHANGED settled
        \/ Remembered(c) /\ settled' = Remember(settled, c, SettledAck(c))
    BY <1>3 DEF FindNow
  <2>. QED
    BY <1>1, <1>2, <2>1, SettledType, TablesTell
<1>4. CASE Admit(r)
  <2>1. settled \in Seq(Entries) /\ settled' = Without(settled, c)
    BY <1>4 DEF TypeOK, Admit, Entries
  <2>2. \E j \in DOMAIN settled : settled'[i] = settled[j]
    BY <2>1, WithoutShrinks
  <2>. QED
    BY <1>1, <2>2
<1>5. CASE Settle(r) \/ SettleFailed(r) \/ SettlePlain(r)
  <2>1. c \in Cmds
    BY <1>5, Settles DEF TypeOK, Kinds, RequestKinds, Executing
  <2>2. \/ UNCHANGED settled
        \/ pc[r] = "settle" /\ settled' = Remember(settled, c, "accepted")
        \/ settled' = Remember(settled, c, "failed")
        \/ c \in Plain /\ settled' = Remember(settled, c, "noop")
    BY <1>5 DEF Settle, SettleFailed, SettlePlain, SettleWith
  <2>3. pc[r] = "settle" /\ c \in Durable => Executed(c)
    BY DEF Earned, EarnedAt
  <2>4. {"accepted", "failed", "noop"} \subseteq Acks /\ (c \in Plain => c \notin Durable)
    BY KindsAreDisjoint DEF Acks
  <2>. HIDE DEF c
  <2>. QED
    BY <1>1, <1>2, <2>1, <2>2, <2>3, <2>4
<1>6. CASE \/ JoinFlight(r) \/ AwaitIndex(r) \/ Found(r) \/ Missed(r) \/ Prepare(r) \/ Reject(r)
           \/ Accept(r) \/ Execute(r) \/ ExecuteFails(r) \/ Return(r)
  <2>1. UNCHANGED settled
    BY <1>6 DEF JoinFlight, AwaitIndex, Found, Missed, Prepare, Reject, Accept, Execute, ExecuteFails,
                Return, memoryVars
  <2>. QED
    BY <1>1, <2>1
<1>. QED
  BY <1>3, <1>4, <1>5, <1>6 DEF Request

\* A pin that outlives its flight is of an execution that was accepted.
LEMMA EffectsOwn ==
  ASSUME TypeOK, Kinds, Earned, [Next]_vars, NEW r \in Requests, Request(r), NEW c \in Durable
  PROVE  EffectEarned(c)'
<1>c. c \in Cmds
  BY DEF Durable, Cmds
<1>0. EffectEarned(c) /\ (Executed(c) => Executed(c)')
  BY <1>c, ExecutedStays DEF Earned
<1>1. row'[c] = "promoted" => row[c] = "promoted"
  BY <1>c DEF Request, JoinFlight, FindNow, AwaitIndex, Found, Missed, Prepare, Reject, Accept, Admit,
              Execute, ExecuteFails, Settle, SettleFailed, SettlePlain, Return, ledgerVars, TypeOK
<1>2. timeline' = timeline
  BY RequestTouches
<1>3. work'[c] # "none" => work[c] # "none" \/ Executed(c)'
  <2>1. CASE Execute(r) /\ c = subject[r]
    <3>1. subject' = subject
      BY <2>1 DEF Execute
    <3>. QED
      BY <2>1, <3>1, ExecuteTakes DEF Executed
  <2>2. CASE Execute(r) /\ c # subject[r]
    BY <1>c, <2>2, RequestTouches
  <2>3. CASE ~Execute(r)
    BY <2>3 DEF Request, JoinFlight, FindNow, AwaitIndex, Found, Missed, Prepare, Reject, Accept, Admit,
                ExecuteFails, Settle, SettleFailed, SettlePlain, Return, runtimeVars
  <2>. QED
    BY <2>1, <2>2, <2>3
<1>4. index' \in Facts => index' = index
  BY FactsAreNoNames
     DEF Request, JoinFlight, FindNow, AwaitIndex, Found, Missed, Prepare, Reject, Accept, Admit,
         Execute, ExecuteFails, Settle, SettleFailed, SettlePlain, Return, indexVars
<1>5. ASSUME live'[c] # None, c \notin InFlight' PROVE Executed(c)'
  <2>1. CASE c \in InFlight
    <3>1. PICK q \in Requests : pc[q] \in Executing /\ subject[q] = c
      BY <2>1 DEF InFlight
    <3>2. q = r
      BY <1>5, <3>1, RequestTouches DEF InFlight, Executing
    <3>3. CASE Settle(r)
      BY <1>0, <3>1, <3>2, <3>3 DEF Settle, Earned, EarnedAt
    <3>4. CASE SettleFailed(r) \/ SettlePlain(r)
      BY <1>5, <1>c, <3>1, <3>2, <3>4 DEF SettleFailed, SettlePlain, SettleWith, TypeOK
    <3>5. CASE ~(Settle(r) \/ SettleFailed(r) \/ SettlePlain(r))
      <4>1. pc'[r] \in Executing /\ subject'[r] = subject[r]
        BY <3>1, <3>2, <3>5 DEF Request, JoinFlight, FindNow, AwaitIndex, AtLookup, Found, Missed, Prepare,
                                Reject, Accept, Admit, Execute, ExecuteFails, Return, TypeOK, Executing
      <4>. QED
        BY <1>5, <3>1, <3>2, <4>1 DEF InFlight
    <3>. QED
      BY <3>3, <3>4, <3>5
  <2>2. CASE c \notin InFlight
    <3>1. CASE Admit(r)
      <4>1. c # subject[r]
        BY <2>2, <3>1 DEF Admit, InFlight, Executing
      <4>. QED
        BY <1>0, <1>5, <1>c, <2>2, <4>1, RequestTouches DEF EffectEarned
    <3>2. CASE Settle(r) \/ SettleFailed(r) \/ SettlePlain(r)
      <4>1. c # subject[r]
        BY <2>2, <3>2, Settles DEF InFlight
      <4>. QED
        BY <1>0, <1>5, <1>c, <2>2, <4>1, RequestTouches DEF EffectEarned
    <3>3. CASE ~(Admit(r) \/ Settle(r) \/ SettleFailed(r) \/ SettlePlain(r))
      <4>1. UNCHANGED live
        BY <3>3 DEF Request, JoinFlight, FindNow, AwaitIndex, Found, Missed, Prepare, Reject, Accept,
                    Execute, ExecuteFails, Return, memoryVars
      <4>. QED
        BY <1>0, <1>5, <2>2, <4>1 DEF EffectEarned
    <3>. QED
      BY <3>1, <3>2, <3>3
  <2>. QED
    BY <2>1, <2>2
<1>. QED
  BY <1>0, <1>1, <1>2, <1>3, <1>4, <1>5 DEF EffectEarned

\* Nothing that could tell of an acceptance has changed, for calls, table or effects.
LEMMA CallsEarned ==
  ASSUME TypeOK, Earned, [Next]_vars, UNCHANGED <<subject, found>>,
         \A q \in Requests : pc'[q] \in {"settle", "looked"} => pc'[q] = pc[q]
  PROVE  \A q \in Requests : EarnedAt(q)'
<1>. SUFFICES ASSUME NEW q \in Requests, subject[q] \in Durable
              PROVE  /\ pc'[q] = "settle" => taken'[subject[q]] > 0
                     /\ pc'[q] = "looked" => /\ found[q] # "noop"
                                             /\ found[q] = "accepted" => taken'[subject[q]] > 0
  BY DEF EarnedAt, Executed
<1>1. subject[q] \in Cmds /\ EarnedAt(q)
  BY DEF Durable, Cmds, Earned
<1>. QED
  BY <1>1, ExecutedStays DEF EarnedAt, Executed

LEMMA EntriesEarned ==
  ASSUME Earned, [Next]_vars, TypeOK, NEW d \in Durable, Executed(d),
         EntriesFrom(d, {"accepted"})
  PROVE  \A i \in DOMAIN settled' : EntryEarned(settled[i])'
<1>. SUFFICES ASSUME NEW i \in DOMAIN settled' PROVE EntryEarned(settled[i])'
  OBVIOUS
<1>d. \A c \in Durable : c \in Cmds
  BY DEF Durable, Cmds
<1>1. ASSUME NEW j \in DOMAIN settled, settled'[i] = settled[j]
      PROVE  EntryEarned(settled[i])'
  <2>1. EntryEarned(settled[j])
    BY DEF Earned
  <2>. QED
    BY <1>1, <1>d, <2>1, ExecutedStays DEF EntryEarned
<1>2. CASE settled'[i].cmd = d /\ settled'[i].ack \in {"accepted"}
  BY <1>2, <1>d, ExecutedStays DEF EntryEarned
<1>. QED
  BY <1>1, <1>2 DEF EntriesFrom

LEMMA SettledStaysEarned ==
  ASSUME Earned, [Next]_vars, TypeOK, UNCHANGED settled
  PROVE  \A i \in DOMAIN settled' : EntryEarned(settled[i])'
<1>. SUFFICES ASSUME NEW i \in DOMAIN settled PROVE EntryEarned(settled[i])'
  OBVIOUS
<1>1. EntryEarned(settled[i]) /\ (settled[i].cmd \in Durable => settled[i].cmd \in Cmds)
  BY DEF Earned, Durable, Cmds
<1>. QED
  BY <1>1, ExecutedStays DEF EntryEarned

LEMMA EffectStaysEarned ==
  ASSUME Earned, [Next]_vars, TypeOK, NEW c \in Durable, InFlight' = InFlight,
         row'[c] = "promoted" => Executed(c), c \in timeline' => Executed(c),
         work'[c] # "none" => Executed(c), live'[c] = live[c] \/ live'[c] = None \/ Executed(c),
         index' \in Facts /\ c \in index'.transcript \cup index'.timeline => Executed(c)
  PROVE  EffectEarned(c)'
<1>1. EffectEarned(c) /\ (Executed(c) => Executed(c)')
  BY ExecutedStays DEF Earned, Durable, Cmds
<1>. QED
  BY <1>1 DEF EffectEarned

\* What a reading of the store tells of an acceptance is in the store.
LEMMA FactsAreStored ==
  ASSUME NEW ledger, NEW marks, NEW c
  PROVE  LET facts == FactsOf(ledger, marks) IN
         /\ FactIn(facts, c) = "accepted" => ledger[c] = "promoted" \/ c \in marks
         /\ c \in facts.transcript \cup facts.timeline => ledger[c] = "promoted" \/ c \in marks
BY DEF FactsOf, FactIn

LEMMA LoadingEarned ==
  ASSUME TypeOK, Kinds, Earned, [Next]_vars, NEW o \in Requests, Loading(o)
  PROVE  Earned'
<1>1. /\ UNCHANGED <<subject, live, settled, timeline, work, taken>>
      /\ InFlight' = InFlight
      /\ \A q \in Requests : \/ q \notin Waiters(o) /\ pc'[q] = pc[q] /\ found'[q] = found[q]
                             \/ q \in Waiters(o) /\ pc'[q] = "looked"
  BY LoadingGoesOn DEF memoryVars, runtimeVars
<1>2. ASSUME NEW c \in Durable, row'[c] = "promoted" PROVE row[c] = "promoted"
  BY <1>2 DEF Loading, LoadDone, LoadFails, Swept, ledgerVars, Durable, Cmds
<1>s. ASSUME NEW c \in Durable, row'[c] = "promoted" \/ c \in timeline PROVE Executed(c)
  BY <1>2, <1>s DEF Earned, EffectEarned
<1>3. ASSUME NEW q \in Requests PROVE EarnedAt(q)'
  <2>. SUFFICES ASSUME subject[q] \in Durable
                PROVE  /\ pc'[q] = "settle" => Executed(subject[q])
                       /\ pc'[q] = "looked" => /\ found'[q] # "noop"
                                               /\ found'[q] = "accepted" => Executed(subject[q])
    BY <1>1 DEF EarnedAt, Executed
  <2>1. CASE q \notin Waiters(o)
    BY <1>1, <2>1 DEF Earned, EarnedAt
  <2>2. CASE q \in Waiters(o)
    <3>1. \/ found'[q] = FactIn(FactsOf(row', timeline), subject[q])
          \/ found'[q] = "error"
      BY <2>2 DEF Loading, LoadDone, LoadFails
    <3>2. found'[q] # "noop"
      BY <3>1, FactInType
    <3>3. found'[q] = "accepted" => Executed(subject[q])
      BY <1>s, <3>1, FactsAreStored
    <3>. QED
      BY <1>1, <2>2, <3>2, <3>3
  <2>. QED
    BY <2>1, <2>2
<1>4. \A i \in DOMAIN settled' : EntryEarned(settled[i])'
  BY <1>1, SettledStaysEarned
<1>5. ASSUME NEW c \in Durable PROVE EffectEarned(c)'
  <2>1. index' = index \/ index' = None \/ index' = FactsOf(row', timeline)
    BY DEF Loading, LoadDone, LoadFails
  <2>2. ASSUME index' \in Facts, c \in index'.transcript \cup index'.timeline PROVE Executed(c)
    <3>1. None \notin Facts
      BY FactsAreNoNames
    <3>2. CASE index' = index
      BY <2>2, <3>2 DEF Earned, EffectEarned
    <3>3. CASE index' = FactsOf(row', timeline)
      BY <1>s, <2>2, <3>3, FactsAreStored
    <3>. QED
      BY <2>1, <2>2, <3>1, <3>2, <3>3
  <2>3. work[c] # "none" => Executed(c)
    BY DEF Earned, EffectEarned
  <2>. QED
    BY <1>1, <1>s, <2>2, <2>3, EffectStaysEarned
<1>. QED
  BY <1>3, <1>4, <1>5 DEF Earned

LEMMA RuntimeEarned ==
  ASSUME TypeOK, Kinds, Earned, [Next]_vars, NEW d \in Durable, Runtime(d) \/ Remove(d)
  PROVE  Earned'
<1>1. UNCHANGED <<pc, subject, found, taken>> /\ InFlight' = InFlight
  BY RuntimeFrame DEF requestVars, InFlight
<1>d. d \in Cmds /\ Executed(d)
  BY RuntimeTouches DEF Earned, EffectEarned
<1>2. \A q \in Requests : EarnedAt(q)'
  BY <1>1, CallsEarned
<1>3. \A i \in DOMAIN settled' : EntryEarned(settled[i])'
  BY <1>d, RuntimeEntries, EntriesEarned
<1>4. ASSUME NEW c \in Durable PROVE EffectEarned(c)'
  <2>1. CASE c = d
    BY <1>1, <1>d, <2>1, EffectStaysEarned
  <2>2. CASE c # d
    <3>1. /\ row'[c] = row[c] /\ live'[c] = live[c] /\ work'[c] = work[c]
          /\ c \in timeline' => c \in timeline
      BY <2>2, RuntimeTouches DEF Durable, Cmds
    <3>e. EffectEarned(c)
      BY DEF Earned
    <3>2. ASSUME index' \in Facts, c \in index'.transcript \cup index'.timeline PROVE Executed(c)
      <4>1. CASE RecordFact(d)
        <5>1. \/ index' = index
              \/ index' = FactsOf(row, timeline')
              \/ index \in Facts /\ index' = [index EXCEPT !.timeline = @ \cup {d}]
          BY <4>1 DEF RecordFact, TypeOK
        <5>2. CASE index' = FactsOf(row, timeline')
          BY <3>1, <3>2, <3>e, <5>2, FactsAreStored DEF EffectEarned
        <5>3. CASE index \in Facts /\ index' = [index EXCEPT !.timeline = @ \cup {d}]
          <6>1. index'.transcript = index.transcript /\ index'.timeline = index.timeline \cup {d}
            BY <5>3 DEF Facts
          <6>. QED
            BY <2>2, <3>2, <3>e, <5>3, <6>1 DEF EffectEarned
        <5>. QED
          BY <3>2, <3>e, <5>1, <5>2, <5>3 DEF EffectEarned
      <4>2. CASE ~RecordFact(d)
        <5>1. index' = index \/ index' = None
          BY <4>2 DEF Runtime, Remove, Drain, Promote, Blocked, Announce, Invalidate, CompactOver,
                      RecordFails, indexVars
        <5>. QED
          BY <3>2, <3>e, <5>1, FactsAreNoNames DEF EffectEarned
      <4>. QED
        BY <4>1, <4>2
    <3>. QED
      BY <1>1, <3>1, <3>2, <3>e, EffectStaysEarned DEF EffectEarned
  <2>. QED
    BY <2>1, <2>2
<1>. QED
  BY <1>2, <1>3, <1>4 DEF Earned

LEMMA EarnedStep ==
  ASSUME TypeOK, Kinds, Earned, [Next]_vars
  PROVE  Earned'
<1>e. \A c \in Durable : EffectEarned(c)
  BY DEF Earned
<1>1. ASSUME NEW r \in Requests, NEW c \in Cmds, NEW query \in BOOLEAN, Arrive(r, c, query)
      PROVE  Earned'
  <2>1. /\ pc'[r] = "key" /\ UNCHANGED <<found, live, settled, index, row, timeline, work, taken>>
        /\ pc[r] = "idle"
        /\ \A q \in Requests \ {r} : pc'[q] = pc[q] /\ subject'[q] = subject[q]
    BY <1>1 DEF Arrive, TypeOK, memoryVars, indexVars, ledgerVars, runtimeVars
  <2>2. InFlight' = InFlight
    BY <2>1 DEF InFlight, Executing
  <2>3. \A q \in Requests : EarnedAt(q)'
    BY <2>1 DEF Earned, EarnedAt, Executed
  <2>4. \A i \in DOMAIN settled' : EntryEarned(settled[i])'
    BY <2>1, SettledStaysEarned
  <2>5. \A d \in Durable : EffectEarned(d)'
    BY <1>e, <2>1, <2>2 DEF EffectEarned, Executed
  <2>. QED
    BY <2>3, <2>4, <2>5 DEF Earned
<1>2. ASSUME NEW r \in Requests, Request(r) PROVE Earned'
  <2>1. ASSUME NEW q \in Requests \ {r} PROVE EarnedAt(q)'
    <3>1. /\ subject'[q] = subject[q] /\ found'[q] = found[q]
          /\ pc'[q] \in {"settle", "looked"} => pc'[q] = pc[q]
      BY <1>2, RequestTouches
    <3>2. EarnedAt(q) /\ (subject[q] \in Durable => subject[q] \in Cmds)
      BY DEF Earned, Durable, Cmds
    <3>3. ASSUME subject[q] \in Durable, Executed(subject[q]) PROVE taken'[subject'[q]] > 0
      BY <3>1, <3>2, <3>3, ExecutedStays DEF Executed
    <3>. QED
      BY <3>1, <3>2, <3>3 DEF EarnedAt, Executed
  <2>. QED
    BY <1>2, <2>1, EarnedOwn, EntriesOwn, EffectsOwn DEF Earned
<1>3. ASSUME NEW o \in Requests, Loading(o) PROVE Earned'
  BY <1>3, LoadingEarned
<1>4. ASSUME NEW c \in Durable, Runtime(c) \/ Remove(c) PROVE Earned'
  BY <1>4, RuntimeEarned
<1>5. CASE BeginAnyResume \/ Register \/ UNCHANGED vars
  <2>1. UNCHANGED <<pc, subject, found, live, settled, index, row, timeline, work, taken>>
    BY <1>5 DEF BeginAnyResume, BeginResume, Register, vars, requestVars, memoryVars, indexVars,
                ledgerVars, runtimeVars
  <2>2. InFlight' = InFlight
    BY <2>1 DEF InFlight
  <2>3. \A d \in Durable : EffectEarned(d)'
    BY <1>e, <2>1, <2>2 DEF EffectEarned, Executed
  <2>. QED
    BY <2>1, <2>3, CallsEarned, SettledStaysEarned DEF Earned
<1>6. CASE FinishResume \/ ResumeFails
  <2>1. /\ UNCHANGED <<subject, found, live, settled, index, timeline, work, taken>>
        /\ \A q \in Requests : pc'[q] = pc[q] \/ (pc[q] = "cold" /\ pc'[q] \in {"decide", "answered"})
        /\ row' = row \/ row' = Swept(row)
    BY <1>6 DEF FinishResume, ResumeFails, Reply, memoryVars, indexVars, ledgerVars, runtimeVars
  <2>2. InFlight' = InFlight
    BY <2>1 DEF InFlight, Executing
  <2>3. \A c \in Durable : row'[c] = "promoted" => row[c] = "promoted"
    BY <2>1 DEF Swept, Durable, Cmds
  <2>4. \A d \in Durable : EffectEarned(d)'
    BY <1>e, <2>1, <2>2, <2>3 DEF EffectEarned, Executed
  <2>. QED
    BY <2>1, <2>4, CallsEarned, SettledStaysEarned DEF Earned
<1>7. CASE Deactivate
  <2>1. UNCHANGED <<pc, subject, found, live, index, row, timeline, work, taken>> /\ settled' = <<>>
    BY <1>7 DEF Deactivate, requestVars, indexVars, ledgerVars, runtimeVars
  <2>2. InFlight' = InFlight
    BY <2>1 DEF InFlight
  <2>3. \A d \in Durable : EffectEarned(d)'
    BY <1>e, <2>1, <2>2 DEF EffectEarned, Executed
  <2>. QED
    BY <2>1, <2>3, CallsEarned DEF Earned
<1>8. CASE Crash
  <2>1. /\ \A q \in Requests : pc'[q] = "idle"
        /\ settled' = <<>> /\ index' = None /\ UNCHANGED <<row, timeline, taken>>
        /\ \A c \in Cmds : live'[c] = None /\ work'[c] = "none"
    BY <1>8 DEF Crash, ledgerVars
  <2>2. \A d \in Durable : EffectEarned(d)'
    BY <1>e, <2>1, FactsAreNoNames DEF EffectEarned, Executed, Durable, Cmds
  <2>. QED
    BY <2>1, <2>2 DEF Earned, EarnedAt
<1>. QED
  BY <1>1, <1>2, <1>3, <1>4, <1>5, <1>6, <1>7, <1>8 DEF Next, Resume

LEMMA InitEarned == Init => Earned
<1>. SUFFICES ASSUME Init PROVE Earned
  OBVIOUS
<1>1. \A c \in Durable : c \in Cmds
  BY DEF Durable, Cmds
<1>. QED
  BY <1>1, FactsAreNoNames DEF Init, Earned, EarnedAt, EffectEarned

\* "accepted" and "duplicate" are told after a lookup that found an ack, or by the
\* settle of an execution.
LEMMA Acknowledged ==
  ASSUME TypeOK, Kinds, [Next]_vars, NEW r \in Requests,
         answer[r] = None, answer'[r] \in {"accepted", "duplicate"}
  PROVE  \/ pc[r] = "looked" /\ found[r] \in {"accepted", "noop"}
         \/ \E q \in Requests : (Settle(q) \/ SettlePlain(q)) /\ subject[r] = subject[q]
<1>0. None \notin {"accepted", "duplicate"}
  BY NoneIsNoValue DEF Answers, Acks
<1>a. answer'[r] # answer[r]
  BY <1>0
<1>1. ASSUME NEW q \in Requests, Request(q)
      PROVE  \/ pc[r] = "looked" /\ found[r] \in {"accepted", "noop"}
             \/ (Settle(q) \/ SettlePlain(q)) /\ subject[r] = subject[q]
  <2>1. CASE Found(q)
    <3>1. /\ pc[q] = "looked"
          /\ answer'[r] = IF r = q
               THEN CASE found[q] = "error" -> "unavailable"
                      [] found[q] = "miss"  -> "unknown"
                      [] OTHER              -> RetryAck(q, found[q])
               ELSE answer[r]
      BY <2>1 DEF Found, Reply
    <3>2. r = q
      BY <1>a, <3>1
    <3>3. found[q] \in Acks \cup {"miss", "error"}
      BY <3>1 DEF Kinds, RequestKinds
    <3>. QED
      BY <3>1, <3>2, <3>3 DEF RetryAck, Acks
  <2>2. CASE Settle(q) \/ SettleFailed(q) \/ SettlePlain(q)
    <3>1. ASSUME NEW ack \in Acks, Deliver(q, ack)
          PROVE  ack # "failed" /\ subject[r] = subject[q]
      <4>1. answer'[r] = IF r = q \/ (pc[r] = "joined" /\ subject[r] = subject[q])
                           THEN IF r = q THEN ack ELSE RetryAck(r, ack) ELSE answer[r]
        BY <3>1 DEF Deliver, Reply
      <4>. QED
        BY <1>a, <3>1, <4>1 DEF RetryAck, Acks
    <3>2. ~SettleFailed(q)
      BY <3>1 DEF SettleFailed, SettleWith, Acks
    <3>. QED
      BY <2>2, <3>1, <3>2, Settles
  <2>3. CASE Reject(q)
    BY <1>a, <2>3 DEF Reject, Reply
  <2>4. CASE Return(q)
    BY <1>0, <1>a, <2>4 DEF Return, TypeOK
  <2>5. CASE \/ JoinFlight(q) \/ FindNow(q) \/ AwaitIndex(q) \/ Missed(q) \/ Prepare(q) \/ Accept(q)
             \/ Admit(q) \/ Execute(q) \/ ExecuteFails(q)
    BY <1>a, <2>5 DEF JoinFlight, FindNow, AwaitIndex, Missed, Prepare, Accept, Admit, Execute,
                      ExecuteFails
  <2>. QED
    BY <1>1, <2>1, <2>2, <2>3, <2>4, <2>5 DEF Request
<1>2. ASSUME NEW q \in Requests, NEW c \in Cmds, NEW query \in BOOLEAN, Arrive(q, c, query)
      PROVE  FALSE
  BY <1>a, <1>2 DEF Arrive
<1>3. ASSUME NEW o \in Requests, Loading(o) PROVE FALSE
  BY <1>a, <1>3, LoadingGoesOn
<1>4. ASSUME NEW c \in Durable, Runtime(c) \/ Remove(c) PROVE FALSE
  BY <1>a, <1>4, RuntimeFrame DEF requestVars
<1>5. ~ResumeFails
  BY <1>a DEF ResumeFails, Reply
<1>6. ~(BeginAnyResume \/ Register \/ FinishResume \/ Deactivate \/ UNCHANGED vars)
  BY <1>a DEF BeginAnyResume, BeginResume, Register, FinishResume, Deactivate, vars, requestVars
<1>7. ~Crash
  BY <1>0 DEF Crash
<1>. QED
  BY <1>1, <1>2, <1>3, <1>4, <1>5, <1>6, <1>7 DEF Next, Resume

\* Whatever the store does, and whoever joins, retries or asks: a client that is told
\* "accepted" or "duplicate" of an input or a compact may rely on its execution.
THEOREM OnlyExecutedIsAcknowledged == Spec => AcceptedWasExecuted
<1>1. Spec => [](TypeOK /\ Kinds /\ Earned)
  <2>1. Inv => TypeOK /\ Kinds
    BY DEF Inv
  <2>2. Inv /\ Earned /\ [Next]_vars => Earned'
    BY <2>1, EarnedStep
  <2>. QED
    BY <2>1, <2>2, InitEarned, Invariance, PTL DEF Spec
<1>2. ASSUME TypeOK, Kinds, Earned, [Next]_vars, NEW r \in Requests,
             answer[r] = None, answer'[r] \in {"accepted", "duplicate"}
      PROVE  subject[r] \in Plain \/ taken[subject[r]] > 0
  <2>1. CASE pc[r] = "looked" /\ found[r] \in {"accepted", "noop"}
    <3>1. subject[r] \in Plain \/ subject[r] \in Durable
      BY <1>2, <2>1 DEF TypeOK, Kinds, RequestKinds, Cmds, Durable
    <3>. QED
      BY <1>2, <2>1, <3>1 DEF Earned, EarnedAt, Executed
  <2>2. ASSUME NEW q \in Requests, Settle(q), subject[r] = subject[q]
        PROVE  subject[r] \in Plain \/ taken[subject[r]] > 0
    <3>1. pc[q] = "settle"
      BY <2>2 DEF Settle
    <3>2. subject[q] \in Plain \/ subject[q] \in Durable
      BY <1>2, <3>1 DEF TypeOK, Kinds, RequestKinds, Cmds, Durable
    <3>. QED
      BY <1>2, <2>2, <3>1, <3>2 DEF Earned, EarnedAt, Executed
  <2>3. ASSUME NEW q \in Requests, SettlePlain(q), subject[r] = subject[q]
        PROVE  subject[r] \in Plain
    BY <2>3 DEF SettlePlain
  <2>. QED
    BY <1>2, <2>1, <2>2, <2>3, Acknowledged
<1>3. (TypeOK /\ Kinds /\ Earned) /\ [Next]_vars =>
        [\A r \in Requests :
           answer[r] = None /\ answer'[r] \in {"accepted", "duplicate"} =>
             subject[r] \in Plain \/ taken[subject[r]] > 0]_vars
  BY <1>2
<1>. QED
  BY <1>1, <1>3, PTL DEF Spec, AcceptedWasExecuted

-----------------------------------------------------------------------------
(* Each command once, and every answer true.                                *)

Promised == Orderly /\ Talk /\ Earned

onceVars == <<fate, subject, querying, executing, answer>>

\* What the fate of a command says of it.
LEMMA Fates ==
  ASSUME TypeOK, Kinds, NEW c \in Cmds
  PROVE  /\ fate[c] = Fate(c)
         /\ c \notin Durable => fate[c] = "open"
         /\ taken[c] = 0 <=> fate[c] = "open"
         /\ Executed(c) <=> fate[c] # "open"
         /\ Undone(c) => fate[c] \in {"open", "lost"}
<1>1. fate[c] = Fate(c)
  BY DEF fate
<1>2. taken[c] \in 0 .. 2 /\ (taken[c] > 0 => c \in Durable)
  BY DEF TypeOK, Kinds, CommandKinds
<1>3. taken[c] = 0 <=> Fate(c) = "open"
  BY DEF Fate
<1>4. Undone(c) => Fate(c) \in {"open", "lost"}
  BY DEF Fate, Undone
<1>. QED
  BY <1>1, <1>2, <1>3, <1>4 DEF Executed

LEMMA FateStays ==
  ASSUME UNCHANGED <<taken, timeline, work>>,
         \A c \in Cmds : row'[c] = "promoted" <=> row[c] = "promoted"
  PROVE  UNCHANGED fate
<1>1. \A c \in Cmds : Fate(c)' = Fate(c)
  BY DEF Fate
<1>. QED
  BY <1>1 DEF fate

LEMMA ExecutingStays ==
  ASSUME \A q \in Requests : pc'[q] = "settle" <=> pc[q] = "settle"
  PROVE  UNCHANGED executing
BY DEF executing

\* Answers that a call is told, whatever it is.
TrueAnswer(q, a) ==
  /\ subject[q] \in Durable => Once!Agrees(a, fate[subject[q]])
  /\ IF querying[q] THEN a \notin {"duplicate", "rejected"}
     ELSE a # "unknown" /\ (pc[q] = "settle" <=> a = "accepted")

LEMMA ReplyTells ==
  ASSUME TypeOK, Kinds, Talk, NEW rs \in SUBSET Requests, NEW reply, Reply(rs, reply),
         UNCHANGED <<subject, querying, fate>>,
         \A q \in rs : /\ pc[q] \notin {"idle", "answered"}
                       /\ reply[q] \in Answers /\ TrueAnswer(q, reply[q])
  PROVE  Once!Tell(rs)
<1>1. /\ pc' = [r \in Requests |-> IF r \in rs THEN "answered" ELSE pc[r]]
      /\ answer' = [r \in Requests |-> IF r \in rs THEN reply[r] ELSE answer[r]]
  BY DEF Reply
<1>2. ASSUME NEW q \in rs
      PROVE  Once!Pending(q) /\ answer'[q] # None /\ Once!Truthful(q, answer'[q])
  <2>1. q \in Requests /\ answer'[q] = reply[q]
    BY <1>1
  <2>2. subject[q] # None /\ answer[q] = None
    BY <2>1 DEF Kinds, RequestKinds, Talk, TalkAt
  <2>3. executing[q] <=> pc[q] = "settle"
    BY <2>1 DEF executing
  <2>. QED
    BY <2>1, <2>2, <2>3, AnswersAreSome DEF Once!Pending, Once!Truthful, TrueAnswer
<1>3. answer' = [r \in Requests |-> IF r \in rs THEN answer'[r] ELSE answer[r]]
  BY <1>1
<1>4. executing' = [r \in Requests |-> executing[r] /\ r \notin rs]
  <2>1. ASSUME NEW r \in Requests PROVE (pc'[r] = "settle") = (executing[r] /\ r \notin rs)
    BY <1>1 DEF executing
  <2>2. executing' = [r \in Requests |-> pc'[r] = "settle"]
    BY DEF executing
  <2>. QED
    BY <2>1, <2>2
<1>. QED
  BY <1>2, <1>3, <1>4 DEF Once!Tell

\* A durable command had no effect before its execution; a Plain one has no fate.
LEMMA FreshIsOpen ==
  ASSUME Promised, NEW r \in Requests, KnownFresh(r), subject[r] \in Durable
  PROVE  fate[subject[r]] = "open"
<1>1. subject[r] \in Cmds /\ taken[subject[r]] = 0
  BY DEF Promised, Orderly, Untaken, Durable, Cmds
<1>. QED
  BY <1>1, Fates DEF Promised, Orderly, Inv

LEMMA FoundTells ==
  ASSUME Promised, NEW r \in Requests, Found(r)
  PROVE  Once!Tell({r})
<1>. DEFINE a == CASE found[r] = "error" -> "unavailable"
                   [] found[r] = "miss"  -> "unknown"
                   [] OTHER              -> RetryAck(r, found[r])
            reply == [q \in {r} |-> a]
<1>0. TypeOK /\ Kinds /\ Talk
  BY DEF Promised, Orderly, Inv
<1>1. /\ Reply({r}, reply) /\ UNCHANGED <<subject, querying>>
      /\ UNCHANGED <<taken, timeline, work, row>>
      /\ pc[r] = "looked" /\ (found[r] # "miss" \/ querying[r])
  BY DEF Found, ledgerVars, runtimeVars
<1>2. UNCHANGED fate
  BY <1>1, FateStays
<1>3. found[r] \in Acks \cup {"miss", "error"}
  BY <1>0, <1>1 DEF Kinds, RequestKinds
<1>4. a \in Answers
  BY <1>3 DEF RetryAck, Answers, Acks
<1>5. ASSUME subject[r] \in Durable PROVE Once!Agrees(a, fate[subject[r]])
  <2>1. subject[r] \in Cmds
    BY <1>5 DEF Durable, Cmds
  <2>2. found[r] # "noop" /\ (found[r] = "accepted" => fate[subject[r]] # "open")
    BY <1>0, <1>1, <1>5, <2>1, Fates DEF Promised, Earned, EarnedAt
  <2>3. found[r] = "miss" => fate[subject[r]] = "open"
    BY <1>1, <1>5, FreshIsOpen DEF KnownFresh, Missing
  <2>4. found[r] = "failed" => fate[subject[r]] \in {"open", "lost"}
    BY <1>0, <1>1, <2>1, Fates DEF Promised, Orderly, Inv, Told, ToldAt, Refused
  <2>. QED
    BY <1>3, <2>2, <2>3, <2>4 DEF RetryAck, Acks, Once!Agrees
<1>6. IF querying[r] THEN a \notin {"duplicate", "rejected"}
      ELSE a # "unknown" /\ a # "accepted"
  BY <1>1, <1>3 DEF RetryAck, Acks
<1>7. TrueAnswer(r, a)
  BY <1>1, <1>5, <1>6 DEF TrueAnswer
<1>8. \A q \in {r} : /\ pc[q] \notin {"idle", "answered"}
                     /\ reply[q] \in Answers /\ TrueAnswer(q, reply[q])
  BY <1>1, <1>4, <1>7
<1>9. {r} \in SUBSET Requests
  OBVIOUS
<1>. HIDE DEF reply
<1>. QED
  BY <1>0, <1>1, <1>2, <1>8, <1>9, ReplyTells

LEMMA RejectTells ==
  ASSUME Promised, NEW r \in Requests, Reject(r)
  PROVE  Once!Tell({r})
<1>. DEFINE reply == [q \in {r} |-> "rejected"]
<1>0. TypeOK /\ Kinds /\ Talk
  BY DEF Promised, Orderly, Inv
<1>1. /\ Reply({r}, reply) /\ UNCHANGED <<subject, querying>>
      /\ UNCHANGED <<taken, timeline, work, row>> /\ pc[r] = "decide"
  BY DEF Reject, ledgerVars, runtimeVars
<1>2. UNCHANGED fate
  BY <1>1, FateStays
<1>3. ~querying[r]
  BY <1>1 DEF Promised, Talk, TalkAt
<1>4. subject[r] \in Durable => fate[subject[r]] = "open"
  BY <1>1, FreshIsOpen DEF KnownFresh
<1>5. TrueAnswer(r, "rejected")
  BY <1>1, <1>3, <1>4 DEF TrueAnswer, Once!Agrees
<1>6. /\ {r} \in SUBSET Requests
      /\ \A q \in {r} : /\ pc[q] \notin {"idle", "answered"}
                        /\ reply[q] \in Answers /\ TrueAnswer(q, reply[q])
  BY <1>1, <1>5 DEF Answers
<1>. HIDE DEF reply
<1>. QED
  BY <1>0, <1>1, <1>2, <1>6, ReplyTells

LEMMA DeliverTells ==
  ASSUME Promised, NEW r \in Requests, pc[r] \in Executing, NEW ack \in Acks, Deliver(r, ack),
         UNCHANGED <<subject, querying, fate>>,
         pc[r] = "settle" <=> ack = "accepted",
         ack = "noop" => subject[r] \notin Durable,
         ack = "failed" /\ subject[r] \in Durable => fate[subject[r]] \in {"open", "lost"}
  PROVE  \E R \in SUBSET Requests : Once!Tell(R)
<1>. DEFINE rs == {r} \cup {q \in Requests : pc[q] = "joined" /\ subject[q] = subject[r]}
            reply == [q \in rs |-> IF q = r THEN ack ELSE RetryAck(q, ack)]
<1>0. TypeOK /\ Kinds /\ Talk
  BY DEF Promised, Orderly, Inv
<1>1. rs \in SUBSET Requests /\ Reply(rs, reply)
  BY DEF Deliver
<1>2. ack = "accepted" /\ subject[r] \in Durable => fate[subject[r]] # "open"
  <2>. SUFFICES ASSUME ack = "accepted", subject[r] \in Durable PROVE fate[subject[r]] # "open"
    OBVIOUS
  <2>1. subject[r] \in Cmds /\ Executed(subject[r])
    BY DEF Promised, Earned, EarnedAt, Durable, Cmds
  <2>. QED
    BY <1>0, <2>1, Fates
<1>3. ~querying[r]
  BY DEF Promised, Talk, TalkAt
<1>4. TrueAnswer(r, ack)
  BY <1>2, <1>3 DEF TrueAnswer, Once!Agrees, Acks
<1>5. ASSUME NEW q \in Requests, pc[q] = "joined", subject[q] = subject[r]
      PROVE  TrueAnswer(q, RetryAck(q, ack))
  BY <1>2, <1>5 DEF TrueAnswer, RetryAck, Once!Agrees, Acks
<1>6. \A q \in rs : /\ pc[q] \notin {"idle", "answered"}
                    /\ reply[q] \in Answers /\ TrueAnswer(q, reply[q])
  BY <1>4, <1>5 DEF RetryAck, Answers, Acks, Executing
<1>. HIDE DEF rs, reply
<1>. QED
  BY <1>0, <1>1, <1>6, ReplyTells

LEMMA SettleTells ==
  ASSUME Promised, NEW r \in Requests, Settle(r) \/ SettleFailed(r) \/ SettlePlain(r)
  PROVE  \E R \in SUBSET Requests : Once!Tell(R)
<1>0. TypeOK /\ Kinds
  BY DEF Promised, Orderly, Inv
<1>1. UNCHANGED <<subject, querying, taken, timeline, work>> /\ pc[r] \in Executing
  BY Settles, <1>0 DEF Settle, SettleFailed, SettlePlain, ledgerVars, runtimeVars
<1>2. \A c \in Cmds : row'[c] = "promoted" <=> row[c] = "promoted"
  BY <1>0 DEF Settle, SettleFailed, SettlePlain, ledgerVars, TypeOK
<1>3. UNCHANGED fate
  BY <1>1, <1>2, FateStays
<1>4. CASE Settle(r)
  <2>1. pc[r] = "settle" /\ Deliver(r, "accepted") /\ "accepted" \in Acks
    BY <1>4 DEF Settle, Acks
  <2>. QED
    BY <1>1, <1>3, <2>1, DeliverTells
<1>5. CASE SettleFailed(r)
  <2>1. pc[r] \in {"admit", "cancel"} /\ Deliver(r, "failed") /\ "failed" \in Acks
    BY <1>5 DEF SettleFailed, SettleWith, Acks
  <2>2. subject[r] \in Durable => fate[subject[r]] = "open"
    BY <2>1, FreshIsOpen DEF KnownFresh
  <2>. QED
    BY <1>1, <1>3, <2>1, <2>2, DeliverTells
<1>6. CASE SettlePlain(r)
  <2>1. /\ pc[r] = "execute" /\ subject[r] \notin Durable
        /\ \E ack \in {"failed", "noop"} : Deliver(r, ack)
    BY <1>6, KindsAreDisjoint DEF SettlePlain, SettleWith
  <2>2. PICK ack \in {"failed", "noop"} : Deliver(r, ack)
    BY <2>1
  <2>3. ack \in Acks
    BY DEF Acks
  <2>. QED
    BY <1>1, <1>3, <2>1, <2>2, <2>3, DeliverTells
<1>. QED
  BY <1>4, <1>5, <1>6

LEMMA ExecuteBegins ==
  ASSUME Promised, NEW r \in Requests, Execute(r)
  PROVE  Once!Begin(r)
<1>0. TypeOK /\ Kinds /\ Gates
  BY DEF Promised, Orderly, Inv
<1>. DEFINE c == subject[r]
<1>1. /\ pc[r] = "execute" /\ pc' = [pc EXCEPT ![r] = "settle"]
      /\ UNCHANGED <<subject, querying, answer, row, timeline>>
  BY DEF Execute, ledgerVars
<1>2. Once!Pending(r) /\ ~querying[r]
  BY <1>0, <1>1 DEF Promised, Talk, TalkAt, Kinds, RequestKinds, Once!Pending, Executing
<1>3. \A q \in Requests : ~executing[q]
  <2>1. \A q \in Requests : pc[q] # "settle"
    BY <1>0, <1>1, Exclusion DEF OnSession, Executing
  <2>. QED
    BY <2>1 DEF executing
<1>4. executing' = [executing EXCEPT ![r] = TRUE]
  BY <1>0, <1>1 DEF executing, TypeOK
<1>5. \/ c \in Durable /\ Once!Becomes(c, "open", "running")
      \/ c \notin Durable /\ UNCHANGED fate
  <2>1. CASE c \in Plain /\ UNCHANGED runtimeVars
    <3>1. c \notin Durable
      BY <2>1, KindsAreDisjoint
    <3>2. UNCHANGED fate
      BY <1>1, <2>1, FateStays DEF runtimeVars
    <3>. QED
      BY <3>1, <3>2
  <2>2. CASE c \in Durable
    <3>1. c \in Cmds /\ fate[c] = "open"
      BY <1>1, <2>2, FreshIsOpen DEF KnownFresh, Durable, Cmds
    <3>2. Undone(c)
      BY <1>1 DEF Promised, Orderly, Inv, Told, ToldAt, KnownFresh
    <3>3. Executed(c)'
      BY <1>0, <2>2, ExecuteTakes
    <3>4. work'[c] # "none"
      BY <1>0, <2>2, <3>1, KindsAreDisjoint DEF Execute, TypeOK
    <3>u. UNCHANGED c
      BY <1>1
    <3>5. Fate(c)' = "running"
      <4>1. taken'[c] # 0
        BY <3>3, <3>u DEF Executed
      <4>. QED
        BY <1>1, <3>2, <3>4, <3>u, <4>1 DEF Fate, Undone
    <3>6. ASSUME NEW d \in Cmds \ {c} PROVE Fate(d)' = fate[d]
      <4>1. taken'[d] = taken[d] /\ work'[d] = work[d]
        BY <1>0, <3>6, RequestTouches DEF Request
      <4>. QED
        BY <1>1, <4>1 DEF Fate, fate
    <3>. HIDE DEF c
    <3>7. fate' = [fate EXCEPT ![c] = "running"]
      <4>1. fate' = [d \in Cmds |-> IF d = c THEN "running" ELSE fate[d]]
        <5>1. fate' = [d \in Cmds |-> Fate(d)']
          BY DEF fate
        <5>. QED
          BY <3>5, <3>6, <3>u, <5>1
      <4>2. fate = [d \in Cmds |-> fate[d]]
        BY DEF fate
      <4>. QED
        BY <3>1, <4>1, <4>2
    <3>. QED
      BY <2>2, <3>1, <3>7 DEF Once!Becomes
  <2>. QED
    BY <2>1, <2>2 DEF Execute
<1>. QED
  BY <1>1, <1>2, <1>3, <1>4, <1>5 DEF Once!Begin

LEMMA RequestRefines ==
  ASSUME Promised, NEW r \in Requests, Request(r)
  PROVE  Once!Next \/ UNCHANGED onceVars
<1>0. TypeOK /\ Kinds
  BY DEF Promised, Orderly, Inv
<1>1. CASE \/ JoinFlight(r) \/ FindNow(r) \/ AwaitIndex(r) \/ Missed(r) \/ Prepare(r) \/ Accept(r)
           \/ Admit(r) \/ ExecuteFails(r)
  <2>1. UNCHANGED <<subject, querying, answer, taken, timeline, work>>
    BY <1>1 DEF JoinFlight, FindNow, AwaitIndex, Missed, Prepare, Accept, Admit, ExecuteFails,
                ledgerVars, runtimeVars
  <2>2. \A c \in Cmds : row'[c] = "promoted" <=> row[c] = "promoted"
    BY <1>0, <1>1 DEF JoinFlight, FindNow, AwaitIndex, Missed, Prepare, Accept, Admit, ExecuteFails,
                      ledgerVars, TypeOK
  <2>3. \A q \in Requests : pc'[q] = "settle" <=> pc[q] = "settle"
    BY <1>0, <1>1 DEF JoinFlight, FindNow, AwaitIndex, AtLookup, Missed, Prepare, Accept, Admit,
                      ExecuteFails, TypeOK
  <2>. QED
    BY <2>1, <2>2, <2>3, FateStays, ExecutingStays DEF onceVars
<1>2. CASE Found(r) \/ Reject(r)
  BY <1>2, FoundTells, RejectTells DEF Once!Next
<1>3. CASE Settle(r) \/ SettleFailed(r) \/ SettlePlain(r)
  BY <1>3, SettleTells DEF Once!Next
<1>4. CASE Execute(r)
  BY <1>4, ExecuteBegins DEF Once!Next
<1>5. CASE Return(r)
  <2>1. answer[r] # None
    BY <1>5 DEF Return, Promised, Talk, TalkAt
  <2>2. UNCHANGED <<taken, timeline, work, row>>
    BY <1>5 DEF Return, ledgerVars, runtimeVars
  <2>3. \A q \in Requests : pc'[q] = "settle" <=> pc[q] = "settle"
    BY <1>0, <1>5 DEF Return, TypeOK
  <2>4. Once!Return(r)
    BY <1>5, <2>1, <2>2, <2>3, FateStays, ExecutingStays DEF Return, Once!Return
  <2>. QED
    BY <2>4 DEF Once!Next
<1>. QED
  BY <1>1, <1>2, <1>3, <1>4, <1>5 DEF Request

\* What the runtime does with a command ends its execution, or is no news.
LEMMA RuntimeRefines ==
  ASSUME Promised, NEW c \in Durable, Runtime(c) \/ Remove(c)
  PROVE  Once!Next \/ UNCHANGED onceVars
<1>0. TypeOK /\ Kinds /\ c \in Cmds
  BY DEF Promised, Orderly, Inv, Durable, Cmds
<1>1. UNCHANGED <<pc, subject, querying, answer, taken>>
  BY RuntimeFrame DEF requestVars
<1>2. UNCHANGED executing
  BY <1>1, ExecutingStays
<1>3. ASSUME NEW d \in Cmds \ {c} PROVE Fate(d)' = fate[d]
  <2>1. /\ row'[d] = row[d] /\ work'[d] = work[d] /\ taken'[d] = taken[d]
        /\ d \in timeline' <=> d \in timeline
    BY <1>0, <1>1, RuntimeTouches
  <2>. QED
    BY <2>1 DEF Fate, fate
<1>4. fate' = [fate EXCEPT ![c] = Fate(c)']
  <2>1. fate' = [d \in Cmds |-> Fate(d)'] /\ fate = [d \in Cmds |-> fate[d]]
    BY DEF fate
  <2>. QED
    BY <1>0, <1>3, <2>1
<1>5. taken[c] # 0 /\ taken'[c] # 0 /\ work[c] # "none"
  BY <1>0, <1>1, RuntimeTouches DEF Promised, Earned, EffectEarned, Executed
<1>6. /\ row[c] = "promoted" => row'[c] = "promoted"
      /\ c \in timeline => c \in timeline'
  BY <1>0 DEF Runtime, Remove, Drain, Promote, Blocked, Announce, CompactOver, RecordFact, RecordFails,
              ledgerVars, TypeOK
<1>7. /\ fate[c] = IF row[c] = "promoted" \/ c \in timeline THEN "kept" ELSE "running"
      /\ Fate(c)' = IF row'[c] = "promoted" \/ c \in timeline' THEN "kept"
                    ELSE IF work'[c] # "none" THEN "running" ELSE "lost"
  BY <1>0, <1>5 DEF Fate, fate
<1>8. \/ Fate(c)' = fate[c]
      \/ fate[c] = "running" /\ Fate(c)' \in {"kept", "lost"}
  BY <1>6, <1>7
<1>9. CASE Fate(c)' = fate[c]
  <2>1. UNCHANGED fate
    BY <1>4, <1>9 DEF fate
  <2>. QED
    BY <1>1, <1>2, <2>1 DEF onceVars
<1>10. CASE fate[c] = "running" /\ Fate(c)' \in {"kept", "lost"}
  <2>1. Once!Becomes(c, "running", "kept") \/ Once!Becomes(c, "running", "lost")
    BY <1>4, <1>10 DEF Once!Becomes
  <2>2. UNCHANGED <<subject, querying, executing, answer>>
    BY <1>1, <1>2
  <2>3. Once!End(c)
    BY <2>1, <2>2 DEF Once!End, Once!calls
  <2>. QED
    BY <2>3 DEF Once!Next
<1>. QED
  BY <1>8, <1>9, <1>10

LEMMA CrashDies ==
  ASSUME TypeOK, Kinds, Crash
  PROVE  Once!Die
<1>1. /\ subject' = [r \in Requests |-> None] /\ querying' = [r \in Requests |-> FALSE]
      /\ answer' = [r \in Requests |-> None] /\ pc' = [r \in Requests |-> "idle"]
      /\ work' = [c \in Cmds |-> "none"] /\ UNCHANGED <<row, timeline, taken>>
  BY DEF Crash, ledgerVars
<1>2. executing' = [r \in Requests |-> FALSE]
  BY <1>1 DEF executing
<1>3. ASSUME NEW c \in Cmds PROVE Fate(c)' = IF fate[c] = "running" THEN "lost" ELSE fate[c]
  BY <1>1 DEF Fate, fate
<1>4. fate' = [c \in Cmds |-> IF fate[c] = "running" THEN "lost" ELSE fate[c]]
  BY <1>3 DEF fate
<1>. QED
  BY <1>1, <1>2, <1>4 DEF Once!Die

LEMMA StepRefines ==
  ASSUME Promised, [Next]_vars
  PROVE  Once!Next \/ UNCHANGED onceVars
<1>0. TypeOK /\ Kinds /\ Talk
  BY DEF Promised, Orderly, Inv
<1>1. ASSUME NEW r \in Requests, NEW c \in Cmds, NEW query \in BOOLEAN, Arrive(r, c, query)
      PROVE  Once!Next
  <2>1. /\ subject[r] = None /\ UNCHANGED <<answer, row, timeline, work, taken>>
        /\ \A q \in Requests : pc'[q] = "settle" <=> pc[q] = "settle"
    BY <1>0, <1>1 DEF Arrive, Talk, TalkAt, TypeOK, ledgerVars, runtimeVars
  <2>2. Once!Ask(r, c, query)
    BY <1>1, <2>1, FateStays, ExecutingStays DEF Arrive, Once!Ask
  <2>. QED
    BY <2>2 DEF Once!Next
<1>2. ASSUME NEW r \in Requests, Request(r) PROVE Once!Next \/ UNCHANGED onceVars
  BY <1>2, RequestRefines
<1>3. ASSUME NEW o \in Requests, Loading(o) PROVE UNCHANGED onceVars
  <2>1. UNCHANGED <<subject, querying, answer, timeline, work, taken>>
    BY <1>0, <1>3, LoadingGoesOn DEF runtimeVars
  <2>2. \A q \in Requests : pc'[q] = "settle" <=> pc[q] = "settle"
    BY <1>0, <1>3, LoadingGoesOn
  <2>3. \A c \in Cmds : row'[c] = "promoted" <=> row[c] = "promoted"
    BY <1>3 DEF Loading, LoadDone, LoadFails, Swept, ledgerVars
  <2>. QED
    BY <2>1, <2>2, <2>3, FateStays, ExecutingStays DEF onceVars
<1>4. ASSUME NEW c \in Durable, Runtime(c) \/ Remove(c) PROVE Once!Next \/ UNCHANGED onceVars
  BY <1>4, RuntimeRefines
<1>5. CASE BeginAnyResume \/ Register \/ Deactivate \/ UNCHANGED vars
  <2>1. UNCHANGED <<pc, subject, querying, answer, row, timeline, work, taken>>
    BY <1>5 DEF BeginAnyResume, BeginResume, Register, Deactivate, vars, requestVars, ledgerVars,
                runtimeVars
  <2>. QED
    BY <2>1, FateStays, ExecutingStays DEF onceVars
<1>6. CASE FinishResume
  <2>1. UNCHANGED <<subject, querying, answer, timeline, work, taken>>
    BY <1>6 DEF FinishResume, runtimeVars
  <2>2. \A q \in Requests : pc'[q] = "settle" <=> pc[q] = "settle"
    BY <1>6 DEF FinishResume
  <2>3. \A c \in Cmds : row'[c] = "promoted" <=> row[c] = "promoted"
    BY <1>6 DEF FinishResume, Swept
  <2>. QED
    BY <2>1, <2>2, <2>3, FateStays, ExecutingStays DEF onceVars
<1>7. CASE ResumeFails
  <2>. DEFINE cold == {r \in Requests : pc[r] = "cold"}
              reply == [r \in cold |-> "unavailable"]
  <2>1. /\ Reply(cold, reply) /\ UNCHANGED <<subject, querying>>
        /\ UNCHANGED <<row, timeline, work, taken>>
    BY <1>7 DEF ResumeFails, ledgerVars, runtimeVars
  <2>2. UNCHANGED fate
    BY <2>1, FateStays
  <2>3. /\ cold \in SUBSET Requests
        /\ \A q \in cold : /\ pc[q] \notin {"idle", "answered"}
                           /\ reply[q] \in Answers /\ TrueAnswer(q, reply[q])
    BY DEF Answers, TrueAnswer, Once!Agrees
  <2>. HIDE DEF cold, reply
  <2>4. Once!Tell(cold)
    BY <1>0, <2>1, <2>2, <2>3, ReplyTells
  <2>. QED
    BY <2>3, <2>4 DEF Once!Next
<1>8. CASE Crash
  BY <1>0, <1>8, CrashDies DEF Once!Next
<1>. QED
  BY <1>1, <1>2, <1>3, <1>4, <1>5, <1>6, <1>7, <1>8 DEF Next, Resume

\* While the store answers and every resume goes through the READY gate, gates, tables,
\* index, ledger and resume together are what a client may count on when it repeats a
\* command: it executes once, by one call at a time, and whatever any call is told of
\* it agrees with what became of the execution, through evictions and crashes.
THEOREM OnceRefinement == Regular => (Spec => ImplementsOnceOnly)
<1>. SUFFICES ASSUME Regular PROVE Spec => ImplementsOnceOnly
  OBVIOUS
<1>1. Init => Promised /\ Once!Init
  <2>. SUFFICES ASSUME Init PROVE Promised /\ Once!Init
    OBVIOUS
  <2>1. Talk
    BY DEF Init, Talk, TalkAt, Executing
  <2>2. fate = [c \in Cmds |-> "open"]
    BY DEF Init, fate, Fate
  <2>3. executing = [r \in Requests |-> FALSE]
    BY DEF Init, executing
  <2>. QED
    BY <2>1, <2>2, <2>3, InitOrderly, InitEarned DEF Init, Once!Init, Promised
<1>2. Promised /\ [Next]_vars => Promised'
  <2>1. Promised => TypeOK /\ Kinds
    BY DEF Promised, Orderly, Inv
  <2>. QED
    BY <2>1, StepOrderly, TalkStep, EarnedStep DEF Promised
<1>3. Promised /\ [Next]_vars => [Once!Next]_onceVars
  BY StepRefines
<1>. QED
  BY <1>1, <1>2, <1>3, PTL DEF Spec, Once!Spec, ImplementsOnceOnly, onceVars
=============================================================================
