--------------------------- MODULE CommandInboxProofs ---------------------------
(* Safety of CommandInbox for every set of commands and of concurrent calls, *)
(* every size of the settled table and every number of crashes.  That one    *)
(* command executes at a time, that what the runtime works on is pinned, and *)
(* that "failed" is told only of what had no effect need nothing else; that  *)
(* no input is executed twice, swept away or forgotten needs a store that    *)
(* answers and no resume outside the READY gate.                             *)
EXTENDS CommandInbox, FiniteSetTheorems, TLAPS

-----------------------------------------------------------------------------
(* The gates.                                                               *)

\* A line of distinct requests of which only the first may have gone on: the
\* others are all in W, the first in W or in H.
Lined(gate, W, H) ==
  /\ \A i, j \in DOMAIN gate : gate[i] = gate[j] => i = j
  /\ \A i \in DOMAIN gate : gate[i] \in W \/ (i = 1 /\ gate[1] \in H)

\* Where a request holds its key gate, and where it holds the session gate.
OnKey == {"load", "looked", "gate", "prepare", "cold", "decide", "joined"}
OnSession == {"prepare", "cold", "decide"} \cup Executing

AtKey(c) == {r \in Requests : pc[r] = "key" /\ subject[r] = c}
KeyHolders(c) == {r \in Requests : pc[r] \in OnKey /\ subject[r] = c}
AtGate == {r \in Requests : pc[r] = "gate"}
SessionHolders == {r \in Requests : pc[r] \in {"load", "looked"} \cup OnSession}

Gates ==
  /\ \A c \in Cmds : Lined(keyGate[c], AtKey(c), KeyHolders(c))
  /\ \A r \in Requests : pc[r] \in OnKey => HoldsKey(r)
  /\ Lined(sessionGate, AtGate, SessionHolders)
  /\ \A r \in Requests : pc[r] \in OnSession => HoldsSession(r)

Flights == \A r \in Requests : pc[r] = "joined" => subject[r] \in InFlight

\* What goes with where a request is.
RequestKinds ==
  \A r \in Requests :
    /\ pc[r] # "idle" => subject[r] # None
    /\ pc[r] = "looked" => found[r] \in Acks \cup {"miss", "error"}
    /\ pc[r] \in {"admit", "cancel"} => subject[r] \in Durable
    /\ pc[r] \in {"execute", "cancel", "settle"} /\ subject[r] \in Durable =>
         row[subject[r]] # "none"

\* What goes with where a command is.
CommandKinds ==
  \A c \in Cmds :
    /\ work[c] # "none" => c \in Durable /\ row[c] # "none"
    /\ work[c] = "recording" => c \in Compacts
    /\ work[c] \in {"promoting", "removing"} => row[c] # "admitted"
    /\ row[c] = "promoted" => c \in Inputs
    /\ row[c] # "none" => c \in Durable
    /\ taken[c] > 0 => row[c] # "none"
    /\ live[c] # None => live[c] = "accepted" /\ c \in Durable

Kinds == RequestKinds /\ CommandKinds

Missing(r) == pc[r] = "looked" /\ found[r] = "miss"

Deciding(r) == pc[r] \in {"load", "prepare", "cold", "decide"} \/ Missing(r)

\* Nobody works on the command of a request that is about to be decided.
Clean ==
  \A r \in Requests :
    LET c == subject[r] IN
    /\ Deciding(r) => c \notin InFlight
    /\ Deciding(r) \/ pc[r] = "admit" =>
         live[c] = None /\ work[c] = "none" /\ ~Remembered(c)
    /\ pc[r] \in {"execute", "cancel"} =>
         work[c] = "none" /\ (c \in Durable => live[c] # None)

\* A pin for whatever the runtime works on.
Pins == \A c \in Cmds : work[c] # "none" => live[c] # None

\* The command had none of its effects.
Undone(c) == row[c] # "promoted" /\ c \notin timeline /\ work[c] = "none"

KnownFresh(r) ==
  Missing(r) \/ pc[r] \in {"prepare", "cold", "decide", "admit", "execute", "cancel"}

\* The request is about to be told of a failure.
Refused(r) == pc[r] = "looked" /\ found[r] = "failed"

\* The memory tables and the loaded index tell of a failure only where there was
\* one, and a decision is only made on a command that had no effect.
ToldAt(r) ==
  /\ KnownFresh(r) => Undone(subject[r])
  /\ Refused(r) => /\ Undone(subject[r]) /\ live[subject[r]] = None
                   /\ subject[r] \notin InFlight

SettledTells ==
  \A i \in DOMAIN settled, c \in Cmds : settled[i].cmd = c /\ settled[i].ack = "failed" =>
    Undone(c) /\ live[c] = None

IndexTells ==
  index \in Facts => \A c \in Cmds : live[c] = None =>
    /\ row[c] = "promoted" => c \in index.transcript
    /\ c \in timeline => c \in index.timeline

Told == (\A r \in Requests : ToldAt(r)) /\ SettledTells /\ IndexTells

\* A load under way is the work of the request that started it.
Loads == \A o \in Requests : sweeping[o] # None => pc[o] = "load" /\ found[o] = o

-----------------------------------------------------------------------------
(* With a store that answers and no resume outside the READY gate.          *)

Calm ==
  /\ ~resident \/ resuming # "no" =>
       /\ \A c \in Cmds : live[c] = None
       /\ \A r \in Requests : pc[r] \notin Executing
  /\ resident /\ resuming # "no" => \A r \in Requests : ~Runnable(r)
  /\ resuming # "legacy"
  /\ \A o \in Requests : /\ sweeping[o] = TRUE => ~resident
                         /\ sweeping[o] = FALSE => resident

NoStray ==
  index \in Facts \/ (resident /\ resuming = "no") =>
    \A c \in Cmds : row[c] = "admitted" => live[c] # None

Complete ==
  index \in Facts => \A c \in Durable :
    live[c] = None /\ (row[c] = "discarded" \/ taken[c] > 0) => FactIn(index, c) # "miss"

Untaken ==
  \A r \in Requests : KnownFresh(r) /\ subject[r] \in Durable =>
    LET c == subject[r] IN
    /\ taken[c] = 0
    /\ row[c] # "discarded"
    /\ pc[r] \notin {"execute", "cancel"} => row[c] # "admitted"

-----------------------------------------------------------------------------
(* Lines of requests.                                                       *)

LEMMA PassOnIsLine ==
  ASSUME NEW S, NEW gate \in Seq(S), NEW rs
  PROVE  PassOn(gate, rs) \in Seq(S)
BY DEF PassOn

\* A line passed on by members of rs, none of whom waits, has lost them.
LEMMA LinedPassOn ==
  ASSUME NEW S, NEW gate \in Seq(S), NEW W, NEW H, NEW rs,
         Lined(gate, W, H), rs \cap W = {}
  PROVE  /\ Lined(PassOn(gate, rs), W, H \ rs)
         /\ \A r : r \notin rs /\ gate # <<>> /\ Head(gate) = r =>
              PassOn(gate, rs) # <<>> /\ Head(PassOn(gate, rs)) = r
<1>1. CASE gate # <<>> /\ Head(gate) \in rs
  <2>1. PassOn(gate, rs) = Tail(gate)
    BY <1>1 DEF PassOn
  <2>2. /\ DOMAIN gate = 1 .. Len(gate) /\ DOMAIN Tail(gate) = 1 .. Len(gate) - 1
        /\ \A i \in 1 .. Len(gate) - 1 : Tail(gate)[i] = gate[i + 1]
        /\ Len(gate) \in Nat
    BY <1>1
  <2>3. \A i \in DOMAIN Tail(gate) : i + 1 \in DOMAIN gate /\ i + 1 # 1
    BY <2>2
  <2>4. \A i \in DOMAIN Tail(gate) : Tail(gate)[i] \in W
    BY <2>2, <2>3 DEF Lined
  <2>5. \A i, j \in DOMAIN Tail(gate) : Tail(gate)[i] = Tail(gate)[j] => i = j
    <3>. SUFFICES ASSUME NEW i \in DOMAIN Tail(gate), NEW j \in DOMAIN Tail(gate),
                         Tail(gate)[i] = Tail(gate)[j]
                  PROVE  i = j
      OBVIOUS
    <3>1. gate[i + 1] = gate[j + 1]
      BY <2>2
    <3>2. i + 1 = j + 1
      BY <2>3, <3>1 DEF Lined
    <3>. QED
      BY <2>2, <3>2
  <2>. QED
    BY <1>1, <2>1, <2>4, <2>5 DEF Lined
<1>2. CASE ~(gate # <<>> /\ Head(gate) \in rs)
  <2>1. PassOn(gate, rs) = gate
    BY <1>2 DEF PassOn
  <2>2. \A i \in DOMAIN gate : gate[i] \in W \/ (i = 1 /\ gate[1] \in H \ rs)
    <3>. SUFFICES ASSUME NEW i \in DOMAIN gate, gate[i] \notin W
                  PROVE  i = 1 /\ gate[1] \in H \ rs
      OBVIOUS
    <3>1. i = 1 /\ gate[1] \in H
      BY DEF Lined
    <3>2. gate # <<>> /\ Head(gate) = gate[1]
      BY <3>1
    <3>. QED
      BY <1>2, <3>1, <3>2
  <2>. QED
    BY <2>1, <2>2 DEF Lined
<1>. QED
  BY <1>1, <1>2

\* A newcomer goes to the end of the line.
LEMMA LinedAppend ==
  ASSUME NEW S, NEW gate \in Seq(S), NEW W, NEW H, NEW r \in S,
         Lined(gate, W, H), r \notin W \cup H
  PROVE  /\ Lined(Append(gate, r), W \cup {r}, H)
         /\ \A q : gate # <<>> /\ Head(gate) = q =>
              Append(gate, r) # <<>> /\ Head(Append(gate, r)) = q
<1>1. /\ DOMAIN gate = 1 .. Len(gate) /\ Len(gate) \in Nat
      /\ DOMAIN Append(gate, r) = 1 .. Len(gate) + 1
      /\ \A i \in 1 .. Len(gate) : Append(gate, r)[i] = gate[i]
      /\ Append(gate, r)[Len(gate) + 1] = r
  OBVIOUS
<1>2. \A i \in DOMAIN gate : gate[i] # r
  BY <1>1 DEF Lined
<1>3. \A i \in DOMAIN Append(gate, r) :
        (i \in DOMAIN gate /\ Append(gate, r)[i] = gate[i])
          \/ (i = Len(gate) + 1 /\ Append(gate, r)[i] = r)
  BY <1>1
<1>4. \A i, j \in DOMAIN Append(gate, r) :
        Append(gate, r)[i] = Append(gate, r)[j] => i = j
  BY <1>2, <1>3 DEF Lined
<1>5. \A i \in DOMAIN Append(gate, r) :
        Append(gate, r)[i] \in W \cup {r}
          \/ (i = 1 /\ Append(gate, r)[1] \in H)
  BY <1>1, <1>3 DEF Lined
<1>6. \A q : gate # <<>> /\ Head(gate) = q =>
        Append(gate, r) # <<>> /\ Head(Append(gate, r)) = q
  <2>. SUFFICES ASSUME gate # <<>>
                PROVE  Append(gate, r) # <<>> /\ Head(Append(gate, r)) = Head(gate)
    OBVIOUS
  <2>1. 1 \in 1 .. Len(gate)
    BY <1>1
  <2>. QED
    BY <1>1, <2>1
<1>. QED
  BY <1>4, <1>5, <1>6 DEF Lined

\* The line stays as long as only its first goes on.
LEMMA LinedKeep ==
  ASSUME NEW S, NEW gate \in Seq(S), NEW W, NEW H, NEW V, NEW G,
         Lined(gate, W, H),
         \A q \in W : q \in V \/ (q \in G /\ gate # <<>> /\ q = Head(gate)),
         \A q \in H : q \in V \cup G
  PROVE  Lined(gate, V, G)
<1>. SUFFICES ASSUME NEW i \in DOMAIN gate, gate[i] \notin V
              PROVE  i = 1 /\ gate[1] \in G
  BY DEF Lined
<1>1. CASE gate[i] \in W
  <2>1. gate[i] = Head(gate) /\ gate[i] \in G /\ gate # <<>>
    BY <1>1
  <2>2. Head(gate) = gate[1] /\ 1 \in DOMAIN gate
    BY <2>1
  <2>. QED
    BY <2>1, <2>2 DEF Lined
<1>2. CASE i = 1 /\ gate[1] \in H
  BY <1>2
<1>. QED
  BY <1>1, <1>2 DEF Lined

\* Nobody is first twice.
LEMMA OneHolder ==
  ASSUME NEW r \in Requests, NEW q \in Requests
  PROVE  /\ HoldsSession(r) /\ HoldsSession(q) => r = q
         /\ HoldsKey(r) /\ HoldsKey(q) /\ subject[r] = subject[q] => r = q
BY DEF HoldsSession, HoldsKey

-----------------------------------------------------------------------------
(* The settled table.                                                       *)

LEMMA Concatenation ==
  ASSUME NEW S, NEW s \in Seq(S), NEW t \in Seq(S)
  PROVE  /\ s \o t \in Seq(S) /\ Len(s \o t) = Len(s) + Len(t)
         /\ DOMAIN (s \o t) = 1 .. Len(s) + Len(t)
         /\ \A i \in 1 .. Len(s) + Len(t) :
              (s \o t)[i] = IF i <= Len(s) THEN s[i] ELSE t[i - Len(s)]
OBVIOUS

LEMMA WithoutShrinks ==
  ASSUME NEW S, NEW table \in Seq(S), NEW c
  PROVE  /\ Without(table, c) \in Seq(S)
         /\ Len(Without(table, c)) <= Len(table)
         /\ \A i \in DOMAIN Without(table, c) :
              \E j \in DOMAIN table : Without(table, c)[i] = table[j]
<1>1. CASE Knows(table, c)
  <2>. DEFINE p == Place(table, c)
              before == SubSeq(table, 1, p - 1)
              after == SubSeq(table, p + 1, Len(table))
  <2>1. p \in 1 .. Len(table)
    BY <1>1 DEF Knows, Place
  <2>2. /\ before \in Seq(S) /\ Len(before) = p - 1
        /\ \A i \in 1 .. p - 1 : before[i] = table[i]
    BY <2>1
  <2>3. /\ after \in Seq(S) /\ Len(after) = Len(table) - p
        /\ \A i \in 1 .. Len(table) - p : after[i] = table[p + i]
    BY <2>1
  <2>4. Without(table, c) = before \o after
    BY <1>1 DEF Without
  <2>. HIDE DEF p, before, after
  <2>5. /\ before \o after \in Seq(S) /\ Len(before \o after) = Len(table) - 1
        /\ DOMAIN (before \o after) = 1 .. Len(table) - 1
        /\ \A i \in 1 .. Len(table) - 1 :
             (before \o after)[i] = IF i <= p - 1 THEN before[i] ELSE after[i - (p - 1)]
    <3>1. /\ before \o after \in Seq(S)
          /\ Len(before \o after) = (p - 1) + (Len(table) - p)
          /\ DOMAIN (before \o after) = 1 .. (p - 1) + (Len(table) - p)
          /\ \A i \in 1 .. (p - 1) + (Len(table) - p) :
               (before \o after)[i] = IF i <= p - 1 THEN before[i] ELSE after[i - (p - 1)]
      <4>1. /\ before \o after \in Seq(S) /\ Len(before \o after) = Len(before) + Len(after)
            /\ DOMAIN (before \o after) = 1 .. Len(before) + Len(after)
            /\ \A i \in 1 .. Len(before) + Len(after) :
                 (before \o after)[i] = IF i <= Len(before) THEN before[i] ELSE after[i - Len(before)]
        BY <2>2, <2>3, Concatenation
      <4>2. Len(before) = p - 1 /\ Len(after) = Len(table) - p
        BY <2>2, <2>3
      <4>. QED
        BY <4>1, <4>2
    <3>2. (p - 1) + (Len(table) - p) = Len(table) - 1
      BY <2>1
    <3>. QED
      BY <3>1, <3>2
  <2>6. ASSUME NEW i \in 1 .. Len(table) - 1
        PROVE  \E j \in DOMAIN table : (before \o after)[i] = table[j]
    <3>1. CASE i <= p - 1
      <4>1. (before \o after)[i] = table[i] /\ i \in DOMAIN table
        BY <2>1, <2>2, <2>5, <3>1
      <4>. QED
        BY <4>1
    <3>2. CASE ~(i <= p - 1)
      <4>1. i - (p - 1) \in 1 .. Len(table) - p
        BY <2>1, <3>2
      <4>2. (before \o after)[i] = table[p + (i - (p - 1))]
        BY <2>3, <2>5, <3>2, <4>1
      <4>3. p + (i - (p - 1)) \in DOMAIN table
        BY <2>1, <4>1
      <4>. QED
        BY <4>2, <4>3
    <3>. QED
      BY <3>1, <3>2
  <2>7. Len(table) - 1 <= Len(table)
    BY <2>1
  <2>. QED
    BY <2>4, <2>5, <2>6, <2>7
<1>2. CASE ~Knows(table, c)
  BY <1>2 DEF Without
<1>. QED
  BY <1>1, <1>2

Entries == [cmd : Cmds, ack : Acks]

\* What is remembered was in the table before, or is what was put there.
LEMMA RememberedEntries ==
  ASSUME NEW table \in Seq(Entries), Len(table) <= Limit, NEW c \in Cmds, NEW ack \in Acks
  PROVE  /\ Remember(table, c, ack) \in Seq(Entries)
         /\ Len(Remember(table, c, ack)) <= Limit
         /\ \A i \in DOMAIN Remember(table, c, ack) :
              \/ Remember(table, c, ack)[i] = [cmd |-> c, ack |-> ack]
              \/ \E j \in DOMAIN table : Remember(table, c, ack)[i] = table[j]
<1>. DEFINE entry == [cmd |-> c, ack |-> ack]
            kept == Without(table, c)
            grown == Append(kept, entry)
<1>1. Limit \in Nat /\ entry \in Entries
  BY LimitIsPositive DEF Entries
<1>2. /\ kept \in Seq(Entries) /\ Len(kept) <= Limit
      /\ \A i \in DOMAIN kept : \E j \in DOMAIN table : kept[i] = table[j]
  <2>1. /\ kept \in Seq(Entries) /\ Len(kept) <= Len(table)
        /\ \A i \in DOMAIN kept : \E j \in DOMAIN table : kept[i] = table[j]
    BY WithoutShrinks
  <2>. QED
    BY <1>1, <2>1
<1>3. Remember(table, c, ack) = IF Len(grown) > Limit THEN Tail(grown) ELSE grown
  BY DEF Remember
<1>. HIDE DEF entry, kept
<1>4. /\ grown \in Seq(Entries) /\ Len(grown) = Len(kept) + 1
      /\ DOMAIN kept = 1 .. Len(kept)
      /\ \A i \in 1 .. Len(grown) : grown[i] = entry \/ (i \in DOMAIN kept /\ grown[i] = kept[i])
  BY <1>1, <1>2
<1>5. \A i \in 1 .. Len(grown) : grown[i] = entry \/ \E j \in DOMAIN table : grown[i] = table[j]
  BY <1>2, <1>4
<1>. HIDE DEF grown
<1>6. CASE Len(grown) > Limit
  <2>1. /\ Tail(grown) \in Seq(Entries) /\ Len(Tail(grown)) = Len(grown) - 1
        /\ \A i \in 1 .. Len(grown) - 1 : Tail(grown)[i] = grown[i + 1]
    BY <1>1, <1>4, <1>6
  <2>2. \A i \in DOMAIN Tail(grown) : i + 1 \in 1 .. Len(grown) /\ Tail(grown)[i] = grown[i + 1]
    BY <1>4, <2>1
  <2>. QED
    BY <1>1, <1>2, <1>3, <1>4, <1>5, <1>6, <2>1, <2>2 DEF entry
<1>7. CASE ~(Len(grown) > Limit)
  BY <1>1, <1>3, <1>4, <1>5, <1>7 DEF entry
<1>. QED
  BY <1>6, <1>7

-----------------------------------------------------------------------------
(* Types.                                                                   *)

LEMMA InitType == Init => TypeOK
BY LimitIsPositive, CrashesAreBounded DEF Init, TypeOK, Executing

\* What a lookup of durable facts brings.
LEMMA FactsType ==
  ASSUME NEW ledger \in [Cmds -> {"none", "admitted", "promoted", "cancelled", "discarded"}],
         NEW marks \in SUBSET Compacts
  PROVE  /\ FactsOf(ledger, marks) \in Facts
         /\ Swept(ledger) \in [Cmds -> {"none", "admitted", "promoted", "cancelled", "discarded"}]
BY DEF FactsOf, Facts, Swept

LEMMA FactInType ==
  ASSUME NEW facts, NEW c
  PROVE  FactIn(facts, c) \in {"accepted", "failed", "miss"}
BY DEF FactIn

\* What is still in the settled table is an ack.
LEMMA SettledType ==
  ASSUME TypeOK, NEW c, Remembered(c)
  PROVE  /\ Place(settled, c) \in DOMAIN settled
         /\ settled[Place(settled, c)].cmd = c
         /\ c \in Cmds /\ SettledAck(c) \in Acks
<1>1. /\ Place(settled, c) \in DOMAIN settled
      /\ settled[Place(settled, c)].cmd = c
  BY DEF Remembered, Knows, Place
<1>0. settled \in Seq(Entries)
  BY DEF TypeOK, Entries
<1>2. settled[Place(settled, c)] \in Entries
  BY <1>0, <1>1
<1>. QED
  BY <1>1, <1>2 DEF SettledAck, Entries

LEMMA SettledTable ==
  ASSUME TypeOK, NEW c \in Cmds, NEW ack \in Acks
  PROVE  /\ Remember(settled, c, ack) \in Seq(Entries)
         /\ Len(Remember(settled, c, ack)) <= Limit
BY RememberedEntries DEF TypeOK, Entries

\* Answering requests keeps the types.
LEMMA ReplyType ==
  ASSUME TypeOK, NEW rs \in SUBSET Requests, NEW reply, Reply(rs, reply),
         \A r \in rs : reply[r] \in Answers
  PROVE  /\ pc' \in [Requests -> {"idle", "key", "load", "looked", "joined", "gate",
                                  "prepare", "cold", "decide", "answered"} \cup Executing]
         /\ answer' \in [Requests -> Answers \cup {None}]
         /\ keyGate' \in [Cmds -> Seq(Requests)]
         /\ sessionGate' \in Seq(Requests)
BY PassOnIsLine DEF TypeOK, Reply

LEMMA DeliverType ==
  ASSUME TypeOK, NEW r \in Requests, NEW ack \in Acks, Deliver(r, ack)
  PROVE  /\ pc' \in [Requests -> {"idle", "key", "load", "looked", "joined", "gate",
                                  "prepare", "cold", "decide", "answered"} \cup Executing]
         /\ answer' \in [Requests -> Answers \cup {None}]
         /\ keyGate' \in [Cmds -> Seq(Requests)]
         /\ sessionGate' \in Seq(Requests)
<1>. DEFINE rs == {r} \cup {q \in Requests : pc[q] = "joined" /\ subject[q] = subject[r]}
            reply == [q \in rs |-> IF q = r THEN ack ELSE RetryAck(q, ack)]
<1>1. rs \in SUBSET Requests
  OBVIOUS
<1>2. \A q \in rs : reply[q] \in Answers
  BY DEF Answers, Acks, RetryAck
<1>3. Reply(rs, reply)
  BY DEF Deliver
<1>. HIDE DEF rs, reply
<1>. QED
  BY <1>1, <1>2, <1>3, ReplyType

\* What a request does keeps the types.
LEMMA RequestType ==
  ASSUME TypeOK, Kinds, NEW r \in Requests, Request(r)
  PROVE  TypeOK'
<1>0. pc[r] # "idle" => subject[r] \in Cmds
  BY DEF TypeOK, Kinds, RequestKinds, CommandKinds
<1>1. CASE JoinFlight(r)
  BY <1>1 DEF TypeOK, JoinFlight, gateVars, memoryVars, indexVars, ledgerVars, sessionVars, runtimeVars
<1>2. CASE FindNow(r)
  <2>1. subject[r] \in Cmds
    BY <1>0, <1>2 DEF FindNow, AtLookup
  <2>2. pc' \in [Requests -> {"looked", "idle", "key", "load", "joined", "gate", "prepare",
                              "cold", "decide", "answered"} \cup Executing]
    BY <1>2 DEF TypeOK, FindNow
  <2>3. found' \in [Requests -> Acks \cup {"miss", "error", None} \cup Requests]
    <3>1. CASE live[subject[r]] # None /\ found' = [found EXCEPT ![r] = live[subject[r]]]
      BY <2>1, <3>1 DEF TypeOK
    <3>2. CASE Remembered(subject[r]) /\ found' = [found EXCEPT ![r] = SettledAck(subject[r])]
      <4>1. SettledAck(subject[r]) \in Acks
        BY <3>2, SettledType
      <4>. QED
        BY <3>2, <4>1 DEF TypeOK
    <3>3. CASE found' = [found EXCEPT ![r] = FactIn(index, subject[r])]
      <4>1. FactIn(index, subject[r]) \in Acks \cup {"miss"}
        BY FactInType DEF Acks
      <4>. QED
        BY <3>3, <4>1 DEF TypeOK
    <3>. QED
      BY <1>2, <3>1, <3>2, <3>3 DEF FindNow
  <2>4. settled' \in Seq(Entries) /\ Len(settled') <= Limit
    <3>1. CASE UNCHANGED settled
      BY <3>1 DEF TypeOK, Entries
    <3>2. CASE Remembered(subject[r]) /\ settled' = Remember(settled, subject[r], SettledAck(subject[r]))
      BY <2>1, <3>2, SettledType, SettledTable
    <3>. QED
      BY <1>2, <3>1, <3>2 DEF FindNow
  <2>. QED
    BY <1>2, <2>2, <2>3, <2>4 DEF TypeOK, Entries, FindNow, gateVars, indexVars, ledgerVars, sessionVars, runtimeVars
<1>3. CASE AwaitIndex(r)
  <2>1. index' \in Facts \cup Requests \cup {None}
    BY <1>3 DEF TypeOK, AwaitIndex, indexVars
  <2>2. found' \in [Requests -> Acks \cup {"miss", "error", None} \cup Requests]
    BY <1>3 DEF TypeOK, AwaitIndex
  <2>3. sweeping' \in [Requests -> BOOLEAN \cup {None}]
    <3>1. sweeping' = sweeping \/ sweeping' = [sweeping EXCEPT ![r] = DiscardsOnLoad]
      BY <1>3 DEF AwaitIndex, indexVars
    <3>2. DiscardsOnLoad \in BOOLEAN
      BY DEF DiscardsOnLoad, TypeOK
    <3>. QED
      BY <3>1, <3>2 DEF TypeOK
  <2>. QED
    BY <1>3, <2>1, <2>2, <2>3 DEF TypeOK, AwaitIndex, gateVars, memoryVars, ledgerVars, sessionVars, runtimeVars
<1>4. CASE Found(r)
  <2>. DEFINE reply == [q \in {r} |->
                 CASE found[r] = "error" -> "unavailable"
                   [] found[r] = "miss"  -> "unknown"
                   [] OTHER              -> RetryAck(r, found[r])]
  <2>1. found[r] \in Acks \cup {"miss", "error"}
    BY <1>4 DEF Found, Kinds, RequestKinds
  <2>2. \A q \in {r} : reply[q] \in Answers
    BY <2>1 DEF Answers, Acks, RetryAck
  <2>3. Reply({r}, reply) /\ {r} \in SUBSET Requests
    BY <1>4 DEF Found
  <2>. HIDE DEF reply
  <2>4. found' \in [Requests -> Acks \cup {"miss", "error", None} \cup Requests]
    BY <1>4 DEF TypeOK, Found
  <2>. QED
    BY <1>4, <2>2, <2>3, <2>4, ReplyType DEF TypeOK, Found, memoryVars, indexVars, ledgerVars, sessionVars, runtimeVars
<1>5. CASE Missed(r)
  <2>1. /\ sessionGate' \in Seq(Requests)
        /\ pc' \in [Requests -> {"idle", "key", "load", "looked", "joined", "gate",
                                 "prepare", "cold", "decide", "answered"} \cup Executing]
        /\ found' \in [Requests -> Acks \cup {"miss", "error", None} \cup Requests]
    <3>1. sessionGate' \in Seq(Requests)
      <4>1. sessionGate' = sessionGate \/ sessionGate' = Append(sessionGate, r)
        BY <1>5 DEF Missed
      <4>2. sessionGate \in Seq(Requests)
        BY DEF TypeOK
      <4>. QED
        BY <4>1, <4>2
    <3>2. PICK l \in {"prepare", "decide", "gate"} : pc' = [pc EXCEPT ![r] = l]
      BY <1>5 DEF Missed
    <3>3. found' = [found EXCEPT ![r] = None]
      BY <1>5 DEF Missed
    <3>. QED
      BY <3>1, <3>2, <3>3 DEF TypeOK
  <2>. QED
    BY <1>5, <2>1 DEF TypeOK, Missed, memoryVars, indexVars, ledgerVars, sessionVars, runtimeVars
<1>6. CASE Prepare(r)
  <2>1. PICK l \in {"cold", "decide"} : pc' = [pc EXCEPT ![r] = l]
    BY <1>6 DEF Prepare
  <2>2. resuming' \in {"no", "ready", "legacy"}
    BY <1>6 DEF Prepare, TypeOK
  <2>. QED
    BY <1>6, <2>1, <2>2 DEF TypeOK, Prepare, gateVars, memoryVars, indexVars, ledgerVars, runtimeVars
<1>7. CASE Reject(r)
  <2>1. \A q \in {r} : [p \in {r} |-> "rejected"][q] \in Answers
    BY DEF Answers
  <2>2. Reply({r}, [p \in {r} |-> "rejected"]) /\ {r} \in SUBSET Requests
    BY <1>7 DEF Reject
  <2>. QED
    BY <1>7, <2>1, <2>2, ReplyType DEF TypeOK, Reject, memoryVars, indexVars, ledgerVars, sessionVars, runtimeVars
<1>8. CASE Accept(r)
  <2>1. keyGate' \in [Cmds -> Seq(Requests)]
    BY <1>8, PassOnIsLine DEF TypeOK, Accept
  <2>2. pc' \in [Requests -> {"idle", "key", "load", "looked", "joined", "gate",
                              "prepare", "cold", "decide", "answered"} \cup Executing]
    BY <1>8 DEF TypeOK, Accept, Executing
  <2>. QED
    BY <1>8, <2>1, <2>2 DEF TypeOK, Accept, memoryVars, indexVars, ledgerVars, sessionVars, runtimeVars
<1>9. CASE Admit(r)
  <2>1. settled' \in Seq(Entries) /\ Len(settled') <= Limit
    <3>1. /\ Without(settled, subject[r]) \in Seq(Entries)
          /\ Len(Without(settled, subject[r])) <= Len(settled)
      BY WithoutShrinks DEF TypeOK, Entries
    <3>2. Len(Without(settled, subject[r])) \in Nat /\ Len(settled) \in Nat /\ Limit \in Nat
      BY <3>1, LimitIsPositive DEF TypeOK
    <3>3. settled' = Without(settled, subject[r]) /\ Len(settled) <= Limit
      BY <1>9 DEF Admit, TypeOK
    <3>. QED
      BY <3>1, <3>2, <3>3
  <2>2. pc' \in [Requests -> {"idle", "key", "load", "looked", "joined", "gate",
                              "prepare", "cold", "decide", "answered"} \cup Executing]
    BY <1>9 DEF TypeOK, Admit, Executing
  <2>3. /\ row' \in [Cmds -> {"none", "admitted", "promoted", "cancelled", "discarded"}]
        /\ live' \in [Cmds -> Acks \cup {None}]
    BY <1>9 DEF TypeOK, Admit, Acks
  <2>. QED
    BY <1>9, <2>1, <2>2, <2>3 DEF TypeOK, Entries, Admit, gateVars, indexVars, sessionVars, runtimeVars
<1>10. CASE Execute(r)
  <2>1. pc' \in [Requests -> {"idle", "key", "load", "looked", "joined", "gate",
                              "prepare", "cold", "decide", "answered"} \cup Executing]
    BY <1>10 DEF TypeOK, Execute, Executing
  <2>2. work' \in [Cmds -> {"none", "queued"} \cup InTurn] /\ taken' \in [Cmds -> 0..2]
    <3>1. CASE UNCHANGED <<work, taken>>
      BY <3>1 DEF TypeOK
    <3>2. CASE /\ \E begun \in {"queued", IF subject[r] \in Inputs THEN "turn" ELSE "compacting"} :
                    work' = [work EXCEPT ![subject[r]] = begun]
               /\ taken' = [taken EXCEPT ![subject[r]] = IF @ = 2 THEN 2 ELSE @ + 1]
      <4>1. PICK begun \in {"queued", "turn", "compacting"} : work' = [work EXCEPT ![subject[r]] = begun]
        BY <3>2
      <4>2. work' \in [Cmds -> {"none", "queued"} \cup InTurn]
        BY <4>1 DEF TypeOK, InTurn
      <4>3. \A n \in 0..2 : (IF n = 2 THEN 2 ELSE n + 1) \in 0..2
        OBVIOUS
      <4>4. taken \in [Cmds -> 0..2]
        BY DEF TypeOK
      <4>. QED
        BY <3>2, <4>2, <4>3, <4>4
    <3>. QED
      BY <1>10, <3>1, <3>2 DEF Execute, runtimeVars
  <2>. QED
    BY <1>10, <2>1, <2>2 DEF TypeOK, Execute, gateVars, memoryVars, indexVars, ledgerVars, sessionVars
<1>11. CASE ExecuteFails(r)
  BY <1>11 DEF TypeOK, Executing, ExecuteFails, gateVars, memoryVars, indexVars, ledgerVars, sessionVars, runtimeVars
<1>12. CASE Settle(r)
  <2>1. Deliver(r, "accepted") /\ "accepted" \in Acks /\ subject[r] \in Cmds
    BY <1>0, <1>12 DEF Settle, Acks
  <2>2. settled' \in Seq(Entries) /\ Len(settled') <= Limit
    BY <1>12, <2>1, SettledTable DEF Settle, TypeOK, Entries
  <2>3. live' \in [Cmds -> Acks \cup {None}]
    BY <1>12, <2>1 DEF Settle, TypeOK
  <2>. QED
    BY <1>12, <2>1, <2>2, <2>3, DeliverType DEF TypeOK, Entries, Settle, indexVars, ledgerVars, sessionVars, runtimeVars
<1>13. ASSUME NEW ack \in Acks, SettleWith(r, ack), subject[r] \in Cmds
       PROVE  /\ settled' \in Seq([cmd : Cmds, ack : Acks]) /\ Len(settled') <= Limit
              /\ live' \in [Cmds -> Acks \cup {None}]
              /\ pc' \in [Requests -> {"idle", "key", "load", "looked", "joined", "gate",
                                       "prepare", "cold", "decide", "answered"} \cup Executing]
              /\ answer' \in [Requests -> Answers \cup {None}]
              /\ keyGate' \in [Cmds -> Seq(Requests)]
              /\ sessionGate' \in Seq(Requests)
  <2>1. settled' \in Seq([cmd : Cmds, ack : Acks]) /\ Len(settled') <= Limit
    BY <1>13, SettledTable DEF SettleWith, Entries
  <2>2. live' \in [Cmds -> Acks \cup {None}]
    BY <1>13 DEF SettleWith, TypeOK
  <2>3. Deliver(r, ack)
    BY <1>13 DEF SettleWith
  <2>. QED
    BY <2>1, <2>2, <2>3, DeliverType
<1>14. CASE SettleFailed(r)
  <2>1. SettleWith(r, "failed") /\ "failed" \in Acks /\ subject[r] \in Cmds
    BY <1>0, <1>14 DEF SettleFailed, Acks
  <2>2. row' \in [Cmds -> {"none", "admitted", "promoted", "cancelled", "discarded"}]
    BY <1>14 DEF SettleFailed, TypeOK
  <2>. QED
    BY <1>13, <1>14, <2>1, <2>2 DEF TypeOK, SettleFailed, indexVars, sessionVars, runtimeVars
<1>15. CASE SettlePlain(r)
  <2>1. PICK ack \in {"failed", "noop"} : SettleWith(r, ack)
    BY <1>15 DEF SettlePlain
  <2>2. ack \in Acks /\ subject[r] \in Cmds
    BY <1>0, <1>15 DEF SettlePlain, Acks
  <2>. QED
    BY <1>13, <1>15, <2>1, <2>2 DEF TypeOK, SettlePlain, indexVars, ledgerVars, sessionVars, runtimeVars
<1>16. CASE Return(r)
  BY <1>16 DEF TypeOK, Return, gateVars, memoryVars, indexVars, ledgerVars, sessionVars, runtimeVars
<1>. QED
  BY <1>1, <1>2, <1>3, <1>4, <1>5, <1>6, <1>7, <1>8, <1>9, <1>10, <1>11, <1>12,
     <1>14, <1>15, <1>16 DEF Request

\* So does a load that ends.
LEMMA LoadingType ==
  ASSUME TypeOK, NEW o \in Requests, Loading(o)
  PROVE  TypeOK'
<1>1. CASE LoadDone(o)
  <2>1. row' \in [Cmds -> {"none", "admitted", "promoted", "cancelled", "discarded"}]
    BY <1>1, FactsType DEF LoadDone, TypeOK
  <2>2. FactsOf(row', timeline) \in Facts
    BY <2>1, FactsType DEF TypeOK
  <2>3. index' \in Facts \cup Requests \cup {None}
    BY <1>1, <2>2 DEF LoadDone, TypeOK
  <2>4. found' \in [Requests -> Acks \cup {"miss", "error", None} \cup Requests]
    <3>1. \A r \in Requests : FactIn(FactsOf(row', timeline), subject[r]) \in Acks \cup {"miss"}
      BY FactInType DEF Acks
    <3>. QED
      BY <1>1, <3>1 DEF LoadDone, TypeOK
  <2>5. pc' \in [Requests -> {"idle", "key", "load", "looked", "joined", "gate",
                              "prepare", "cold", "decide", "answered"} \cup Executing]
    BY <1>1 DEF LoadDone, TypeOK
  <2>6. sweeping' \in [Requests -> BOOLEAN \cup {None}]
    BY <1>1 DEF LoadDone, TypeOK
  <2>. QED
    BY <1>1, <2>1, <2>3, <2>4, <2>5, <2>6
    DEF TypeOK, LoadDone, gateVars, memoryVars, sessionVars, runtimeVars
<1>2. CASE LoadFails(o)
  <2>1. found' \in [Requests -> Acks \cup {"miss", "error", None} \cup Requests]
    BY <1>2 DEF LoadFails, TypeOK
  <2>2. pc' \in [Requests -> {"idle", "key", "load", "looked", "joined", "gate",
                              "prepare", "cold", "decide", "answered"} \cup Executing]
    BY <1>2 DEF LoadFails, TypeOK
  <2>3. sweeping' \in [Requests -> BOOLEAN \cup {None}] /\ index' \in Facts \cup Requests \cup {None}
    BY <1>2 DEF LoadFails, TypeOK
  <2>. QED
    BY <1>2, <2>1, <2>2, <2>3
    DEF TypeOK, LoadFails, gateVars, memoryVars, ledgerVars, sessionVars, runtimeVars
<1>. QED
  BY <1>1, <1>2 DEF Loading

\* So does the runtime.
LEMMA RuntimeType ==
  ASSUME TypeOK, Kinds, NEW c \in Durable, Runtime(c) \/ Remove(c)
  PROVE  TypeOK'
<1>0. c \in Cmds
  BY DEF Durable, Cmds
<1>1. ASSUME NEW to \in {"none", "queued"} \cup InTurn, work' = [work EXCEPT ![c] = to]
      PROVE  work' \in [Cmds -> {"none", "queued"} \cup InTurn]
  BY <1>1 DEF TypeOK
<1>2. CASE \/ Drain(c) \/ Blocked(c) \/ CompactOver(c) \/ RecordFails(c)
  <2>1. PICK to \in {"none", "queued"} \cup InTurn : work' = [work EXCEPT ![c] = to]
    BY <1>2 DEF Drain, Blocked, CompactOver, RecordFails, Progress, InTurn
  <2>2. UNCHANGED <<requestVars, gateVars, memoryVars, indexVars, ledgerVars, sessionVars, taken, crashes>>
    BY <1>2 DEF Drain, Blocked, CompactOver, RecordFails
  <2>. QED
    BY <1>1, <2>1, <2>2 DEF TypeOK, requestVars, gateVars, memoryVars, indexVars, ledgerVars, sessionVars
<1>3. CASE Promote(c) \/ Remove(c)
  <2>1. PICK to \in {"promoting", "removing"} : work' = [work EXCEPT ![c] = to]
    BY <1>3 DEF Promote, Remove, Progress
  <2>2. row' \in [Cmds -> {"none", "admitted", "promoted", "cancelled", "discarded"}]
    BY <1>3 DEF Promote, Remove, TypeOK
  <2>3. UNCHANGED <<requestVars, gateVars, memoryVars, indexVars, timeline, sessionVars, taken, crashes>>
    BY <1>3 DEF Promote, Remove
  <2>4. to \in {"none", "queued"} \cup InTurn
    BY DEF InTurn
  <2>. QED
    BY <1>1, <2>1, <2>2, <2>3, <2>4 DEF TypeOK, requestVars, gateVars, memoryVars, indexVars, sessionVars
<1>4. CASE Announce(c)
  <2>1. work' = [work EXCEPT ![c] = "none"]
    BY <1>4 DEF Announce
  <2>2. live' \in [Cmds -> Acks \cup {None}]
    BY <1>4 DEF Announce, Release, TypeOK
  <2>3. settled' \in Seq(Entries) /\ Len(settled') <= Limit
    <3>1. CASE live[c] = None
      BY <1>4, <3>1 DEF Announce, Release, TypeOK, Entries
    <3>2. CASE live[c] # None
      <4>1. live[c] \in Acks
        BY <1>0, <3>2 DEF TypeOK
      <4>. QED
        BY <1>0, <1>4, <3>2, <4>1, SettledTable DEF Announce, Release
    <3>. QED
      BY <3>1, <3>2
  <2>4. index' \in Facts \cup Requests \cup {None} /\ UNCHANGED sweeping
    BY <1>4 DEF Announce, Invalidate
  <2>5. UNCHANGED <<requestVars, gateVars, ledgerVars, sessionVars, taken, crashes>>
    BY <1>4 DEF Announce
  <2>. QED
    BY <1>1, <2>1, <2>2, <2>3, <2>4, <2>5
    DEF TypeOK, Entries, requestVars, gateVars, ledgerVars, sessionVars
<1>5. CASE RecordFact(c)
  <2>1. work' = [work EXCEPT ![c] = "none"] /\ c \in Compacts
    BY <1>0, <1>5 DEF RecordFact, Progress, Kinds, CommandKinds
  <2>2. timeline' \in SUBSET Compacts
    BY <1>5, <2>1 DEF RecordFact, TypeOK
  <2>3. index' \in Facts \cup Requests \cup {None}
    <3>1. FactsOf(row, timeline') \in Facts
      BY <2>2, FactsType DEF TypeOK
    <3>2. index \in Facts => [index EXCEPT !.timeline = @ \cup {c}] \in Facts
      BY <2>1 DEF Facts
    <3>. QED
      BY <1>5, <3>1, <3>2 DEF RecordFact, TypeOK
  <2>. QED
    BY <1>1, <1>5, <2>1, <2>2, <2>3
    DEF TypeOK, RecordFact, requestVars, gateVars, memoryVars, sessionVars
<1>. QED
  BY <1>2, <1>3, <1>4, <1>5 DEF Runtime

\* Type correctness is preserved by every step.
LEMMA StepType ==
  ASSUME TypeOK, Kinds, [Next]_vars
  PROVE  TypeOK'
<1>1. ASSUME NEW r \in Requests, NEW c \in Cmds, NEW query \in BOOLEAN, Arrive(r, c, query)
      PROVE  TypeOK'
  BY <1>1 DEF TypeOK, Arrive, memoryVars, indexVars, ledgerVars, sessionVars, runtimeVars
<1>2. ASSUME NEW r \in Requests, Request(r) PROVE TypeOK'
  BY <1>2, RequestType
<1>3. ASSUME NEW o \in Requests, Loading(o) PROVE TypeOK'
  BY <1>3, LoadingType
<1>4. ASSUME NEW c \in Durable, Runtime(c) \/ Remove(c) PROVE TypeOK'
  BY <1>4, RuntimeType
<1>5. CASE BeginAnyResume
  <2>1. resuming' \in {"no", "ready", "legacy"}
    BY <1>5 DEF BeginAnyResume, BeginResume
  <2>. QED
    BY <1>5, <2>1 DEF TypeOK, BeginAnyResume, BeginResume, requestVars, gateVars, memoryVars,
                      indexVars, ledgerVars, runtimeVars
<1>6. CASE Register
  BY <1>6 DEF TypeOK, Register, requestVars, gateVars, memoryVars, indexVars, ledgerVars, runtimeVars
<1>7. CASE FinishResume
  <2>1. row' \in [Cmds -> {"none", "admitted", "promoted", "cancelled", "discarded"}]
    BY <1>7, FactsType DEF FinishResume, TypeOK
  <2>2. pc' \in [Requests -> {"idle", "key", "load", "looked", "joined", "gate",
                              "prepare", "cold", "decide", "answered"} \cup Executing]
    BY <1>7 DEF FinishResume, TypeOK
  <2>. QED
    BY <1>7, <2>1, <2>2 DEF TypeOK, FinishResume, gateVars, memoryVars, indexVars, runtimeVars
<1>8. CASE ResumeFails
  <2>. DEFINE cold == {r \in Requests : pc[r] = "cold"}
              reply == [r \in cold |-> "unavailable"]
  <2>1. Reply(cold, reply) /\ cold \in SUBSET Requests
    BY <1>8 DEF ResumeFails
  <2>2. \A r \in cold : reply[r] \in Answers
    BY DEF Answers
  <2>. HIDE DEF cold, reply
  <2>. QED
    BY <1>8, <2>1, <2>2, ReplyType
    DEF TypeOK, ResumeFails, memoryVars, indexVars, ledgerVars, runtimeVars
<1>9. CASE Deactivate
  <2>1. settled' \in Seq([cmd : Cmds, ack : Acks]) /\ Len(settled') <= Limit
    BY <1>9, LimitIsPositive DEF Deactivate
  <2>. QED
    BY <1>9, <2>1 DEF TypeOK, Deactivate, requestVars, gateVars, indexVars, ledgerVars, runtimeVars
<1>10. CASE Crash
  <2>1. settled' \in Seq([cmd : Cmds, ack : Acks]) /\ Len(settled') <= Limit
    BY <1>10, LimitIsPositive DEF Crash
  <2>2. crashes' \in 0..MaxCrashes
    BY <1>10, CrashesAreBounded DEF Crash, TypeOK
  <2>3. /\ sessionGate' \in Seq(Requests) /\ keyGate' \in [Cmds -> Seq(Requests)]
        /\ live' \in [Cmds -> Acks \cup {None}]
        /\ work' \in [Cmds -> {"none", "queued"} \cup InTurn]
    BY <1>10 DEF Crash
  <2>4. /\ pc' \in [Requests -> {"idle", "key", "load", "looked", "joined", "gate",
                                 "prepare", "cold", "decide", "answered"} \cup Executing]
        /\ subject' \in [Requests -> Cmds \cup {None}]
        /\ querying' \in [Requests -> BOOLEAN]
        /\ found' \in [Requests -> Acks \cup {"miss", "error", None} \cup Requests]
        /\ answer' \in [Requests -> Answers \cup {None}]
        /\ sweeping' \in [Requests -> BOOLEAN \cup {None}]
    BY <1>10 DEF Crash
  <2>. QED
    BY <1>10, <2>1, <2>2, <2>3, <2>4 DEF TypeOK, Crash, ledgerVars
<1>11. CASE UNCHANGED vars
  BY <1>11 DEF TypeOK, vars, requestVars, gateVars, memoryVars, indexVars, ledgerVars, sessionVars, runtimeVars
<1>. QED
  BY <1>1, <1>2, <1>3, <1>4, <1>5, <1>6, <1>7, <1>8, <1>9, <1>10, <1>11 DEF Next, Resume

-----------------------------------------------------------------------------
(* The gates: each passes on in turn, and who has gone on holds it.         *)

LEMMA InitGates == Init => Gates /\ Flights
BY DEF Init, Gates, Flights, Lined, OnKey, OnSession, Executing

LEMMA GatesFrame ==
  ASSUME UNCHANGED <<pc, subject, keyGate, sessionGate>>
  PROVE  /\ Gates' <=> Gates
         /\ Flights' <=> Flights
         /\ InFlight' = InFlight
BY DEF Gates, Flights, InFlight, Lined, AtKey, KeyHolders, AtGate, SessionHolders, HoldsKey, HoldsSession

\* A request goes on while the gates stay as they are: from its key, from the
\* session gate, or where it holds what it needs already.
GoesOn(q) ==
  \/ pc'[q] = pc[q]
  \/ pc[q] = "key" /\ HoldsKey(q) /\ pc'[q] \in {"load", "looked", "joined"}
  \/ pc[q] = "gate" /\ HoldsSession(q) /\ pc'[q] \in {"load", "looked"}
  \/ pc[q] = "load" /\ pc'[q] = "looked"
  \/ pc[q] = "looked" /\ HoldsSession(q) /\ pc'[q] \in {"prepare", "decide"}
  \/ pc[q] \in {"prepare", "cold"} /\ pc'[q] \in {"cold", "decide"}
  \/ pc[q] \in Executing /\ pc'[q] \in Executing

LEMMA GatesGoOn ==
  ASSUME TypeOK, Gates, UNCHANGED <<subject, keyGate, sessionGate>>,
         \A q \in Requests : GoesOn(q)
  PROVE  Gates'
<1>1. ASSUME NEW c \in Cmds
      PROVE  Lined(keyGate[c], AtKey(c)', KeyHolders(c)')
  <2>1. keyGate[c] \in Seq(Requests) /\ Lined(keyGate[c], AtKey(c), KeyHolders(c))
    BY DEF TypeOK, Gates
  <2>2. \A q \in AtKey(c) : q \in AtKey(c)'
                            \/ (q \in KeyHolders(c)' /\ keyGate[c] # <<>> /\ q = Head(keyGate[c]))
    BY DEF AtKey, KeyHolders, GoesOn, HoldsKey, OnKey, Executing
  <2>3. \A q \in KeyHolders(c) : q \in AtKey(c)' \cup KeyHolders(c)'
    BY DEF KeyHolders, GoesOn, OnKey, Executing
  <2>. QED
    BY <2>1, <2>2, <2>3, LinedKeep
<1>2. Lined(sessionGate, AtGate', SessionHolders')
  <2>1. sessionGate \in Seq(Requests) /\ Lined(sessionGate, AtGate, SessionHolders)
    BY DEF TypeOK, Gates
  <2>2. \A q \in AtGate : q \in AtGate'
                          \/ (q \in SessionHolders' /\ sessionGate # <<>> /\ q = Head(sessionGate))
    BY DEF AtGate, SessionHolders, GoesOn, HoldsSession, OnSession, Executing
  <2>3. \A q \in SessionHolders : q \in AtGate' \cup SessionHolders'
    BY DEF SessionHolders, GoesOn, OnSession, Executing
  <2>. QED
    BY <2>1, <2>2, <2>3, LinedKeep
<1>3. ASSUME NEW q \in Requests, pc'[q] \in OnKey PROVE HoldsKey(q)'
  BY <1>3 DEF GoesOn, Gates, OnKey, Executing, HoldsKey
<1>4. ASSUME NEW q \in Requests, pc'[q] \in OnSession PROVE HoldsSession(q)'
  BY <1>4 DEF GoesOn, Gates, OnSession, Executing, HoldsSession
<1>. QED
  BY <1>1, <1>2, <1>3, <1>4 DEF Gates

\* Who is answered leaves the gates to the next.
LEMMA GatesReply ==
  ASSUME TypeOK, Gates, NEW rs \in SUBSET Requests, NEW reply, Reply(rs, reply),
         \A q \in rs : pc[q] \notin {"idle", "key", "gate", "answered"},
         UNCHANGED subject
  PROVE  Gates'
<1>0. /\ \A q \in Requests : pc'[q] = IF q \in rs THEN "answered" ELSE pc[q]
      /\ \A c \in Cmds : keyGate'[c] = PassOn(keyGate[c], rs)
      /\ sessionGate' = PassOn(sessionGate, rs)
  BY DEF Reply
<1>1. ASSUME NEW c \in Cmds
      PROVE  /\ Lined(keyGate'[c], AtKey(c)', KeyHolders(c)')
             /\ \A q : q \notin rs /\ keyGate[c] # <<>> /\ Head(keyGate[c]) = q =>
                  keyGate'[c] # <<>> /\ Head(keyGate'[c]) = q
  <2>1. keyGate[c] \in Seq(Requests) /\ Lined(keyGate[c], AtKey(c), KeyHolders(c))
    BY DEF TypeOK, Gates
  <2>2. rs \cap AtKey(c) = {}
    BY DEF AtKey
  <2>3. /\ Lined(keyGate'[c], AtKey(c), KeyHolders(c) \ rs)
        /\ \A q : q \notin rs /\ keyGate[c] # <<>> /\ Head(keyGate[c]) = q =>
             keyGate'[c] # <<>> /\ Head(keyGate'[c]) = q
    <3>. DEFINE gate == keyGate[c]
    <3>1. gate \in Seq(Requests) /\ Lined(gate, AtKey(c), KeyHolders(c))
      BY <2>1
    <3>2. keyGate'[c] = PassOn(gate, rs)
      BY <1>0
    <3>. HIDE DEF gate
    <3>3. /\ Lined(keyGate'[c], AtKey(c), KeyHolders(c) \ rs)
          /\ \A q : q \notin rs /\ gate # <<>> /\ Head(gate) = q =>
               keyGate'[c] # <<>> /\ Head(keyGate'[c]) = q
      BY <2>2, <3>1, <3>2, LinedPassOn
    <3>. QED
      BY <3>3 DEF gate
  <2>4. AtKey(c) \subseteq AtKey(c)' /\ KeyHolders(c) \ rs \subseteq KeyHolders(c)'
    BY <1>0 DEF AtKey, KeyHolders
  <2>. QED
    BY <2>3, <2>4 DEF Lined
<1>2. /\ Lined(sessionGate', AtGate', SessionHolders')
      /\ \A q : q \notin rs /\ sessionGate # <<>> /\ Head(sessionGate) = q =>
           sessionGate' # <<>> /\ Head(sessionGate') = q
  <2>1. sessionGate \in Seq(Requests) /\ Lined(sessionGate, AtGate, SessionHolders)
    BY DEF TypeOK, Gates
  <2>2. rs \cap AtGate = {}
    BY DEF AtGate
  <2>3. /\ Lined(sessionGate', AtGate, SessionHolders \ rs)
        /\ \A q : q \notin rs /\ sessionGate # <<>> /\ Head(sessionGate) = q =>
             sessionGate' # <<>> /\ Head(sessionGate') = q
    BY <1>0, <2>1, <2>2, LinedPassOn
  <2>4. AtGate \subseteq AtGate' /\ SessionHolders \ rs \subseteq SessionHolders'
    BY <1>0 DEF AtGate, SessionHolders
  <2>. QED
    BY <2>3, <2>4 DEF Lined
<1>3. ASSUME NEW q \in Requests, pc'[q] \in OnKey PROVE HoldsKey(q)'
  <2>1. q \notin rs /\ pc'[q] = pc[q]
    BY <1>0, <1>3 DEF OnKey
  <2>2. HoldsKey(q) /\ subject[q] \in Cmds
    BY <1>3, <2>1 DEF Gates, HoldsKey, TypeOK
  <2>. QED
    BY <1>1, <2>1, <2>2 DEF HoldsKey
<1>4. ASSUME NEW q \in Requests, pc'[q] \in OnSession PROVE HoldsSession(q)'
  <2>1. q \notin rs /\ pc'[q] = pc[q]
    BY <1>0, <1>4 DEF OnSession, Executing
  <2>. QED
    BY <1>2, <1>4, <2>1 DEF Gates, HoldsSession
<1>. QED
  BY <1>1, <1>2, <1>3, <1>4 DEF Gates

\* One request at a time is at the session's decisions and executions, and one at
\* a time is past the gate of its key.
LEMMA Exclusion ==
  ASSUME Gates, NEW r \in Requests, NEW q \in Requests
  PROVE  /\ pc[r] \in OnSession /\ pc[q] \in OnSession => r = q
         /\ pc[r] \in OnKey /\ pc[q] \in OnKey /\ subject[r] = subject[q] => r = q
         /\ pc[r] = "gate" /\ HoldsSession(r) => pc[q] \notin OnSession
BY OneHolder DEF Gates, OnSession, Executing

LEMMA ArriveGates ==
  ASSUME TypeOK, Kinds, Gates, Flights,
         NEW r \in Requests, NEW d \in Cmds, NEW query \in BOOLEAN, Arrive(r, d, query)
  PROVE  Gates' /\ Flights' /\ InFlight' = InFlight
<1>0. /\ pc[r] = "idle" /\ pc'[r] = "key" /\ subject'[r] = d
      /\ \A q \in Requests \ {r} : pc'[q] = pc[q] /\ subject'[q] = subject[q]
      /\ keyGate'[d] = Append(keyGate[d], r)
      /\ \A c \in Cmds \ {d} : keyGate'[c] = keyGate[c]
      /\ sessionGate' = sessionGate
  BY DEF TypeOK, Arrive, gateVars
<1>1. ASSUME NEW c \in Cmds
      PROVE  /\ Lined(keyGate'[c], AtKey(c)', KeyHolders(c)')
             /\ \A q : keyGate[c] # <<>> /\ Head(keyGate[c]) = q =>
                  keyGate'[c] # <<>> /\ Head(keyGate'[c]) = q
  <2>1. /\ keyGate[c] \in Seq(Requests) /\ Lined(keyGate[c], AtKey(c), KeyHolders(c))
        /\ r \notin AtKey(c) \cup KeyHolders(c)
    BY <1>0 DEF TypeOK, Gates, AtKey, KeyHolders, OnKey
  <2>2. KeyHolders(c) \subseteq KeyHolders(c)' /\ AtKey(c) \subseteq AtKey(c)'
    BY <1>0 DEF AtKey, KeyHolders, OnKey
  <2>3. CASE c = d
    <3>1. r \in AtKey(c)'
      BY <1>0, <2>3 DEF AtKey
    <3>2. /\ Lined(keyGate'[c], AtKey(c) \cup {r}, KeyHolders(c))
          /\ \A q : keyGate[c] # <<>> /\ Head(keyGate[c]) = q =>
               keyGate'[c] # <<>> /\ Head(keyGate'[c]) = q
      <4>. DEFINE gate == keyGate[c]
      <4>1. /\ gate \in Seq(Requests) /\ Lined(gate, AtKey(c), KeyHolders(c))
            /\ keyGate'[c] = Append(gate, r)
        BY <1>0, <2>1, <2>3
      <4>. HIDE DEF gate
      <4>2. /\ Lined(keyGate'[c], AtKey(c) \cup {r}, KeyHolders(c))
            /\ \A q : gate # <<>> /\ Head(gate) = q =>
                 keyGate'[c] # <<>> /\ Head(keyGate'[c]) = q
        BY <2>1, <4>1, LinedAppend
      <4>. QED
        BY <4>2 DEF gate
    <3>. QED
      BY <2>2, <3>1, <3>2 DEF Lined
  <2>4. CASE c # d
    BY <1>0, <2>1, <2>2, <2>4 DEF Lined
  <2>. QED
    BY <2>3, <2>4
<1>2. Lined(sessionGate', AtGate', SessionHolders')
  <2>1. AtGate \subseteq AtGate' /\ SessionHolders \subseteq SessionHolders'
    BY <1>0 DEF AtGate, SessionHolders, OnSession, Executing
  <2>. QED
    BY <1>0, <2>1 DEF Gates, Lined
<1>3. ASSUME NEW q \in Requests, pc'[q] \in OnKey PROVE HoldsKey(q)'
  <2>1. q # r
    BY <1>0, <1>3 DEF OnKey
  <2>2. HoldsKey(q) /\ subject[q] \in Cmds
    BY <1>0, <1>3, <2>1 DEF Gates, HoldsKey, TypeOK
  <2>. QED
    BY <1>0, <1>1, <2>1, <2>2 DEF HoldsKey
<1>4. ASSUME NEW q \in Requests, pc'[q] \in OnSession PROVE HoldsSession(q)'
  BY <1>0, <1>4 DEF Gates, OnSession, Executing, HoldsSession
<1>5. InFlight' = InFlight
  BY <1>0 DEF InFlight, Executing
<1>. QED
  BY <1>0, <1>1, <1>2, <1>3, <1>4, <1>5 DEF Gates, Flights

LEMMA MissedGates ==
  ASSUME TypeOK, Gates, NEW r \in Requests, Missed(r)
  PROVE  Gates'
<1>1. CASE HoldsSession(r)
  <2>1. /\ pc' = [pc EXCEPT ![r] = IF subject[r] \in Plain THEN "prepare" ELSE "decide"]
        /\ UNCHANGED <<subject, keyGate, sessionGate>> /\ pc[r] = "looked"
    BY <1>1 DEF Missed
  <2>2. \A q \in Requests : GoesOn(q)
    BY <1>1, <2>1 DEF TypeOK, GoesOn
  <2>. QED
    BY <2>1, <2>2, GatesGoOn
<1>2. CASE ~HoldsSession(r)
  <2>0. /\ pc[r] = "looked" /\ pc'[r] = "gate" /\ subject' = subject /\ keyGate' = keyGate
        /\ \A q \in Requests \ {r} : pc'[q] = pc[q]
        /\ sessionGate' = Append(sessionGate, r)
    BY <1>2 DEF Missed, TypeOK
  <2>1. ASSUME NEW c \in Cmds
        PROVE  Lined(keyGate'[c], AtKey(c)', KeyHolders(c)')
    <3>1. AtKey(c) \subseteq AtKey(c)' /\ KeyHolders(c) \subseteq KeyHolders(c)'
      BY <2>0 DEF AtKey, KeyHolders, OnKey
    <3>. QED
      BY <2>0, <3>1 DEF Gates, Lined
  <2>2. /\ Lined(sessionGate', AtGate', SessionHolders')
        /\ \A q : sessionGate # <<>> /\ Head(sessionGate) = q =>
             sessionGate' # <<>> /\ Head(sessionGate') = q
    <3>1. sessionGate \in Seq(Requests) /\ Lined(sessionGate, AtGate, SessionHolders)
      BY DEF TypeOK, Gates
    <3>2. Lined(sessionGate, AtGate, SessionHolders \ {r})
      <4>1. \A i \in DOMAIN sessionGate : i = 1 => sessionGate[1] # r
        BY <1>2, <3>1 DEF HoldsSession
      <4>. QED
        BY <3>1, <4>1 DEF Lined
    <3>3. r \notin AtGate \cup (SessionHolders \ {r})
      BY <2>0 DEF AtGate
    <3>4. /\ Lined(sessionGate', AtGate \cup {r}, SessionHolders \ {r})
          /\ \A q : sessionGate # <<>> /\ Head(sessionGate) = q =>
               sessionGate' # <<>> /\ Head(sessionGate') = q
      BY <2>0, <3>1, <3>2, <3>3, LinedAppend
    <3>5. AtGate \cup {r} \subseteq AtGate' /\ SessionHolders \ {r} \subseteq SessionHolders'
      BY <2>0 DEF AtGate, SessionHolders
    <3>. QED
      BY <3>4, <3>5 DEF Lined
  <2>3. ASSUME NEW q \in Requests, pc'[q] \in OnKey PROVE HoldsKey(q)'
    BY <2>0, <2>3 DEF Gates, OnKey, HoldsKey
  <2>4. ASSUME NEW q \in Requests, pc'[q] \in OnSession PROVE HoldsSession(q)'
    <3>1. HoldsSession(q)
      BY <2>0, <2>4 DEF Gates, OnSession, Executing
    <3>. QED
      BY <2>2, <3>1 DEF HoldsSession
  <2>. QED
    BY <2>1, <2>2, <2>3, <2>4 DEF Gates
<1>. QED
  BY <1>1, <1>2

\* The key is given up, the session gate is not.
LEMMA AcceptGates ==
  ASSUME TypeOK, Kinds, Gates, NEW r \in Requests, Accept(r)
  PROVE  Gates'
<1>0. /\ pc[r] = "decide" /\ pc'[r] \in {"admit", "execute"} /\ subject' = subject
      /\ \A q \in Requests \ {r} : pc'[q] = pc[q]
      /\ sessionGate' = sessionGate /\ subject[r] \in Cmds
      /\ keyGate'[subject[r]] = PassOn(keyGate[subject[r]], {r})
      /\ \A c \in Cmds \ {subject[r]} : keyGate'[c] = keyGate[c]
  BY DEF Accept, TypeOK, Kinds, RequestKinds
<1>1. ASSUME NEW c \in Cmds
      PROVE  /\ Lined(keyGate'[c], AtKey(c)', KeyHolders(c)')
             /\ \A q : q # r /\ keyGate[c] # <<>> /\ Head(keyGate[c]) = q =>
                  keyGate'[c] # <<>> /\ Head(keyGate'[c]) = q
  <2>1. keyGate[c] \in Seq(Requests) /\ Lined(keyGate[c], AtKey(c), KeyHolders(c))
    BY DEF TypeOK, Gates
  <2>2. {r} \cap AtKey(c) = {} /\ AtKey(c) \subseteq AtKey(c)'
        /\ KeyHolders(c) \ {r} \subseteq KeyHolders(c)'
        /\ (c # subject[r] => KeyHolders(c) \subseteq KeyHolders(c)')
    BY <1>0 DEF AtKey, KeyHolders
  <2>3. CASE c = subject[r]
    <3>. DEFINE gate == keyGate[c]
                rs == {r}
    <3>1. /\ gate \in Seq(Requests) /\ Lined(gate, AtKey(c), KeyHolders(c))
          /\ keyGate'[c] = PassOn(gate, rs) /\ rs \cap AtKey(c) = {}
      BY <1>0, <2>1, <2>2, <2>3
    <3>. HIDE DEF gate, rs
    <3>2. /\ Lined(keyGate'[c], AtKey(c), KeyHolders(c) \ rs)
          /\ \A q : q \notin rs /\ gate # <<>> /\ Head(gate) = q =>
               keyGate'[c] # <<>> /\ Head(keyGate'[c]) = q
      BY <3>1, LinedPassOn
    <3>. QED
      BY <2>2, <3>2 DEF Lined, gate, rs
  <2>4. CASE c # subject[r]
    BY <1>0, <2>1, <2>2, <2>4 DEF Lined
  <2>. QED
    BY <2>3, <2>4
<1>2. Lined(sessionGate', AtGate', SessionHolders')
  <2>1. AtGate \subseteq AtGate' /\ SessionHolders \subseteq SessionHolders'
    BY <1>0 DEF AtGate, SessionHolders, OnSession, Executing
  <2>. QED
    BY <1>0, <2>1 DEF Gates, Lined
<1>3. ASSUME NEW q \in Requests, pc'[q] \in OnKey PROVE HoldsKey(q)'
  <2>1. q # r /\ pc'[q] = pc[q]
    BY <1>0, <1>3 DEF OnKey
  <2>2. HoldsKey(q) /\ subject[q] \in Cmds
    BY <1>3, <2>1 DEF Gates, HoldsKey, TypeOK
  <2>. QED
    BY <1>0, <1>1, <2>1, <2>2 DEF HoldsKey
<1>4. ASSUME NEW q \in Requests, pc'[q] \in OnSession PROVE HoldsSession(q)'
  BY <1>0, <1>4 DEF Gates, OnSession, HoldsSession
<1>. QED
  BY <1>1, <1>2, <1>3, <1>4 DEF Gates

\* The final promise reaches everybody who joined, and nobody executes.
LEMMA DeliverGates ==
  ASSUME TypeOK, Gates, Flights, NEW r \in Requests, pc[r] \in Executing, NEW ack,
         Deliver(r, ack), UNCHANGED subject
  PROVE  /\ Gates' /\ Flights' /\ InFlight' = {}
         /\ \A q \in Requests : pc'[q] = IF q = r \/ pc[q] = "joined"
                                         THEN "answered" ELSE pc[q]
         /\ \A q \in Requests : pc[q] = "joined" => subject[q] = subject[r]
<1>. DEFINE rs == {r} \cup {q \in Requests : pc[q] = "joined" /\ subject[q] = subject[r]}
            reply == [q \in rs |-> IF q = r THEN ack ELSE RetryAck(q, ack)]
<1>1. Reply(rs, reply) /\ rs \in SUBSET Requests
  BY DEF Deliver
<1>2. \A q \in rs : pc[q] \notin {"idle", "key", "gate", "answered"}
  BY DEF Executing
<1>3. \A q \in Requests : pc[q] \in Executing => q = r
  BY Exclusion DEF OnSession
<1>4. \A q \in Requests : pc[q] = "joined" => subject[q] = subject[r]
  BY <1>3 DEF Flights, InFlight
<1>. HIDE DEF reply
<1>5. \A q \in Requests : pc'[q] = IF q = r \/ pc[q] = "joined" THEN "answered" ELSE pc[q]
  BY <1>1, <1>4 DEF Reply
<1>. HIDE DEF rs
<1>6. Gates'
  BY <1>1, <1>2, GatesReply
<1>7. \A q \in Requests : pc'[q] \notin Executing \cup {"joined"}
  BY <1>3, <1>5 DEF Executing
<1>. QED
  BY <1>4, <1>5, <1>6, <1>7 DEF Flights, InFlight

\* Who settles delivers.
LEMMA Settles ==
  ASSUME TypeOK, NEW r \in Requests, Settle(r) \/ SettleFailed(r) \/ SettlePlain(r)
  PROVE  pc[r] \in Executing /\ UNCHANGED subject /\ \E ack \in Acks : Deliver(r, ack)
BY DEF Settle, SettleFailed, SettlePlain, SettleWith, Executing, Acks

LEMMA RequestGates ==
  ASSUME TypeOK, Kinds, Gates, Flights, NEW r \in Requests, Request(r)
  PROVE  Gates' /\ Flights'
<1>0. ASSUME InFlight \subseteq InFlight', UNCHANGED subject,
             \A q \in Requests : pc'[q] = "joined" => pc[q] = "joined" \/ subject[q] \in InFlight
      PROVE  Flights'
  BY <1>0 DEF Flights
<1>1. CASE JoinFlight(r)
  <2>1. /\ pc' = [pc EXCEPT ![r] = "joined"] /\ subject[r] \in InFlight
        /\ UNCHANGED <<subject, keyGate, sessionGate>>
    BY <1>1 DEF JoinFlight, gateVars
  <2>2. pc[r] = "key" /\ HoldsKey(r)
    <3>1. PICK q \in Requests : pc[q] \in Executing
      BY <2>1 DEF InFlight
    <3>2. ~(pc[r] = "gate" /\ HoldsSession(r))
      BY <3>1, Exclusion DEF OnSession
    <3>. QED
      BY <1>1, <3>2 DEF JoinFlight, AtLookup
  <2>3. \A q \in Requests : GoesOn(q)
    BY <2>1, <2>2 DEF TypeOK, GoesOn
  <2>4. InFlight \subseteq InFlight'
    BY <2>1, <2>2 DEF InFlight, TypeOK, Executing
  <2>5. \A q \in Requests : pc'[q] = "joined" => pc[q] = "joined" \/ subject[q] \in InFlight
    BY <2>1 DEF TypeOK
  <2>. QED
    BY <1>0, <2>1, <2>3, <2>4, <2>5, GatesGoOn
<1>2. CASE \/ FindNow(r) \/ AwaitIndex(r) \/ Prepare(r) \/ Admit(r) \/ Execute(r) \/ ExecuteFails(r)
  <2>1. PICK l \in {"looked", "load", "cold", "decide", "execute", "settle", "cancel"} :
          /\ pc' = [pc EXCEPT ![r] = l] /\ UNCHANGED <<subject, keyGate, sessionGate>>
          /\ \/ AtLookup(r) /\ l \in {"looked", "load"}
             \/ pc[r] = "prepare" /\ l \in {"cold", "decide"}
             \/ pc[r] \in Executing /\ l \in Executing
    BY <1>2 DEF FindNow, AwaitIndex, Prepare, Admit, Execute, ExecuteFails, gateVars, Executing
  <2>2. \A q \in Requests : GoesOn(q)
    BY <2>1 DEF TypeOK, GoesOn, AtLookup
  <2>3. InFlight \subseteq InFlight'
    BY <2>1 DEF InFlight, TypeOK, Executing, AtLookup
  <2>4. \A q \in Requests : pc'[q] = "joined" => pc[q] = "joined"
    BY <2>1 DEF TypeOK, Executing
  <2>. QED
    BY <1>0, <2>1, <2>2, <2>3, <2>4, GatesGoOn
<1>3. CASE Found(r) \/ Reject(r)
  <2>1. PICK reply : Reply({r}, reply)
    BY <1>3 DEF Found, Reject
  <2>2. pc[r] \in {"looked", "decide"} /\ UNCHANGED subject
    BY <1>3 DEF Found, Reject
  <2>3. Gates'
    <3>1. {r} \in SUBSET Requests /\ \A q \in {r} : pc[q] \notin {"idle", "key", "gate", "answered"}
      BY <2>2
    <3>. QED
      BY <2>1, <2>2, <3>1, GatesReply
  <2>4. \A q \in Requests : pc'[q] = IF q = r THEN "answered" ELSE pc[q]
    BY <2>1 DEF Reply
  <2>. QED
    BY <1>0, <2>2, <2>3, <2>4 DEF InFlight, Executing
<1>4. CASE Missed(r)
  <2>1. PICK l \in {"prepare", "decide", "gate"} :
          pc' = [pc EXCEPT ![r] = l] /\ pc[r] = "looked" /\ UNCHANGED subject
    BY <1>4 DEF Missed
  <2>2. InFlight \subseteq InFlight'
    BY <2>1 DEF InFlight, TypeOK, Executing
  <2>3. \A q \in Requests : pc'[q] = "joined" => pc[q] = "joined"
    BY <2>1 DEF TypeOK
  <2>. QED
    BY <1>0, <1>4, <2>1, <2>2, <2>3, MissedGates
<1>5. CASE Accept(r)
  <2>1. PICK l \in {"admit", "execute"} :
          pc' = [pc EXCEPT ![r] = l] /\ pc[r] = "decide" /\ UNCHANGED subject
    BY <1>5 DEF Accept
  <2>2. InFlight \subseteq InFlight'
    BY <2>1 DEF InFlight, TypeOK, Executing
  <2>3. \A q \in Requests : pc'[q] = "joined" => pc[q] = "joined"
    BY <2>1 DEF TypeOK
  <2>. QED
    BY <1>0, <1>5, <2>1, <2>2, <2>3, AcceptGates
<1>6. CASE Settle(r) \/ SettleFailed(r) \/ SettlePlain(r)
  BY <1>6, Settles, DeliverGates
<1>7. CASE Return(r)
  <2>0. /\ pc[r] = "answered" /\ pc'[r] = "idle" /\ UNCHANGED <<keyGate, sessionGate>>
        /\ \A q \in Requests \ {r} : pc'[q] = pc[q] /\ subject'[q] = subject[q]
    BY <1>7 DEF Return, TypeOK, gateVars
  <2>1. /\ AtGate \subseteq AtGate' /\ SessionHolders \subseteq SessionHolders'
        /\ \A c \in Cmds : AtKey(c) \subseteq AtKey(c)' /\ KeyHolders(c) \subseteq KeyHolders(c)'
    BY <2>0 DEF AtGate, SessionHolders, AtKey, KeyHolders, OnKey, OnSession, Executing
  <2>2. Lined(sessionGate', AtGate', SessionHolders')
        /\ \A c \in Cmds : Lined(keyGate'[c], AtKey(c)', KeyHolders(c)')
    BY <2>0, <2>1 DEF Gates, Lined
  <2>3. \A q \in Requests : /\ pc'[q] \in OnKey => HoldsKey(q)'
                            /\ pc'[q] \in OnSession => HoldsSession(q)'
    BY <2>0 DEF Gates, HoldsKey, HoldsSession, OnKey, OnSession, Executing
  <2>4. Flights' /\ InFlight' = InFlight
    BY <2>0 DEF Flights, InFlight, Executing
  <2>. QED
    BY <2>2, <2>3, <2>4 DEF Gates
<1>. QED
  BY <1>1, <1>2, <1>3, <1>4, <1>5, <1>6, <1>7 DEF Request

\* What the runtime does is no business of the gates.
LEMMA RuntimeFrame ==
  ASSUME NEW c, Runtime(c) \/ Remove(c)
  PROVE  UNCHANGED <<requestVars, gateVars, sweeping, sessionVars, taken>>
BY DEF Runtime, Remove, Drain, Promote, Blocked, Announce, Invalidate, CompactOver, RecordFact,
       RecordFails, indexVars

LEMMA LoadingGoesOn ==
  ASSUME TypeOK, NEW o \in Requests, Loading(o)
  PROVE  /\ \A q \in Requests : \/ q \notin Waiters(o) /\ pc'[q] = pc[q] /\ found'[q] = found[q]
                                \/ q \in Waiters(o) /\ pc[q] = "load" /\ pc'[q] = "looked"
         /\ UNCHANGED <<subject, querying, answer, gateVars, memoryVars, timeline, sessionVars,
                        runtimeVars>>
         /\ InFlight' = InFlight
<1>0. UNCHANGED <<subject, querying, answer, gateVars, memoryVars, timeline, sessionVars,
                  runtimeVars>>
  BY DEF Loading, LoadDone, LoadFails, ledgerVars
<1>1. pc' = [q \in Requests |-> IF q \in Waiters(o) THEN "looked" ELSE pc[q]]
  BY DEF Loading, LoadDone, LoadFails
<1>2. \A q \in Requests : q \notin Waiters(o) => found'[q] = found[q]
  BY DEF Loading, LoadDone, LoadFails
<1>3. \A q \in Waiters(o) : pc[q] = "load"
  BY DEF Waiters
<1>4. InFlight' = InFlight
  BY <1>0, <1>1, <1>3 DEF InFlight, Executing
<1>. QED
  BY <1>0, <1>1, <1>2, <1>3, <1>4

LEMMA StepGates ==
  ASSUME TypeOK, Kinds, Gates, Flights, [Next]_vars
  PROVE  Gates' /\ Flights'
<1>1. ASSUME NEW r \in Requests, NEW c \in Cmds, NEW query \in BOOLEAN, Arrive(r, c, query)
      PROVE  Gates' /\ Flights'
  BY <1>1, ArriveGates
<1>2. ASSUME NEW r \in Requests, Request(r) PROVE Gates' /\ Flights'
  BY <1>2, RequestGates
<1>3. ASSUME NEW o \in Requests, Loading(o) PROVE Gates' /\ Flights'
  <2>1. /\ UNCHANGED <<subject, keyGate, sessionGate>> /\ InFlight' = InFlight
        /\ \A q \in Requests : pc'[q] = pc[q] \/ (pc[q] = "load" /\ pc'[q] = "looked")
    BY <1>3, LoadingGoesOn DEF gateVars
  <2>2. \A q \in Requests : GoesOn(q)
    BY <2>1 DEF GoesOn
  <2>. QED
    BY <2>1, <2>2, GatesGoOn DEF Flights
<1>4. ASSUME NEW c \in Durable, Runtime(c) \/ Remove(c) PROVE Gates' /\ Flights'
  BY <1>4, RuntimeFrame, GatesFrame DEF requestVars, gateVars
<1>5. CASE BeginAnyResume \/ Register \/ Deactivate \/ UNCHANGED vars
  <2>1. UNCHANGED <<requestVars, gateVars>>
    BY <1>5 DEF BeginAnyResume, BeginResume, Register, Deactivate, vars
  <2>. QED
    BY <2>1, GatesFrame DEF requestVars, gateVars
<1>6. CASE FinishResume
  <2>1. /\ UNCHANGED <<subject, keyGate, sessionGate>>
        /\ \A q \in Requests : pc'[q] = IF pc[q] = "cold" THEN "decide" ELSE pc[q]
    BY <1>6 DEF FinishResume, gateVars
  <2>2. \A q \in Requests : GoesOn(q)
    BY <2>1 DEF GoesOn
  <2>. QED
    BY <2>1, <2>2, GatesGoOn DEF Flights, InFlight, Executing
<1>7. CASE ResumeFails
  <2>. DEFINE cold == {r \in Requests : pc[r] = "cold"}
  <2>1. PICK reply : Reply(cold, reply) /\ UNCHANGED subject
    BY <1>7 DEF ResumeFails
  <2>2. \A q \in Requests : pc'[q] = IF pc[q] = "cold" THEN "answered" ELSE pc[q]
    BY <2>1 DEF Reply
  <2>3. cold \in SUBSET Requests /\ \A q \in cold : pc[q] \notin {"idle", "key", "gate", "answered"}
    OBVIOUS
  <2>. HIDE DEF cold
  <2>4. Gates'
    BY <2>1, <2>3, GatesReply
  <2>. QED
    BY <2>1, <2>2, <2>4 DEF Flights, InFlight, Executing
<1>8. CASE Crash
  BY <1>8 DEF Crash, Gates, Flights, Lined, OnKey, OnSession, Executing
<1>. QED
  BY <1>1, <1>2, <1>3, <1>4, <1>5, <1>6, <1>7, <1>8 DEF Next, Resume

-----------------------------------------------------------------------------
(* What goes with what.                                                     *)

LEMMA InitKinds == Init => Kinds
BY DEF Init, Kinds, RequestKinds, CommandKinds

\* Which commands a request's step touches: none, or its own.
LEMMA RequestTouches ==
  ASSUME TypeOK, Kinds, NEW r \in Requests, Request(r)
  PROVE  /\ \A c \in Cmds \ {subject[r]} :
              /\ row'[c] = row[c] /\ live'[c] = live[c]
              /\ work'[c] = work[c] /\ taken'[c] = taken[c]
         /\ timeline' = timeline
         /\ \A q \in Requests \ {r} : /\ subject'[q] = subject[q] /\ querying'[q] = querying[q]
                                      /\ found'[q] = found[q]
                                      /\ \/ pc'[q] = pc[q]
                                         \/ pc[q] = "joined" /\ pc'[q] = "answered"
<1>1. CASE \/ JoinFlight(r) \/ FindNow(r) \/ AwaitIndex(r) \/ Missed(r) \/ Prepare(r) \/ Accept(r)
           \/ ExecuteFails(r) \/ Return(r)
  <2>1. UNCHANGED <<row, live, work, taken, timeline>>
    BY <1>1 DEF JoinFlight, FindNow, AwaitIndex, Missed, Prepare, Accept, ExecuteFails, Return,
                memoryVars, ledgerVars, runtimeVars
  <2>2. \A q \in Requests \ {r} : /\ subject'[q] = subject[q] /\ querying'[q] = querying[q]
                                  /\ found'[q] = found[q] /\ pc'[q] = pc[q]
    BY <1>1 DEF TypeOK, JoinFlight, FindNow, AwaitIndex, Missed, Prepare, Accept, ExecuteFails, Return
  <2>. QED
    BY <2>1, <2>2
<1>2. CASE Found(r) \/ Reject(r)
  <2>1. UNCHANGED <<row, live, work, taken, timeline, subject, querying>>
    BY <1>2 DEF Found, Reject, memoryVars, ledgerVars, runtimeVars
  <2>2. \A q \in Requests \ {r} : found'[q] = found[q] /\ pc'[q] = pc[q]
    BY <1>2 DEF TypeOK, Found, Reject, Reply
  <2>. QED
    BY <2>1, <2>2
<1>3. CASE Admit(r) \/ Execute(r)
  BY <1>3 DEF TypeOK, Admit, Execute, memoryVars, ledgerVars, runtimeVars
<1>4. CASE Settle(r) \/ SettleFailed(r) \/ SettlePlain(r)
  <2>1. UNCHANGED <<work, taken, timeline, subject, querying, found>>
    BY <1>4 DEF Settle, SettleFailed, SettlePlain, ledgerVars, runtimeVars
  <2>2. \A c \in Cmds \ {subject[r]} : live'[c] = live[c]
    BY <1>4 DEF TypeOK, Settle, SettleFailed, SettlePlain, SettleWith
  <2>3. \A c \in Cmds \ {subject[r]} : row'[c] = row[c]
    BY <1>4 DEF TypeOK, Settle, SettleFailed, SettlePlain, ledgerVars
  <2>4. \A q \in Requests \ {r} : pc'[q] = pc[q] \/ (pc[q] = "joined" /\ pc'[q] = "answered")
    <3>1. PICK ack \in Acks : Deliver(r, ack)
      BY <1>4, Settles
    <3>. QED
      BY <3>1 DEF Deliver, Reply
  <2>. QED
    BY <2>1, <2>2, <2>3, <2>4
<1>. QED
  BY <1>1, <1>2, <1>3, <1>4 DEF Request

\* A row that is written stays written.
LEMMA RowsStay ==
  ASSUME TypeOK, Kinds, [Next]_vars, NEW c \in Cmds, row[c] # "none"
  PROVE  row'[c] # "none"
<1>1. ASSUME NEW r \in Requests, NEW d \in Cmds, NEW query \in BOOLEAN, Arrive(r, d, query)
      PROVE  UNCHANGED row
  BY <1>1 DEF Arrive, ledgerVars
<1>2. ASSUME NEW r \in Requests, Request(r)
      PROVE  row'[c] # "none"
  BY <1>2 DEF TypeOK, Request, JoinFlight, FindNow, AwaitIndex, Found, Missed, Prepare, Reject, Accept,
              Admit, Execute, ExecuteFails, Settle, SettleFailed, SettlePlain, Return, ledgerVars
<1>3. ASSUME NEW o \in Requests, Loading(o) PROVE row'[c] # "none"
  BY <1>3 DEF TypeOK, Loading, LoadDone, LoadFails, Swept, ledgerVars
<1>4. ASSUME NEW d \in Durable, Runtime(d) \/ Remove(d) PROVE row'[c] # "none"
  BY <1>4 DEF TypeOK, Runtime, Remove, Drain, Promote, Blocked, Announce, CompactOver, RecordFact,
              RecordFails, ledgerVars
<1>5. CASE BeginAnyResume \/ Resume \/ Deactivate \/ Crash \/ UNCHANGED vars
  BY <1>5 DEF TypeOK, BeginAnyResume, BeginResume, Resume, Register, FinishResume, ResumeFails,
              Deactivate, Crash, Swept, ledgerVars, vars
<1>. QED
  BY <1>1, <1>2, <1>3, <1>4, <1>5 DEF Next

LEMMA RequestKindsStep ==
  ASSUME TypeOK, Kinds, [Next]_vars
  PROVE  RequestKinds'
<1>0. \A c \in Cmds : row[c] # "none" => row'[c] # "none"
  BY RowsStay
<1>1. ASSUME NEW r \in Requests, NEW d \in Cmds, NEW query \in BOOLEAN, Arrive(r, d, query)
      PROVE  RequestKinds'
  <2>1. d # None
    BY NoneIsNoValue
  <2>. QED
    BY <1>1, <2>1 DEF TypeOK, Kinds, RequestKinds, Arrive, ledgerVars
<1>2. ASSUME NEW r \in Requests, Request(r) PROVE RequestKinds'
  <2>1. ASSUME NEW q \in Requests \ {r}
        PROVE  /\ pc'[q] # "idle" => subject'[q] # None
               /\ pc'[q] = "looked" => found'[q] \in Acks \cup {"miss", "error"}
               /\ pc'[q] \in {"admit", "cancel"} => subject'[q] \in Durable
               /\ pc'[q] \in {"execute", "cancel", "settle"} /\ subject'[q] \in Durable =>
                    row'[subject'[q]] # "none"
    <3>1. /\ subject'[q] = subject[q] /\ found'[q] = found[q]
          /\ pc'[q] = pc[q] \/ (pc[q] = "joined" /\ pc'[q] = "answered")
      BY <1>2, RequestTouches
    <3>2. subject[q] \in Durable => subject[q] \in Cmds
      BY DEF Durable, Cmds
    <3>. QED
      BY <1>0, <3>1, <3>2 DEF Kinds, RequestKinds
  <2>2. /\ pc'[r] # "idle" => subject'[r] # None
        /\ pc'[r] = "looked" => found'[r] \in Acks \cup {"miss", "error"}
        /\ pc'[r] \in {"admit", "cancel"} => subject'[r] \in Durable
        /\ pc'[r] \in {"execute", "cancel", "settle"} /\ subject'[r] \in Durable =>
             row'[subject'[r]] # "none"
    <3>0. pc[r] # "idle" => subject[r] # None /\ subject[r] \in Cmds
      BY DEF TypeOK, Kinds, RequestKinds
    <3>1. CASE JoinFlight(r) \/ AwaitIndex(r) \/ Missed(r) \/ Prepare(r)
      <4>1. /\ subject'[r] = subject[r] /\ pc[r] # "idle"
            /\ pc'[r] \in {"joined", "load", "gate", "prepare", "cold", "decide"}
        BY <3>1 DEF TypeOK, JoinFlight, AwaitIndex, Missed, Prepare, AtLookup
      <4>. QED
        BY <3>0, <4>1
    <3>2. CASE FindNow(r)
      <4>0. subject'[r] = subject[r] /\ pc[r] # "idle" /\ pc'[r] = "looked"
        BY <3>2 DEF TypeOK, FindNow, AtLookup
      <4>1. CASE live[subject[r]] # None /\ found' = [found EXCEPT ![r] = live[subject[r]]]
        BY <3>0, <4>0, <4>1 DEF TypeOK
      <4>2. CASE Remembered(subject[r]) /\ found' = [found EXCEPT ![r] = SettledAck(subject[r])]
        <5>1. SettledAck(subject[r]) \in Acks
          BY <4>2, SettledType
        <5>. QED
          BY <3>0, <4>0, <4>2, <5>1 DEF TypeOK
      <4>3. CASE found' = [found EXCEPT ![r] = FactIn(index, subject[r])]
        <5>1. FactIn(index, subject[r]) \in Acks \cup {"miss"}
          BY FactInType DEF Acks
        <5>. QED
          BY <3>0, <4>0, <4>3, <5>1 DEF TypeOK
      <4>. QED
        BY <3>2, <4>1, <4>2, <4>3 DEF FindNow
    <3>3. CASE Found(r) \/ Reject(r)
      <4>1. subject'[r] = subject[r] /\ pc[r] # "idle" /\ pc'[r] = "answered"
        BY <3>3 DEF TypeOK, Found, Reject, Reply
      <4>. QED
        BY <3>0, <4>1
    <3>4. CASE Accept(r)
      <4>1. /\ subject'[r] = subject[r] /\ pc[r] # "idle"
            /\ pc'[r] = IF subject[r] \in Durable THEN "admit" ELSE "execute"
        BY <3>4 DEF TypeOK, Accept
      <4>. QED
        BY <3>0, <4>1
    <3>5. CASE Admit(r)
      BY <3>0, <3>5 DEF TypeOK, Admit
    <3>6. CASE Execute(r) \/ ExecuteFails(r)
      <4>1. /\ subject'[r] = subject[r] /\ row' = row /\ pc[r] = "execute"
            /\ pc'[r] = "settle" \/ (pc'[r] = "cancel" /\ subject[r] \in Durable)
        BY <3>6 DEF TypeOK, Execute, ExecuteFails, ledgerVars
      <4>. QED
        BY <3>0, <4>1 DEF Kinds, RequestKinds
    <3>7. CASE Settle(r) \/ SettleFailed(r) \/ SettlePlain(r)
      <4>1. pc[r] \in Executing /\ UNCHANGED subject /\ \E ack \in Acks : Deliver(r, ack)
        BY <3>7, Settles
      <4>2. pc'[r] = "answered" /\ pc[r] # "idle"
        BY <4>1 DEF Deliver, Reply, Executing
      <4>. QED
        BY <3>0, <4>1, <4>2
    <3>8. CASE Return(r)
      BY <3>8 DEF TypeOK, Return
    <3>. QED
      BY <1>2, <3>1, <3>2, <3>3, <3>4, <3>5, <3>6, <3>7, <3>8 DEF Request
  <2>. QED
    BY <2>1, <2>2 DEF RequestKinds
<1>3. ASSUME NEW o \in Requests, Loading(o) PROVE RequestKinds'
  <2>1. UNCHANGED subject /\ pc' = [q \in Requests |-> IF q \in Waiters(o) THEN "looked" ELSE pc[q]]
    BY <1>3 DEF Loading, LoadDone, LoadFails
  <2>2. \A q \in Requests : IF q \in Waiters(o) THEN found'[q] \in Acks \cup {"miss", "error"}
                                                ELSE found'[q] = found[q]
    BY <1>3, FactInType DEF Loading, LoadDone, LoadFails, Acks
  <2>3. \A q \in Waiters(o) : pc[q] = "load"
    BY DEF Waiters
  <2>. QED
    BY <1>0, <2>1, <2>2, <2>3 DEF Kinds, RequestKinds, Durable, Cmds
<1>4. ASSUME NEW c \in Durable, Runtime(c) \/ Remove(c) PROVE RequestKinds'
  <2>1. UNCHANGED requestVars
    BY <1>4, RuntimeFrame
  <2>. QED
    BY <1>0, <2>1 DEF Kinds, RequestKinds, requestVars, Durable, Cmds
<1>5. CASE BeginAnyResume \/ Register \/ Deactivate \/ UNCHANGED vars
  <2>1. UNCHANGED requestVars
    BY <1>5 DEF BeginAnyResume, BeginResume, Register, Deactivate, vars
  <2>. QED
    BY <1>0, <2>1 DEF Kinds, RequestKinds, requestVars, Durable, Cmds
<1>6. CASE FinishResume \/ ResumeFails
  <2>1. /\ UNCHANGED <<subject, found>>
        /\ \A q \in Requests : \/ pc'[q] = pc[q]
                               \/ pc[q] = "cold" /\ pc'[q] \in {"decide", "answered"}
    BY <1>6 DEF FinishResume, ResumeFails, Reply
  <2>. QED
    BY <1>0, <2>1 DEF Kinds, RequestKinds, Durable, Cmds
<1>7. CASE Crash
  BY <1>7 DEF Crash, RequestKinds
<1>. QED
  BY <1>1, <1>2, <1>3, <1>4, <1>5, <1>6, <1>7 DEF Next, Resume

LEMMA CommandKindsStep ==
  ASSUME TypeOK, Kinds, [Next]_vars
  PROVE  CommandKinds'
<1>. SUFFICES ASSUME NEW c \in Cmds
              PROVE  /\ work'[c] # "none" => c \in Durable /\ row'[c] # "none"
                     /\ work'[c] = "recording" => c \in Compacts
                     /\ work'[c] \in {"promoting", "removing"} => row'[c] # "admitted"
                     /\ row'[c] = "promoted" => c \in Inputs
                     /\ row'[c] # "none" => c \in Durable
                     /\ taken'[c] > 0 => row'[c] # "none"
                     /\ live'[c] # None => live'[c] = "accepted" /\ c \in Durable
  BY DEF CommandKinds
<1>0. /\ work[c] # "none" => c \in Durable /\ row[c] # "none"
      /\ work[c] = "recording" => c \in Compacts
      /\ work[c] \in {"promoting", "removing"} => row[c] # "admitted"
      /\ row[c] = "promoted" => c \in Inputs
      /\ row[c] # "none" => c \in Durable
      /\ taken[c] > 0 => row[c] # "none"
      /\ live[c] # None => live[c] = "accepted" /\ c \in Durable
  BY DEF Kinds, CommandKinds
<1>1. ASSUME UNCHANGED <<row, live, work, taken>>
      PROVE  /\ work'[c] = work[c] /\ row'[c] = row[c] /\ taken'[c] = taken[c] /\ live'[c] = live[c]
  BY <1>1
<1>2. ASSUME NEW r \in Requests, NEW d \in Cmds, NEW query \in BOOLEAN, Arrive(r, d, query)
      PROVE  UNCHANGED <<row, live, work, taken>>
  BY <1>2 DEF Arrive, memoryVars, ledgerVars, runtimeVars
<1>3. ASSUME NEW r \in Requests, Request(r), c # subject[r]
      PROVE  /\ work'[c] = work[c] /\ row'[c] = row[c] /\ taken'[c] = taken[c] /\ live'[c] = live[c]
  BY <1>3, RequestTouches
<1>4. ASSUME NEW r \in Requests, Request(r), c = subject[r]
      PROVE  \/ UNCHANGED <<row, live, work, taken>>
             \/ Admit(r) \/ Execute(r) \/ Settle(r) \/ SettleFailed(r) \/ SettlePlain(r)
  BY <1>4 DEF Request, JoinFlight, FindNow, AwaitIndex, Found, Missed, Prepare, Reject, Accept,
              ExecuteFails, Return, memoryVars, ledgerVars, runtimeVars
<1>5. ASSUME NEW r \in Requests, c = subject[r], Admit(r)
      PROVE  /\ work'[c] = work[c] /\ taken'[c] = taken[c] /\ c \in Durable
             /\ row'[c] = IF row[c] = "none" THEN "admitted" ELSE row[c]
             /\ live'[c] = "accepted"
  BY <1>5 DEF Admit, TypeOK, Kinds, RequestKinds, runtimeVars
<1>6. ASSUME NEW r \in Requests, c = subject[r], Execute(r)
      PROVE  /\ row'[c] = row[c] /\ live'[c] = live[c]
             /\ \/ work'[c] = work[c] /\ taken'[c] = taken[c]
                \/ work'[c] \in {"queued", "turn", "compacting"} /\ c \in Durable
             /\ c \in Durable => row[c] # "none"
  BY <1>6 DEF Execute, TypeOK, Kinds, RequestKinds, memoryVars, ledgerVars, runtimeVars
<1>7. ASSUME NEW r \in Requests, c = subject[r], Settle(r) \/ SettleFailed(r) \/ SettlePlain(r)
      PROVE  /\ work'[c] = work[c] /\ taken'[c] = taken[c]
             /\ row'[c] = row[c] \/ (row[c] = "admitted" /\ row'[c] = "cancelled")
             /\ live'[c] = None \/ (live[c] # None /\ live'[c] = "accepted")
  BY <1>7 DEF Settle, SettleFailed, SettlePlain, SettleWith, TypeOK, ledgerVars, runtimeVars
<1>8. ASSUME NEW r \in Requests, Request(r)
      PROVE  /\ work'[c] # "none" => c \in Durable /\ row'[c] # "none"
             /\ work'[c] = "recording" => c \in Compacts
             /\ work'[c] \in {"promoting", "removing"} => row'[c] # "admitted"
             /\ row'[c] = "promoted" => c \in Inputs
             /\ row'[c] # "none" => c \in Durable
             /\ taken'[c] > 0 => row'[c] # "none"
             /\ live'[c] # None => live'[c] = "accepted" /\ c \in Durable
  <2>1. CASE c # subject[r]
    BY <1>0, <1>3, <1>8, <2>1
  <2>2. CASE c = subject[r] /\ UNCHANGED <<row, live, work, taken>>
    BY <1>0, <1>1, <2>2
  <2>3. CASE c = subject[r] /\ Admit(r)
    BY <1>0, <1>5, <2>3
  <2>4. CASE c = subject[r] /\ Execute(r)
    BY <1>0, <1>6, <2>4
  <2>5. CASE c = subject[r] /\ (Settle(r) \/ SettleFailed(r) \/ SettlePlain(r))
    BY <1>0, <1>7, <2>5
  <2>. QED
    BY <1>4, <1>8, <2>1, <2>2, <2>3, <2>4, <2>5
<1>9. ASSUME NEW o \in Requests, Loading(o)
      PROVE  /\ work'[c] = work[c] /\ taken'[c] = taken[c] /\ live'[c] = live[c]
             /\ row'[c] = row[c] \/ (row[c] = "admitted" /\ row'[c] = "discarded")
  BY <1>9 DEF Loading, LoadDone, LoadFails, Swept, TypeOK, memoryVars, ledgerVars, runtimeVars
<1>10. ASSUME NEW d \in Durable, Runtime(d) \/ Remove(d)
       PROVE  /\ work'[c] # "none" => c \in Durable /\ row'[c] # "none"
              /\ work'[c] = "recording" => c \in Compacts
              /\ work'[c] \in {"promoting", "removing"} => row'[c] # "admitted"
              /\ row'[c] = "promoted" => c \in Inputs
              /\ row'[c] # "none" => c \in Durable
              /\ taken'[c] > 0 => row'[c] # "none"
              /\ live'[c] # None => live'[c] = "accepted" /\ c \in Durable
  <2>0. d \in Cmds /\ taken' = taken
    BY <1>10, RuntimeFrame DEF Durable, Cmds
  <2>1. CASE c # d
    <3>1. /\ work'[c] = work[c] /\ row'[c] = row[c] /\ live'[c] = live[c]
      BY <1>10, <2>0, <2>1 DEF Runtime, Remove, Drain, Promote, Blocked, Announce, Release, CompactOver,
            RecordFact, RecordFails, Progress, TypeOK, memoryVars, ledgerVars
    <3>. QED
      BY <1>0, <2>0, <3>1
  <2>2. CASE c = d
    <3>1. CASE Drain(d) \/ Blocked(d) \/ CompactOver(d) \/ RecordFact(d) \/ RecordFails(d)
      <4>1. /\ row'[c] = row[c] /\ live'[c] = live[c] /\ work[c] # "none"
            /\ \/ work'[c] \in {"turn", "compacting", "none"}
               \/ work'[c] = "recording" /\ c \in Compacts
        BY <2>0, <2>2, <3>1 DEF Drain, Blocked, CompactOver, RecordFact, RecordFails, Progress, TypeOK,
            memoryVars, ledgerVars
      <4>. QED
        BY <1>0, <2>0, <2>2, <4>1
    <3>2. CASE Promote(d) \/ Remove(d)
      <4>1. /\ live'[c] = live[c] /\ work'[c] \in {"promoting", "removing"} /\ work[c] # "none"
            /\ \/ row'[c] = "promoted" /\ c \in Inputs
               \/ row'[c] = (IF row[c] = "admitted" THEN "cancelled" ELSE row[c])
        BY <2>0, <2>2, <3>2 DEF Promote, Remove, Progress, TypeOK, memoryVars
      <4>. QED
        BY <1>0, <2>0, <2>2, <4>1
    <3>3. CASE Announce(d)
      <4>1. row'[c] = row[c] /\ work'[c] = "none" /\ live'[c] = None
        BY <2>0, <2>2, <3>3 DEF Announce, Release, TypeOK, ledgerVars
      <4>. QED
        BY <1>0, <2>0, <2>2, <4>1
    <3>. QED
      BY <1>10, <3>1, <3>2, <3>3 DEF Runtime
  <2>. QED
    BY <2>1, <2>2
<1>11. CASE BeginAnyResume \/ Register \/ ResumeFails \/ Deactivate \/ UNCHANGED vars
  <2>1. UNCHANGED <<row, work, taken, live>>
    BY <1>11 DEF BeginAnyResume, BeginResume, Register, ResumeFails, Deactivate, vars, memoryVars,
                 ledgerVars, runtimeVars
  <2>. QED
    BY <1>0, <1>1, <2>1
<1>12. CASE FinishResume \/ Crash
  <2>1. /\ work'[c] = work[c] \/ work'[c] = "none"
        /\ taken'[c] = taken[c]
        /\ live'[c] = live[c] \/ live'[c] = None
        /\ row'[c] = row[c] \/ (row[c] = "admitted" /\ row'[c] = "discarded")
    BY <1>12 DEF FinishResume, Crash, Swept, TypeOK, memoryVars, ledgerVars, runtimeVars
  <2>. QED
    BY <1>0, <2>1
<1>. QED
  BY <1>0, <1>1, <1>2, <1>8, <1>9, <1>10, <1>11, <1>12 DEF Next, Resume

-----------------------------------------------------------------------------
(* Whose command is decided, nobody works on; what is worked on is pinned.  *)

LEMMA InitClean == Init => Clean /\ Pins
BY DEF Init, Clean, Deciding, Missing, Pins

\* What the settled table may hold after a step, entry by entry: what it held, or
\* what is remembered now.
EntriesFrom(c, acks) ==
  \A i \in DOMAIN settled' : \/ \E j \in DOMAIN settled : settled'[i] = settled[j]
                             \/ settled'[i].cmd = c /\ settled'[i].ack \in acks

LEMMA RememberEntries ==
  ASSUME TypeOK, NEW c \in Cmds, NEW ack \in Acks, settled' = Remember(settled, c, ack)
  PROVE  EntriesFrom(c, {ack})
<1>1. settled \in Seq(Entries) /\ Len(settled) <= Limit
  BY DEF TypeOK, Entries
<1>2. \A i \in DOMAIN settled' : \/ settled'[i] = [cmd |-> c, ack |-> ack]
                                 \/ \E j \in DOMAIN settled : settled'[i] = settled[j]
  BY <1>1, RememberedEntries
<1>. QED
  BY <1>2 DEF EntriesFrom

LEMMA RequestEntries ==
  ASSUME TypeOK, Kinds, NEW r \in Requests, Request(r)
  PROVE  EntriesFrom(subject[r], Acks)
<1>0. UNCHANGED settled => EntriesFrom(subject[r], Acks)
  BY DEF EntriesFrom
<1>1. ASSUME NEW ack \in Acks, subject[r] \in Cmds, settled' = Remember(settled, subject[r], ack)
      PROVE  EntriesFrom(subject[r], Acks)
  BY <1>1, RememberEntries DEF EntriesFrom
<1>2. pc[r] # "idle" => subject[r] \in Cmds
  BY DEF TypeOK, Kinds, RequestKinds
<1>3. CASE FindNow(r)
  <2>1. \/ UNCHANGED settled
        \/ /\ Remembered(subject[r])
           /\ settled' = Remember(settled, subject[r], SettledAck(subject[r]))
    BY <1>3 DEF FindNow
  <2>. QED
    BY <1>0, <1>1, <2>1, SettledType
<1>4. CASE Admit(r)
  <2>1. settled \in Seq(Entries) /\ settled' = Without(settled, subject[r])
    BY <1>4 DEF TypeOK, Admit, Entries
  <2>2. \A i \in DOMAIN settled' : \E j \in DOMAIN settled : settled'[i] = settled[j]
    BY <2>1, WithoutShrinks
  <2>. QED
    BY <2>2 DEF EntriesFrom
<1>5. CASE Settle(r) \/ SettleFailed(r) \/ SettlePlain(r)
  <2>1. UNCHANGED settled \/ \E ack \in Acks : settled' = Remember(settled, subject[r], ack)
    BY <1>5 DEF Settle, SettleFailed, SettlePlain, SettleWith, Acks
  <2>2. subject[r] \in Cmds
    BY <1>2, <1>5, Settles DEF Executing
  <2>. QED
    BY <1>0, <1>1, <2>1, <2>2
<1>6. CASE \/ JoinFlight(r) \/ AwaitIndex(r) \/ Found(r) \/ Missed(r) \/ Prepare(r) \/ Reject(r)
           \/ Accept(r) \/ Execute(r) \/ ExecuteFails(r) \/ Return(r)
  <2>1. UNCHANGED settled
    BY <1>6 DEF JoinFlight, AwaitIndex, Found, Missed, Prepare, Reject, Accept, Execute, ExecuteFails,
                Return, memoryVars
  <2>. QED
    BY <1>0, <2>1
<1>. QED
  BY <1>3, <1>4, <1>5, <1>6 DEF Request

LEMMA RuntimeEntries ==
  ASSUME TypeOK, Kinds, NEW c \in Durable, Runtime(c) \/ Remove(c)
  PROVE  EntriesFrom(c, {"accepted"})
<1>0. UNCHANGED settled => EntriesFrom(c, {"accepted"})
  BY DEF EntriesFrom
<1>1. CASE Announce(c)
  <2>1. UNCHANGED settled \/ (live[c] # None /\ settled' = Remember(settled, c, live[c]))
    BY <1>1 DEF Announce, Release
  <2>2. c \in Cmds /\ (live[c] # None => live[c] = "accepted")
    BY DEF Durable, Cmds, Kinds, CommandKinds
  <2>3. "accepted" \in Acks
    BY DEF Acks
  <2>. QED
    BY <1>0, <2>1, <2>2, <2>3, RememberEntries
<1>2. CASE ~Announce(c)
  BY <1>0, <1>2 DEF Runtime, Remove, Drain, Promote, Blocked, CompactOver, RecordFact, RecordFails,
                    memoryVars
<1>. QED
  BY <1>1, <1>2

\* The flights change with the request that moves.
LEMMA RequestFlights ==
  ASSUME TypeOK, Kinds, NEW r \in Requests, Request(r)
  PROVE  /\ \A c : c \in InFlight' => c \in InFlight \/ (pc[r] = "decide" /\ c = subject[r])
         /\ pc[r] \notin Executing /\ pc'[r] \in Executing => pc[r] = "decide"
<1>1. ASSUME pc'[r] \in Executing
      PROVE  (pc[r] = "decide" \/ pc[r] \in Executing) /\ subject'[r] = subject[r]
  <2>1. CASE \/ JoinFlight(r) \/ FindNow(r) \/ AwaitIndex(r) \/ Missed(r) \/ Prepare(r) \/ Return(r)
             \/ Found(r) \/ Reject(r)
    <3>1. pc'[r] \notin Executing
      BY <2>1 DEF TypeOK, Executing, JoinFlight, FindNow, AwaitIndex, Missed, Prepare, Return, Found,
                  Reject, Reply
    <3>. QED
      BY <1>1, <3>1
  <2>2. CASE Accept(r) \/ Admit(r) \/ Execute(r) \/ ExecuteFails(r)
    BY <2>2 DEF TypeOK, Executing, Accept, Admit, Execute, ExecuteFails
  <2>3. CASE Settle(r) \/ SettleFailed(r) \/ SettlePlain(r)
    BY <2>3, Settles
  <2>. QED
    BY <2>1, <2>2, <2>3 DEF Request
<1>2. ASSUME NEW c, c \in InFlight'
      PROVE  c \in InFlight \/ (pc[r] = "decide" /\ c = subject[r])
  <2>1. PICK p \in Requests : pc'[p] \in Executing /\ subject'[p] = c
    BY <1>2 DEF InFlight
  <2>2. CASE p = r
    BY <1>1, <2>1, <2>2 DEF InFlight
  <2>3. CASE p # r
    <3>1. /\ subject'[p] = subject[p]
          /\ pc'[p] = pc[p] \/ (pc[p] = "joined" /\ pc'[p] = "answered")
      BY <2>3, RequestTouches
    <3>. QED
      BY <2>1, <3>1 DEF InFlight, Executing
  <2>. QED
    BY <2>2, <2>3
<1>. QED
  BY <1>1, <1>2

\* What Clean says of one request.
CleanAt(r) ==
  LET c == subject[r] IN
  /\ Deciding(r) => c \notin InFlight
  /\ Deciding(r) \/ pc[r] = "admit" =>
       live[c] = None /\ work[c] = "none" /\ ~Remembered(c)
  /\ pc[r] \in {"execute", "cancel"} =>
       work[c] = "none" /\ (c \in Durable => live[c] # None)

\* Another request's step changes nothing of the command being decided.
LEMMA CleanOthers ==
  ASSUME TypeOK, Kinds, Gates, Flights, Clean, NEW r \in Requests, Request(r),
         NEW q \in Requests \ {r}
  PROVE  CleanAt(q)'
<1>. DEFINE c == subject[q]
<1>1. /\ subject'[q] = subject[q] /\ found'[q] = found[q]
      /\ pc'[q] = pc[q] \/ (pc[q] = "joined" /\ pc'[q] = "answered")
  BY RequestTouches
<1>2. CASE ~(Deciding(q) \/ pc[q] \in {"admit", "execute", "cancel"})
  BY <1>1, <1>2 DEF CleanAt, Deciding, Missing
<1>3. CASE Deciding(q) \/ pc[q] \in {"admit", "execute", "cancel"}
  <2>1. CleanAt(q) /\ pc'[q] = pc[q] /\ (Deciding(q)' <=> Deciding(q)) /\ c \in Cmds
    BY <1>1, <1>3 DEF Clean, CleanAt, Deciding, Missing, TypeOK, Kinds, RequestKinds
  <2>2. CASE c # subject[r]
    <3>1. live'[c] = live[c] /\ work'[c] = work[c]
      BY <2>1, <2>2, RequestTouches
    <3>2. Remembered(c)' => Remembered(c)
      <4>1. EntriesFrom(subject[r], Acks)
        BY RequestEntries
      <4>. QED
        BY <1>1, <2>2, <4>1 DEF EntriesFrom, Remembered, Knows
    <3>3. c \in InFlight' => c \in InFlight
      BY <2>2, RequestFlights
    <3>. QED
      BY <1>1, <2>1, <3>1, <3>2, <3>3 DEF CleanAt
  <2>3. CASE c = subject[r]
    <3>1. CASE Deciding(q)
      <4>1. pc[q] \in OnKey /\ HoldsKey(q) /\ c \notin InFlight
        BY <2>1, <3>1 DEF Gates, Deciding, Missing, OnKey, CleanAt
      <4>2. pc[r] \notin OnKey /\ ~HoldsKey(r)
        BY <2>3, <4>1, Exclusion, OneHolder
      <4>3. pc[r] \notin Executing
        BY <2>3, <4>1 DEF InFlight
      <4>4. Return(r)
        BY <4>2, <4>3 DEF Request, JoinFlight, FindNow, AwaitIndex, AtLookup, Found, Missed, Prepare,
             Reject, Accept, Admit, Execute, ExecuteFails, Settle, SettleFailed, SettlePlain,
             OnKey, Executing
      <4>5. UNCHANGED <<live, work, settled>> /\ pc[r] = "answered"
        BY <4>4 DEF Return, memoryVars, runtimeVars
      <4>6. c \in InFlight' => c \in InFlight
        BY <4>5, RequestFlights
      <4>. QED
        BY <1>1, <2>1, <4>5, <4>6 DEF CleanAt, Remembered
    <3>2. CASE pc[q] \in {"admit", "execute", "cancel"}
      <4>1. pc[q] \in OnSession /\ c \in InFlight
        BY <3>2 DEF OnSession, Executing, InFlight
      <4>2. pc[r] \notin OnSession
        BY <4>1, Exclusion
      <4>3. UNCHANGED <<live, work, settled>>
        BY <2>3, <4>1, <4>2 DEF Request, JoinFlight, FindNow, AwaitIndex, AtLookup, Found, Missed,
             Prepare, Reject, Accept, Admit, Execute, ExecuteFails, Settle, SettleFailed, SettlePlain,
             Return, OnSession, Executing, memoryVars, runtimeVars
      <4>4. ~Deciding(q)
        BY <3>2 DEF Deciding, Missing
      <4>. QED
        BY <1>1, <2>1, <3>2, <4>3, <4>4 DEF CleanAt, Remembered
    <3>. QED
      BY <1>3, <3>1, <3>2
  <2>. QED
    BY <2>2, <2>3
<1>. QED
  BY <1>2, <1>3

\* Its own steps: to a decision only from a lookup that missed.
LEMMA CleanOwn ==
  ASSUME TypeOK, Kinds, Gates, Flights, Clean, Pins, NEW r \in Requests, Request(r)
  PROVE  CleanAt(r)'
<1>. DEFINE c == subject[r]
<1>0. CleanAt(r)
  BY DEF Clean, CleanAt
<1>1. CASE JoinFlight(r) \/ Found(r) \/ Reject(r) \/ Return(r)
  <2>1. pc'[r] \in {"joined", "answered", "idle"}
    BY <1>1 DEF TypeOK, JoinFlight, Found, Reject, Reply, Return
  <2>. QED
    BY <2>1 DEF CleanAt, Deciding, Missing
<1>2. CASE FindNow(r)
  <2>0. /\ c \in Cmds /\ c \notin InFlight /\ subject'[r] = c /\ pc'[r] = "looked"
        /\ UNCHANGED <<live, work>> /\ pc[r] \in {"key", "gate"}
    BY <1>2 DEF TypeOK, Kinds, RequestKinds, FindNow, AtLookup, runtimeVars
  <2>1. CASE found'[r] # "miss"
    BY <2>0, <2>1 DEF CleanAt, Deciding, Missing
  <2>2. CASE found'[r] = "miss"
    <3>1. "miss" \notin Acks
      BY DEF Acks
    <3>2. /\ live[c] # None => live[c] \in Acks
          /\ Remembered(c) => SettledAck(c) \in Acks
      BY <2>0, SettledType DEF TypeOK
    <3>3. live[c] = None /\ ~Remembered(c) /\ UNCHANGED settled
      BY <1>2, <2>2, <3>1, <3>2 DEF FindNow, TypeOK
    <3>4. c \notin InFlight'
      BY <2>0, RequestFlights
    <3>5. work[c] = "none"
      BY <2>0, <3>3 DEF Pins
    <3>. QED
      BY <2>0, <3>3, <3>4, <3>5 DEF CleanAt, Remembered
  <2>. QED
    BY <2>1, <2>2
<1>3. CASE AwaitIndex(r)
  <2>0. /\ c \in Cmds /\ c \notin InFlight /\ subject'[r] = c /\ pc'[r] = "load"
        /\ UNCHANGED <<live, work, settled>> /\ pc[r] \in {"key", "gate"}
        /\ live[c] = None /\ ~Remembered(c)
    BY <1>3 DEF TypeOK, Kinds, RequestKinds, AwaitIndex, AtLookup, runtimeVars, memoryVars
  <2>1. c \notin InFlight'
    BY <2>0, RequestFlights
  <2>2. work[c] = "none"
    BY <2>0 DEF Pins
  <2>. QED
    BY <2>0, <2>1, <2>2 DEF CleanAt, Remembered
<1>4. CASE Missed(r) \/ Prepare(r)
  <2>1. /\ Deciding(r) /\ subject'[r] = c /\ UNCHANGED <<live, work, settled>>
        /\ pc'[r] \in {"prepare", "cold", "decide", "gate"} /\ pc[r] # "decide"
    BY <1>4 DEF TypeOK, Missed, Prepare, Deciding, Missing, memoryVars, runtimeVars
  <2>2. c \notin InFlight'
    BY <1>0, <2>1, RequestFlights DEF CleanAt
  <2>. QED
    BY <1>0, <2>1, <2>2 DEF CleanAt, Remembered
<1>5. CASE Accept(r)
  <2>1. /\ Deciding(r) /\ subject'[r] = c /\ UNCHANGED <<live, work, settled>>
        /\ pc'[r] = IF c \in Durable THEN "admit" ELSE "execute"
    BY <1>5 DEF TypeOK, Accept, Deciding, Missing, memoryVars, runtimeVars
  <2>. QED
    BY <1>0, <2>1 DEF CleanAt, Remembered, Deciding, Missing
<1>6. CASE Admit(r)
  <2>1. /\ pc[r] = "admit" /\ subject'[r] = c /\ pc'[r] = "execute" /\ work' = work
        /\ (c \in Durable => live'[c] = "accepted")
    BY <1>6 DEF TypeOK, Admit, runtimeVars, Durable, Cmds
  <2>2. "accepted" # None
    BY NoneIsNoValue DEF Answers, Acks
  <2>. QED
    BY <1>0, <2>1, <2>2 DEF CleanAt, Deciding, Missing
<1>7. CASE Execute(r)
  BY <1>7 DEF TypeOK, Execute, CleanAt, Deciding, Missing
<1>8. CASE ExecuteFails(r)
  <2>1. pc[r] = "execute" /\ subject'[r] = c /\ pc'[r] = "cancel" /\ UNCHANGED <<live, work>>
    BY <1>8 DEF TypeOK, ExecuteFails, memoryVars, runtimeVars
  <2>. QED
    BY <1>0, <2>1 DEF CleanAt, Deciding, Missing
<1>9. CASE Settle(r) \/ SettleFailed(r) \/ SettlePlain(r)
  <2>1. pc'[r] = "answered"
    BY <1>9, Settles DEF Deliver, Reply
  <2>. QED
    BY <2>1 DEF CleanAt, Deciding, Missing
<1>. QED
  BY <1>1, <1>2, <1>3, <1>4, <1>5, <1>6, <1>7, <1>8, <1>9 DEF Request

LEMMA PinsOwn ==
  ASSUME TypeOK, Kinds, Clean, Pins, NEW r \in Requests, Request(r)
  PROVE  Pins'
<1>. SUFFICES ASSUME NEW c \in Cmds, work'[c] # "none" PROVE live'[c] # None
  BY DEF Pins
<1>0. "accepted" # None
  BY NoneIsNoValue DEF Answers, Acks
<1>1. CASE c # subject[r]
  BY <1>1, RequestTouches DEF Pins
<1>2. CASE c = subject[r]
  <2>1. CASE Admit(r)
    BY <1>0, <1>2, <2>1 DEF Admit, TypeOK
  <2>2. CASE Execute(r)
    <3>1. live' = live /\ pc[r] = "execute" /\ (work' = work \/ c \in Durable)
      BY <1>2, <2>2 DEF Execute, memoryVars, runtimeVars
    <3>. QED
      BY <1>2, <3>1 DEF Clean, Pins
  <2>3. CASE Settle(r)
    <3>1. work' = work /\ (live[c] # None => live'[c] = "accepted")
      BY <1>2, <2>3 DEF Settle, TypeOK, runtimeVars
    <3>. QED
      BY <1>0, <3>1 DEF Pins
  <2>4. CASE SettleFailed(r)
    <3>1. work' = work /\ pc[r] \in {"admit", "cancel"}
      BY <2>4 DEF SettleFailed, runtimeVars
    <3>. QED
      BY <1>2, <3>1 DEF Clean
  <2>5. CASE SettlePlain(r)
    <3>1. work' = work /\ c \in Plain
      BY <1>2, <2>5 DEF SettlePlain, runtimeVars
    <3>. QED
      BY <3>1, KindsAreDisjoint DEF Kinds, CommandKinds
  <2>6. CASE \/ JoinFlight(r) \/ FindNow(r) \/ AwaitIndex(r) \/ Found(r) \/ Missed(r) \/ Prepare(r)
             \/ Reject(r) \/ Accept(r) \/ ExecuteFails(r) \/ Return(r)
    <3>1. UNCHANGED <<live, work>>
      BY <2>6 DEF JoinFlight, FindNow, AwaitIndex, Found, Missed, Prepare, Reject, Accept, ExecuteFails,
                  Return, memoryVars, runtimeVars
    <3>. QED
      BY <3>1 DEF Pins
  <2>. QED
    BY <2>1, <2>2, <2>3, <2>4, <2>5, <2>6 DEF Request
<1>. QED
  BY <1>1, <1>2

\* What the runtime does to a command leaves all others as they are, and it does
\* nothing to a command without work.
LEMMA RuntimeTouches ==
  ASSUME TypeOK, NEW c \in Durable, Runtime(c) \/ Remove(c)
  PROVE  /\ c \in Cmds /\ work[c] # "none"
         /\ \A d \in Cmds \ {c} : row'[d] = row[d] /\ live'[d] = live[d] /\ work'[d] = work[d]
         /\ \A d \in Cmds \ {c} : d \in timeline' <=> d \in timeline
         /\ work'[c] = "none" \/ live'[c] = live[c]
<1>1. c \in Cmds
  BY DEF Durable, Cmds
<1>2. work[c] # "none"
  BY DEF Runtime, Remove, Drain, Promote, Blocked, Announce, CompactOver, RecordFact, RecordFails, Progress
<1>3. \A d \in Cmds \ {c} : row'[d] = row[d] /\ live'[d] = live[d] /\ work'[d] = work[d]
  BY DEF TypeOK, Runtime, Remove, Drain, Promote, Blocked, Announce, Release, CompactOver, RecordFact,
         RecordFails, Progress, memoryVars, ledgerVars
<1>4. \A d \in Cmds \ {c} : d \in timeline' <=> d \in timeline
  BY DEF Runtime, Remove, Drain, Promote, Blocked, Announce, CompactOver, RecordFact, RecordFails, ledgerVars
<1>5. work'[c] = "none" \/ live'[c] = live[c]
  BY <1>1 DEF TypeOK, Runtime, Remove, Drain, Promote, Blocked, Announce, CompactOver, RecordFact,
         RecordFails, Progress, memoryVars
<1>. QED
  BY <1>1, <1>2, <1>3, <1>4, <1>5

LEMMA StepClean ==
  ASSUME TypeOK, Kinds, Gates, Flights, Clean, Pins, [Next]_vars
  PROVE  Clean' /\ Pins'
<1>0. (\A r \in Requests : CleanAt(r)') => Clean'
  BY DEF Clean, CleanAt
<1>a. \A r \in Requests : CleanAt(r)
  BY DEF Clean, CleanAt
<1>1. ASSUME NEW r \in Requests, NEW c \in Cmds, NEW query \in BOOLEAN, Arrive(r, c, query)
      PROVE  Clean' /\ Pins'
  <2>1. UNCHANGED <<live, work, settled>> /\ InFlight' = InFlight /\ pc'[r] = "key"
    BY <1>1, ArriveGates DEF TypeOK, Arrive, memoryVars, runtimeVars
  <2>2. \A q \in Requests \ {r} : pc'[q] = pc[q] /\ subject'[q] = subject[q] /\ found'[q] = found[q]
    BY <1>1 DEF TypeOK, Arrive
  <2>3. \A q \in Requests \ {r} : CleanAt(q)'
    BY <1>a, <2>1, <2>2 DEF CleanAt, Deciding, Missing, Remembered
  <2>4. CleanAt(r)'
    BY <2>1 DEF CleanAt, Deciding, Missing
  <2>. QED
    BY <1>0, <2>1, <2>3, <2>4 DEF Pins
<1>2. ASSUME NEW r \in Requests, Request(r) PROVE Clean' /\ Pins'
  BY <1>0, <1>2, CleanOthers, CleanOwn, PinsOwn
<1>3. ASSUME NEW o \in Requests, Loading(o) PROVE Clean' /\ Pins'
  <2>1. UNCHANGED <<subject, live, work, settled>> /\ InFlight' = InFlight
    BY <1>3, LoadingGoesOn DEF memoryVars, runtimeVars
  <2>2. \A q \in Requests : \/ pc'[q] = pc[q] /\ found'[q] = found[q]
                            \/ pc[q] = "load" /\ pc'[q] = "looked"
    BY <1>3, LoadingGoesOn
  <2>3. \A q \in Requests : CleanAt(q)'
    BY <1>a, <2>1, <2>2 DEF CleanAt, Deciding, Missing, Remembered
  <2>. QED
    BY <1>0, <2>1, <2>3 DEF Pins
<1>4. ASSUME NEW c \in Durable, Runtime(c) \/ Remove(c) PROVE Clean' /\ Pins'
  <2>1. UNCHANGED <<pc, subject, found>> /\ InFlight' = InFlight
    BY <1>4, RuntimeFrame DEF requestVars, InFlight
  <2>2. /\ work[c] # "none"
        /\ \A d \in Cmds \ {c} : live'[d] = live[d] /\ work'[d] = work[d]
        /\ work'[c] = "none" \/ live'[c] = live[c]
    BY <1>4, RuntimeTouches
  <2>3. \A d \in Cmds \ {c} : Remembered(d)' => Remembered(d)
    <3>1. EntriesFrom(c, {"accepted"})
      BY <1>4, RuntimeEntries
    <3>. QED
      BY <3>1 DEF EntriesFrom, Remembered, Knows
  <2>4. ASSUME NEW q \in Requests PROVE CleanAt(q)'
    <3>1. CASE Deciding(q) \/ pc[q] \in {"admit", "execute", "cancel"}
      <4>1. subject[q] \in Cmds
        BY <3>1 DEF TypeOK, Kinds, RequestKinds, Deciding, Missing
      <4>2. CleanAt(q) /\ subject[q] # c
        BY <1>a, <2>2, <3>1 DEF CleanAt
      <4>3. /\ live'[subject[q]] = live[subject[q]] /\ work'[subject[q]] = work[subject[q]]
            /\ Remembered(subject[q])' => Remembered(subject[q])
        BY <2>1, <2>2, <2>3, <4>1, <4>2
      <4>. QED
        BY <2>1, <4>2, <4>3 DEF CleanAt, Deciding, Missing
    <3>2. CASE ~(Deciding(q) \/ pc[q] \in {"admit", "execute", "cancel"})
      BY <2>1, <3>2 DEF CleanAt, Deciding, Missing
    <3>. QED
      BY <3>1, <3>2
  <2>. QED
    BY <1>0, <2>2, <2>4 DEF Pins
<1>5. CASE BeginAnyResume \/ Register \/ UNCHANGED vars
  <2>1. UNCHANGED <<pc, subject, found, live, settled, work>> /\ InFlight' = InFlight
    BY <1>5 DEF BeginAnyResume, BeginResume, Register, vars, requestVars, memoryVars, runtimeVars, InFlight
  <2>2. \A q \in Requests : CleanAt(q)'
    BY <1>a, <2>1 DEF CleanAt, Deciding, Missing, Remembered
  <2>. QED
    BY <1>0, <2>1, <2>2 DEF Pins
<1>6. CASE FinishResume \/ ResumeFails
  <2>1. UNCHANGED <<subject, found, live, settled, work>>
    BY <1>6 DEF FinishResume, ResumeFails, memoryVars, runtimeVars
  <2>2. \A q \in Requests : pc'[q] = pc[q] \/ (pc[q] = "cold" /\ pc'[q] \in {"decide", "answered"})
    BY <1>6 DEF FinishResume, ResumeFails, Reply
  <2>3. InFlight' = InFlight
    BY <2>1, <2>2 DEF InFlight, Executing
  <2>4. \A q \in Requests : CleanAt(q)'
    BY <1>a, <2>1, <2>2, <2>3 DEF CleanAt, Deciding, Missing, Remembered
  <2>. QED
    BY <1>0, <2>1, <2>4 DEF Pins
<1>7. CASE Deactivate
  <2>1. UNCHANGED <<live, work>> /\ \A q \in Requests : pc'[q] = "idle"
    BY <1>7 DEF Deactivate, requestVars, runtimeVars
  <2>. QED
    BY <2>1 DEF Clean, Deciding, Missing, Pins
<1>8. CASE Crash
  BY <1>8 DEF Crash, Clean, Deciding, Missing, Pins
<1>. QED
  BY <1>1, <1>2, <1>3, <1>4, <1>5, <1>6, <1>7, <1>8 DEF Next, Resume

-----------------------------------------------------------------------------
(* "failed" is told only of what had no effect.                             *)

LEMMA InitTold == Init => Told
BY FactsAreNoNames DEF Init, Told, ToldAt, KnownFresh, Missing, Refused, SettledTells, IndexTells

\* What a request does to the effects of a command.
LEMMA RequestUndone ==
  ASSUME TypeOK, Kinds, NEW r \in Requests, Request(r), NEW c \in Cmds, Undone(c)
  PROVE  /\ Undone(c)' \/ (Execute(r) /\ c = subject[r])
         /\ live'[c] # None => live[c] # None \/ (Admit(r) /\ c = subject[r])
         /\ row'[c] # "promoted" /\ timeline' = timeline
<1>1. CASE c # subject[r]
  BY <1>1, RequestTouches DEF Undone
<1>2. CASE c = subject[r]
  <2>1. timeline' = timeline
    BY RequestTouches
  <2>2. CASE Execute(r)
    <3>1. UNCHANGED <<live, row>>
      BY <2>2 DEF Execute, memoryVars, ledgerVars
    <3>. QED
      BY <1>2, <2>1, <2>2, <3>1 DEF Undone
  <2>3. CASE Admit(r)
    BY <1>2, <2>1, <2>3 DEF TypeOK, Admit, Undone, runtimeVars
  <2>4. CASE Settle(r) \/ SettleFailed(r) \/ SettlePlain(r)
    BY <1>2, <2>1, <2>4 DEF TypeOK, Settle, SettleFailed, SettlePlain, SettleWith, Undone, ledgerVars,
                            runtimeVars
  <2>5. CASE \/ JoinFlight(r) \/ FindNow(r) \/ AwaitIndex(r) \/ Found(r) \/ Missed(r) \/ Prepare(r)
             \/ Reject(r) \/ Accept(r) \/ ExecuteFails(r) \/ Return(r)
    <3>1. UNCHANGED <<live, work, row>>
      BY <2>5 DEF JoinFlight, FindNow, AwaitIndex, Found, Missed, Prepare, Reject, Accept, ExecuteFails,
                  Return, memoryVars, ledgerVars, runtimeVars
    <3>. QED
      BY <2>1, <3>1 DEF Undone
  <2>. QED
    BY <2>2, <2>3, <2>4, <2>5 DEF Request
<1>. QED
  BY <1>1, <1>2

LEMMA ToldOthers ==
  ASSUME TypeOK, Kinds, Gates, Flights, Clean, Told, NEW r \in Requests, Request(r),
         NEW q \in Requests \ {r}
  PROVE  ToldAt(q)'
<1>. DEFINE c == subject[q]
<1>1. /\ subject'[q] = c /\ found'[q] = found[q]
      /\ pc'[q] = pc[q] \/ (pc[q] = "joined" /\ pc'[q] = "answered")
  BY RequestTouches
<1>2. CASE ~(KnownFresh(q) \/ Refused(q))
  BY <1>1, <1>2 DEF ToldAt, KnownFresh, Refused, Missing
<1>3. CASE KnownFresh(q) \/ Refused(q)
  <2>1. /\ ToldAt(q) /\ pc'[q] = pc[q] /\ (KnownFresh(q)' <=> KnownFresh(q))
        /\ (Refused(q)' <=> Refused(q)) /\ c \in Cmds /\ Undone(c)
    BY <1>1, <1>3 DEF Told, ToldAt, KnownFresh, Refused, Missing, TypeOK, Kinds, RequestKinds
  <2>2. c = subject[r] => pc[r] \notin Executing
    <3>1. CASE c \notin InFlight
      BY <3>1 DEF InFlight
    <3>2. CASE c \in InFlight
      <4>1. pc[q] \in OnSession
        BY <1>3, <2>1, <3>2 DEF ToldAt, Clean, KnownFresh, Deciding, Missing, OnSession, Executing
      <4>. QED
        BY <4>1, Exclusion DEF OnSession
    <3>. QED
      BY <3>1, <3>2
  <2>3. ~(Execute(r) /\ c = subject[r]) /\ ~(Admit(r) /\ c = subject[r])
    BY <2>2 DEF Execute, Admit, Executing
  <2>4. Undone(c)' /\ (live'[c] # None => live[c] # None)
    BY <1>1, <2>1, <2>3, RequestUndone
  <2>5. Refused(q) => c \notin InFlight'
    <3>. SUFFICES ASSUME Refused(q), c \in InFlight' PROVE FALSE
      OBVIOUS
    <3>1. pc[r] = "decide" /\ c = subject[r]
      BY <2>1, RequestFlights DEF ToldAt
    <3>2. pc[r] \in OnKey /\ pc[q] \in OnKey
      BY <3>1 DEF Refused, OnKey
    <3>. QED
      BY <3>1, <3>2, Exclusion
  <2>. QED
    BY <1>1, <2>1, <2>4, <2>5 DEF ToldAt, Undone
<1>. QED
  BY <1>2, <1>3

\* What a lookup finds in the loaded index.
LEMMA IndexLookup ==
  ASSUME TypeOK, Pins, IndexTells, index \in Facts, NEW c \in Cmds, live[c] = None,
         FactIn(index, c) # "accepted"
  PROVE  Undone(c)
<1>1. c \notin index.transcript /\ c \notin index.timeline
  BY DEF FactIn
<1>. QED
  BY <1>1 DEF IndexTells, Undone, Pins

LEMMA ToldOwn ==
  ASSUME TypeOK, Kinds, Gates, Flights, Clean, Pins, Told, NEW r \in Requests, Request(r)
  PROVE  ToldAt(r)'
<1>. DEFINE c == subject[r]
<1>0. ToldAt(r) /\ SettledTells /\ IndexTells
  BY DEF Told
<1>1. CASE JoinFlight(r) \/ AwaitIndex(r) \/ Found(r) \/ Reject(r) \/ Return(r) \/ Execute(r)
  <2>1. pc'[r] \in {"joined", "load", "answered", "idle", "settle"}
    BY <1>1 DEF TypeOK, JoinFlight, AwaitIndex, Found, Reject, Reply, Return, Execute
  <2>. QED
    BY <2>1 DEF ToldAt, KnownFresh, Refused, Missing
<1>2. CASE FindNow(r)
  <2>0. /\ c \in Cmds /\ c \notin InFlight /\ subject'[r] = c /\ pc'[r] = "looked"
        /\ UNCHANGED <<live, work, row, timeline>> /\ pc[r] \in {"key", "gate"}
    BY <1>2 DEF TypeOK, Kinds, RequestKinds, FindNow, AtLookup, runtimeVars, ledgerVars
  <2>1. c \notin InFlight'
    BY <2>0, RequestFlights
  <2>2. found'[r] \in {"miss", "failed"} => Undone(c) /\ live[c] = None
    <3>1. CASE live[c] # None /\ found' = [found EXCEPT ![r] = live[c]]
      <4>1. found'[r] = "accepted"
        BY <2>0, <3>1 DEF TypeOK, Kinds, CommandKinds
      <4>. QED
        BY <4>1
    <3>2. CASE live[c] = None /\ Remembered(c) /\ found' = [found EXCEPT ![r] = SettledAck(c)]
      <4>1. /\ Place(settled, c) \in DOMAIN settled
            /\ settled[Place(settled, c)].cmd = c /\ SettledAck(c) \in Acks
        BY <3>2, SettledType
      <4>2. SettledAck(c) = "failed" => Undone(c)
        BY <1>0, <2>0, <4>1 DEF SettledTells, SettledAck
      <4>3. found'[r] = SettledAck(c) /\ SettledAck(c) # "miss"
        BY <3>2, <4>1 DEF TypeOK, Acks
      <4>. QED
        BY <3>2, <4>2, <4>3
    <3>3. CASE live[c] = None /\ index \in Facts /\ found' = [found EXCEPT ![r] = FactIn(index, c)]
      <4>1. found'[r] = FactIn(index, c)
        BY <3>3 DEF TypeOK
      <4>. QED
        BY <1>0, <2>0, <3>3, <4>1, IndexLookup
    <3>. QED
      BY <1>2, <3>1, <3>2, <3>3 DEF FindNow
  <2>. QED
    BY <2>0, <2>1, <2>2 DEF ToldAt, KnownFresh, Refused, Missing, Undone
<1>3. CASE Missed(r) \/ Prepare(r) \/ Accept(r) \/ ExecuteFails(r)
  <2>1. /\ KnownFresh(r) /\ subject'[r] = c /\ UNCHANGED <<work, row, timeline>> /\ pc'[r] # "looked"
    BY <1>3 DEF TypeOK, Missed, Prepare, Accept, ExecuteFails, KnownFresh, Missing, ledgerVars, runtimeVars
  <2>. QED
    BY <1>0, <2>1 DEF ToldAt, Undone, Refused
<1>4. CASE Admit(r)
  <2>1. KnownFresh(r) /\ subject'[r] = c /\ UNCHANGED <<work, timeline>> /\ pc'[r] # "looked"
        /\ (row[c] # "promoted" => row'[c] # "promoted")
    BY <1>4 DEF TypeOK, Admit, KnownFresh, Missing, runtimeVars
  <2>. QED
    BY <1>0, <2>1 DEF ToldAt, Undone, Refused
<1>5. CASE Settle(r) \/ SettleFailed(r) \/ SettlePlain(r)
  <2>1. pc'[r] = "answered"
    BY <1>5, Settles DEF Deliver, Reply
  <2>. QED
    BY <2>1 DEF ToldAt, KnownFresh, Refused, Missing
<1>. QED
  BY <1>1, <1>2, <1>3, <1>4, <1>5 DEF Request

\* A plain command has no durable effects.
LEMMA PlainUndone ==
  ASSUME TypeOK, Kinds, NEW c \in Plain
  PROVE  Undone(c) /\ c \in Cmds /\ c \notin Durable
<1>1. c \in Cmds /\ c \notin Durable
  BY KindsAreDisjoint DEF Cmds
<1>. QED
  BY <1>1 DEF TypeOK, Kinds, CommandKinds, Undone, Durable

\* The settled table remembers a failure only of what failed.
LEMMA SettledTellsStep ==
  ASSUME TypeOK, Kinds, Gates, Flights, Clean, Pins, Told, NEW r \in Requests, Request(r)
  PROVE  SettledTells'
<1>. DEFINE c == subject[r]
<1>1. ASSUME NEW i \in DOMAIN settled, settled[i].ack = "failed", NEW d, d = settled[i].cmd
      PROVE  /\ d \in Cmds
             /\ Undone(d)'
             /\ live'[d] # None => Admit(r) /\ d = c
  <2>1. d \in Cmds
    <3>1. settled \in Seq(Entries)
      BY DEF TypeOK, Entries
    <3>2. settled[i] \in Entries
      BY <3>1
    <3>. QED
      BY <1>1, <3>2 DEF Entries
  <2>2. Undone(d) /\ live[d] = None
    BY <1>1, <2>1 DEF Told, SettledTells
  <2>3. ASSUME Execute(r), d = c PROVE Undone(d)'
    <3>1. c \notin Durable /\ c \in Plain
      BY <2>1, <2>2, <2>3 DEF Execute, Clean, Cmds, Durable
    <3>2. UNCHANGED <<work, row, timeline>>
      BY <2>3, <3>1 DEF Execute, runtimeVars, ledgerVars
    <3>. QED
      BY <2>2, <3>2 DEF Undone
  <2>. QED
    BY <2>1, <2>2, <2>3, RequestUndone
<1>2. ASSUME NEW i \in DOMAIN settled', settled'[i].ack = "failed", NEW d, d = settled'[i].cmd,
             \E j \in DOMAIN settled : settled'[i] = settled[j]
      PROVE  Undone(d)' /\ live'[d] = None
  <2>1. PICK j \in DOMAIN settled : settled'[i] = settled[j]
    BY <1>2
  <2>2. /\ settled[j].cmd = d /\ settled[j].ack = "failed"
        /\ d \in Cmds /\ Undone(d)' /\ (live'[d] # None => Admit(r) /\ d = c)
    BY <1>1, <1>2, <2>1
  <2>3. ~(Admit(r) /\ d = c)
    BY <2>2 DEF Admit, Clean, Remembered, Knows
  <2>. QED
    BY <2>2, <2>3
<1>3. ASSUME NEW ack \in Acks, NEW d \in Cmds, d = c, settled' = Remember(settled, d, ack),
             ack = "failed" => Undone(d)' /\ live'[d] = None
      PROVE  SettledTells'
  <2>1. EntriesFrom(d, {ack})
    BY <1>3, RememberEntries
  <2>. SUFFICES ASSUME NEW i \in DOMAIN settled', NEW e \in Cmds,
                       settled'[i].cmd = e, settled'[i].ack = "failed"
                PROVE  Undone(e)' /\ live'[e] = None
    BY DEF SettledTells
  <2>2. CASE \E j \in DOMAIN settled : settled'[i] = settled[j]
    BY <1>2, <2>2
  <2>3. CASE settled'[i].cmd = d /\ settled'[i].ack = ack
    BY <1>3, <2>3
  <2>. QED
    BY <2>1, <2>2, <2>3 DEF EntriesFrom
<1>4. ASSUME \A i \in DOMAIN settled' : \E j \in DOMAIN settled : settled'[i] = settled[j]
      PROVE  SettledTells'
  <2>. SUFFICES ASSUME NEW i \in DOMAIN settled', NEW e \in Cmds,
                       settled'[i].cmd = e, settled'[i].ack = "failed"
                PROVE  Undone(e)' /\ live'[e] = None
    BY DEF SettledTells
  <2>. QED
    BY <1>2, <1>4
<1>5. pc[r] # "idle" => c \in Cmds
  BY DEF TypeOK, Kinds, RequestKinds
<1>6. CASE FindNow(r)
  <2>1. CASE UNCHANGED settled
    BY <1>4, <2>1
  <2>2. CASE live[c] = None /\ Remembered(c) /\ settled' = Remember(settled, c, SettledAck(c))
    <3>1. /\ Place(settled, c) \in DOMAIN settled /\ c \in Cmds
          /\ settled[Place(settled, c)].cmd = c /\ SettledAck(c) \in Acks
      BY <2>2, SettledType
    <3>2. SettledAck(c) = "failed" => Undone(c)
      BY <3>1 DEF Told, SettledTells, SettledAck
    <3>3. UNCHANGED <<subject, live, work, row, timeline>>
      BY <1>6 DEF FindNow, runtimeVars, ledgerVars
    <3>4. SettledAck(c) = "failed" => Undone(c)' /\ live'[c] = None
      BY <2>2, <3>2, <3>3 DEF Undone
    <3>. QED
      BY <1>3, <2>2, <3>1, <3>3, <3>4
  <2>. QED
    BY <1>6, <2>1, <2>2 DEF FindNow
<1>7. CASE Admit(r)
  <2>1. settled \in Seq(Entries) /\ settled' = Without(settled, c)
    BY <1>7 DEF TypeOK, Admit, Entries
  <2>2. \A i \in DOMAIN settled' : \E j \in DOMAIN settled : settled'[i] = settled[j]
    BY <2>1, WithoutShrinks
  <2>. QED
    BY <1>4, <2>2
<1>8. CASE Settle(r)
  <2>1. UNCHANGED settled \/ settled' = Remember(settled, c, "accepted")
    BY <1>8 DEF Settle
  <2>2. c \in Cmds /\ "accepted" \in Acks
    BY <1>5, <1>8 DEF Settle, Acks
  <2>. QED
    BY <1>3, <1>4, <2>1, <2>2
<1>9. CASE SettleFailed(r) \/ SettlePlain(r)
  <2>1. PICK ack \in Acks : SettleWith(r, ack)
    BY <1>9 DEF SettleFailed, SettlePlain, Acks
  <2>2. c \in Cmds
    BY <1>5, <1>9 DEF SettleFailed, SettlePlain
  <2>3. Undone(c)
    <3>1. CASE SettleFailed(r)
      BY <3>1 DEF SettleFailed, Told, ToldAt, KnownFresh
    <3>2. CASE SettlePlain(r)
      BY <3>2, PlainUndone DEF SettlePlain
    <3>. QED
      BY <1>9, <3>1, <3>2
  <2>4. UNCHANGED <<subject, work, timeline>> /\ row'[c] # "promoted" /\ live'[c] = None
    <3>1. UNCHANGED <<subject, work, timeline>>
      BY <1>9 DEF SettleFailed, SettlePlain, ledgerVars, runtimeVars
    <3>2. row'[c] # "promoted"
      BY <1>9, <2>2, <2>3 DEF SettleFailed, SettlePlain, ledgerVars, Undone, TypeOK
    <3>3. live'[c] = None
      BY <2>1, <2>2 DEF SettleWith, TypeOK
    <3>. QED
      BY <3>1, <3>2, <3>3
  <2>5. Undone(c)'
    BY <2>3, <2>4 DEF Undone
  <2>6. settled' = Remember(settled, c, ack)
    BY <2>1 DEF SettleWith
  <2>. QED
    BY <1>3, <2>2, <2>4, <2>5, <2>6
<1>10. CASE \/ JoinFlight(r) \/ AwaitIndex(r) \/ Found(r) \/ Missed(r) \/ Prepare(r) \/ Reject(r)
            \/ Accept(r) \/ Execute(r) \/ ExecuteFails(r) \/ Return(r)
  <2>1. UNCHANGED settled
    BY <1>10 DEF JoinFlight, AwaitIndex, Found, Missed, Prepare, Reject, Accept, Execute, ExecuteFails,
                 Return, memoryVars
  <2>. QED
    BY <1>4, <2>1
<1>. QED
  BY <1>6, <1>7, <1>8, <1>9, <1>10 DEF Request

\* Facts just read from the store tell of every effect.
LEMMA FreshFacts ==
  ASSUME TypeOK, NEW c \in Cmds,
         NEW ledger, NEW marks, ledger[c] = "promoted" => c \in Inputs
  PROVE  LET facts == FactsOf(ledger, marks) IN
         /\ ledger[c] = "promoted" => c \in facts.transcript
         /\ c \in marks => c \in facts.timeline
         /\ FactIn(facts, c) # "accepted" => ledger[c] # "promoted" /\ c \notin marks
BY DEF FactsOf, FactIn

\* The index never lags behind what no pin covers.
LEMMA IndexTellsStep ==
  ASSUME TypeOK, Kinds, CommandKinds', Gates, Flights, Clean, Pins, Told, [Next]_vars
  PROVE  IndexTells'
<1>. SUFFICES ASSUME index' \in Facts, NEW c \in Cmds, live'[c] = None
              PROVE  /\ row'[c] = "promoted" => c \in index'.transcript
                     /\ c \in timeline' => c \in index'.timeline
  BY DEF IndexTells
<1>0. ASSUME index' = index, timeline' = timeline,
             row'[c] = "promoted" => row[c] = "promoted", live[c] = None \/ Undone(c)
      PROVE  /\ row'[c] = "promoted" => c \in index'.transcript
             /\ c \in timeline' => c \in index'.timeline
  BY <1>0 DEF Told, IndexTells, Undone
<1>1. ASSUME NEW r \in Requests, NEW d \in Cmds, NEW query \in BOOLEAN, Arrive(r, d, query)
      PROVE  /\ row'[c] = "promoted" => c \in index'.transcript
             /\ c \in timeline' => c \in index'.timeline
  BY <1>0, <1>1 DEF Arrive, memoryVars, ledgerVars, indexVars
<1>2. ASSUME NEW r \in Requests, Request(r)
      PROVE  /\ row'[c] = "promoted" => c \in index'.transcript
             /\ c \in timeline' => c \in index'.timeline
  <2>1. index' = index
    <3>1. index' = index \/ index' = r
      BY <1>2 DEF Request, JoinFlight, FindNow, AwaitIndex, Found, Missed, Prepare, Reject, Accept,
         Admit, Execute, ExecuteFails, Settle, SettleFailed, SettlePlain, Return, indexVars
    <3>. QED
      BY <3>1, FactsAreNoNames
  <2>2. timeline' = timeline
    BY <1>2, RequestTouches
  <2>3. row'[c] = "promoted" => row[c] = "promoted"
    BY <1>2 DEF Request, JoinFlight, FindNow, AwaitIndex, Found, Missed, Prepare, Reject, Accept,
         Admit, Execute, ExecuteFails, Settle, SettleFailed, SettlePlain, Return, ledgerVars, TypeOK
  <2>4. live[c] = None \/ Undone(c)
    <3>1. CASE c # subject[r]
      BY <1>2, <3>1, RequestTouches
    <3>2. CASE c = subject[r] /\ SettleFailed(r)
      BY <3>2 DEF SettleFailed, Told, ToldAt, KnownFresh
    <3>3. CASE c = subject[r] /\ SettlePlain(r)
      BY <3>3, PlainUndone DEF SettlePlain
    <3>4. CASE c = subject[r] /\ (Settle(r) \/ Admit(r))
      <4>1. "accepted" # None
        BY NoneIsNoValue DEF Answers, Acks
      <4>. QED
        BY <3>4, <4>1 DEF Settle, Admit, TypeOK
    <3>5. CASE \/ JoinFlight(r) \/ FindNow(r) \/ AwaitIndex(r) \/ Found(r) \/ Missed(r) \/ Prepare(r)
               \/ Reject(r) \/ Accept(r) \/ Execute(r) \/ ExecuteFails(r) \/ Return(r)
      BY <3>5 DEF JoinFlight, FindNow, AwaitIndex, Found, Missed, Prepare, Reject, Accept, Execute,
                  ExecuteFails, Return, memoryVars
    <3>. QED
      BY <1>2, <3>1, <3>2, <3>3, <3>4, <3>5 DEF Request
  <2>. QED
    BY <1>0, <2>1, <2>2, <2>3, <2>4
<1>3. ASSUME NEW o \in Requests, Loading(o)
      PROVE  /\ row'[c] = "promoted" => c \in index'.transcript
             /\ c \in timeline' => c \in index'.timeline
  <2>0. live' = live /\ timeline' = timeline
    BY <1>3, LoadingGoesOn DEF memoryVars
  <2>1. row'[c] = "promoted" => row[c] = "promoted"
    BY <1>3 DEF Loading, LoadDone, LoadFails, Swept, ledgerVars, TypeOK
  <2>2. CASE index' = index
    BY <1>0, <2>0, <2>1, <2>2
  <2>3. CASE index' # index
    <3>1. index' = FactsOf(row', timeline)
      BY <1>3, <2>3, FactsAreNoNames DEF Loading, LoadDone, LoadFails
    <3>2. row'[c] = "promoted" => c \in Inputs
      BY DEF CommandKinds
    <3>. QED
      BY <2>0, <3>1, <3>2, FreshFacts
  <2>. QED
    BY <2>2, <2>3
<1>4. ASSUME NEW d \in Durable, Runtime(d) \/ Remove(d)
      PROVE  /\ row'[c] = "promoted" => c \in index'.transcript
             /\ c \in timeline' => c \in index'.timeline
  <2>1. CASE Announce(d)
    BY <2>1, FactsAreNoNames DEF Announce, Invalidate
  <2>2. CASE RecordFact(d)
    <3>0. row' = row /\ live' = live /\ timeline' = timeline \cup {d}
      BY <2>2 DEF RecordFact, memoryVars
    <3>1. CASE index' = FactsOf(row, timeline')
      <4>1. row[c] = "promoted" => c \in Inputs
        BY DEF Kinds, CommandKinds
      <4>. QED
        BY <3>0, <3>1, <4>1, FreshFacts
    <3>2. CASE index \in Facts /\ index' = [index EXCEPT !.timeline = @ \cup {d}]
      <4>1. /\ index'.transcript = index.transcript
            /\ index'.timeline = index.timeline \cup {d}
        BY <3>2 DEF Facts
      <4>2. /\ row[c] = "promoted" => c \in index.transcript
            /\ c \in timeline => c \in index.timeline
        BY <3>0, <3>2 DEF Told, IndexTells
      <4>. QED
        BY <3>0, <4>1, <4>2
    <3>. QED
      BY <2>2, <3>1, <3>2, FactsAreNoNames DEF RecordFact, TypeOK
  <2>3. CASE Drain(d) \/ Blocked(d) \/ CompactOver(d) \/ RecordFails(d)
    BY <1>0, <2>3 DEF Drain, Blocked, CompactOver, RecordFails, memoryVars, ledgerVars, indexVars
  <2>4. CASE Promote(d) \/ Remove(d)
    <3>1. UNCHANGED <<index, timeline, live>> /\ work[d] # "none"
      BY <2>4 DEF Promote, Remove, Progress, memoryVars, indexVars
    <3>2. c # d
      BY <3>1 DEF Pins
    <3>3. row'[c] = row[c]
      BY <2>4, <3>2 DEF Promote, Remove, TypeOK
    <3>. QED
      BY <1>0, <3>1, <3>3
  <2>. QED
    BY <1>4, <2>1, <2>2, <2>3, <2>4 DEF Runtime
<1>5. CASE BeginAnyResume \/ Register \/ ResumeFails \/ Deactivate \/ UNCHANGED vars
  <2>1. UNCHANGED <<index, live, row, timeline>>
    BY <1>5 DEF BeginAnyResume, BeginResume, Register, ResumeFails, Deactivate, vars, memoryVars,
                indexVars, ledgerVars
  <2>. QED
    BY <1>0, <2>1
<1>6. CASE FinishResume
  <2>1. UNCHANGED <<index, live, timeline>> /\ (row'[c] = "promoted" => row[c] = "promoted")
    BY <1>6 DEF FinishResume, Swept, TypeOK, memoryVars, indexVars
  <2>. QED
    BY <1>0, <2>1
<1>7. CASE Crash
  BY <1>7, FactsAreNoNames DEF Crash
<1>. QED
  BY <1>1, <1>2, <1>3, <1>4, <1>5, <1>6, <1>7 DEF Next, Resume

LEMMA StepTold ==
  ASSUME TypeOK, Kinds, CommandKinds', Gates, Flights, Clean, Pins, Told, [Next]_vars
  PROVE  Told'
<1>0. IndexTells'
  BY IndexTellsStep
<1>a. (\A r \in Requests : ToldAt(r)) /\ SettledTells
  BY DEF Told
<1>1. ASSUME UNCHANGED <<subject, found, work, settled, live, timeline>>, InFlight' = InFlight,
             \A c \in Cmds : row[c] # "promoted" => row'[c] # "promoted",
             \A q \in Requests : \/ pc'[q] = pc[q]
                                 \/ pc[q] = "cold" /\ pc'[q] \in {"decide", "answered"}
      PROVE  (\A q \in Requests : ToldAt(q)') /\ SettledTells'
  <2>1. ASSUME NEW c \in Cmds, Undone(c) PROVE Undone(c)'
    BY <1>1, <2>1 DEF Undone
  <2>2. ASSUME NEW q \in Requests PROVE ToldAt(q)'
    <3>1. (KnownFresh(q)' => KnownFresh(q)) /\ (Refused(q)' => Refused(q))
      BY <1>1 DEF KnownFresh, Missing, Refused
    <3>2. KnownFresh(q) \/ Refused(q) => subject[q] \in Cmds
      BY DEF KnownFresh, Missing, Refused, TypeOK, Kinds, RequestKinds
    <3>. QED
      BY <1>1, <1>a, <2>1, <3>1, <3>2 DEF ToldAt, Undone
  <2>3. SettledTells'
    BY <1>1, <1>a, <2>1 DEF SettledTells
  <2>. QED
    BY <2>2, <2>3
<1>2. ASSUME NEW r \in Requests, NEW c \in Cmds, NEW query \in BOOLEAN, Arrive(r, c, query)
      PROVE  Told'
  <2>1. UNCHANGED <<live, work, settled, row, timeline>> /\ InFlight' = InFlight /\ pc'[r] = "key"
    BY <1>2, ArriveGates DEF TypeOK, Arrive, memoryVars, runtimeVars, ledgerVars
  <2>2. \A q \in Requests \ {r} : pc'[q] = pc[q] /\ subject'[q] = subject[q] /\ found'[q] = found[q]
    BY <1>2 DEF TypeOK, Arrive
  <2>3. \A q \in Requests \ {r} : ToldAt(q)'
    BY <1>a, <2>1, <2>2 DEF ToldAt, KnownFresh, Missing, Refused, Undone
  <2>4. ToldAt(r)'
    BY <2>1 DEF ToldAt, KnownFresh, Missing, Refused
  <2>5. SettledTells'
    BY <1>a, <2>1 DEF SettledTells, Undone
  <2>. QED
    BY <1>0, <2>3, <2>4, <2>5 DEF Told
<1>3. ASSUME NEW r \in Requests, Request(r) PROVE Told'
  BY <1>0, <1>3, ToldOthers, ToldOwn, SettledTellsStep DEF Told
<1>4. ASSUME NEW o \in Requests, Loading(o) PROVE Told'
  <2>0. /\ UNCHANGED <<subject, work, settled, live, timeline>> /\ InFlight' = InFlight
        /\ \A q \in Requests : \/ q \notin Waiters(o) /\ pc'[q] = pc[q] /\ found'[q] = found[q]
                               \/ q \in Waiters(o) /\ pc[q] = "load" /\ pc'[q] = "looked"
    BY <1>4, LoadingGoesOn DEF memoryVars, runtimeVars
  <2>1. \A c \in Cmds : row[c] # "promoted" => row'[c] # "promoted"
    BY <1>4 DEF Loading, LoadDone, LoadFails, Swept, ledgerVars, TypeOK
  <2>2. ASSUME NEW c \in Cmds, Undone(c) PROVE Undone(c)'
    BY <2>0, <2>1, <2>2 DEF Undone
  <2>3. SettledTells'
    BY <1>a, <2>0, <2>2 DEF SettledTells
  <2>4. ASSUME NEW q \in Requests PROVE ToldAt(q)'
    <3>1. CASE q \notin Waiters(o)
      <4>1. (KnownFresh(q)' <=> KnownFresh(q)) /\ (Refused(q)' <=> Refused(q))
        BY <2>0, <3>1 DEF KnownFresh, Missing, Refused
      <4>2. KnownFresh(q) \/ Refused(q) => subject[q] \in Cmds
        BY DEF KnownFresh, Missing, Refused, TypeOK, Kinds, RequestKinds
      <4>. QED
        BY <1>a, <2>0, <2>2, <4>1, <4>2 DEF ToldAt, Undone
    <3>2. CASE q \in Waiters(o)
      <4>1. /\ subject[q] \in Cmds /\ pc'[q] = "looked" /\ work[subject[q]] = "none"
            /\ live[subject[q]] = None /\ subject[q] \notin InFlight
        BY <2>0, <3>2 DEF TypeOK, Kinds, RequestKinds, Clean, Deciding
      <4>2. found'[q] = "error" \/ found'[q] = FactIn(FactsOf(row', timeline), subject[q])
        BY <1>4, <3>2 DEF Loading, LoadDone, LoadFails
      <4>3. found'[q] \in {"miss", "failed"} =>
              row'[subject[q]] # "promoted" /\ subject[q] \notin timeline
        <5>1. row'[subject[q]] = "promoted" => subject[q] \in Inputs
          BY <4>1 DEF CommandKinds
        <5>. QED
          BY <4>1, <4>2, <5>1, FreshFacts
      <4>. QED
        BY <2>0, <4>1, <4>3 DEF ToldAt, KnownFresh, Missing, Refused, Undone
    <3>. QED
      BY <3>1, <3>2
  <2>. QED
    BY <1>0, <2>3, <2>4 DEF Told
<1>5. ASSUME NEW c \in Durable, Runtime(c) \/ Remove(c) PROVE Told'
  <2>1. UNCHANGED <<pc, subject, found>> /\ InFlight' = InFlight
    BY <1>5, RuntimeFrame DEF requestVars, InFlight
  <2>2. /\ work[c] # "none" /\ c \in Cmds
        /\ \A d \in Cmds \ {c} : row'[d] = row[d] /\ live'[d] = live[d] /\ work'[d] = work[d]
        /\ \A d \in Cmds \ {c} : d \in timeline' <=> d \in timeline
    BY <1>5, RuntimeTouches
  <2>3. ASSUME NEW d \in Cmds, Undone(d)
        PROVE  Undone(d)' /\ live'[d] = live[d]
    BY <2>2, <2>3 DEF Undone
  <2>4. ASSUME NEW q \in Requests PROVE ToldAt(q)'
    <3>1. (KnownFresh(q)' <=> KnownFresh(q)) /\ (Refused(q)' <=> Refused(q))
      BY <2>1 DEF KnownFresh, Missing, Refused
    <3>2. KnownFresh(q) \/ Refused(q) => subject[q] \in Cmds
      BY DEF KnownFresh, Missing, Refused, TypeOK, Kinds, RequestKinds
    <3>. QED
      BY <1>a, <2>1, <2>3, <3>1, <3>2 DEF ToldAt, Undone
  <2>5. SettledTells'
    <3>. SUFFICES ASSUME NEW i \in DOMAIN settled', NEW e \in Cmds,
                         settled'[i].cmd = e, settled'[i].ack = "failed"
                  PROVE  Undone(e)' /\ live'[e] = None
      BY DEF SettledTells
    <3>1. EntriesFrom(c, {"accepted"})
      BY <1>5, RuntimeEntries
    <3>2. PICK j \in DOMAIN settled : settled'[i] = settled[j]
      BY <3>1 DEF EntriesFrom
    <3>3. Undone(e) /\ live[e] = None
      BY <1>a, <3>2 DEF SettledTells
    <3>. QED
      BY <2>3, <3>3
  <2>. QED
    BY <1>0, <2>4, <2>5 DEF Told
<1>6. CASE BeginAnyResume \/ Register \/ UNCHANGED vars
  <2>1. UNCHANGED <<pc, subject, found, live, settled, work, row, timeline>> /\ InFlight' = InFlight
    BY <1>6 DEF BeginAnyResume, BeginResume, Register, vars, requestVars, memoryVars, runtimeVars,
                ledgerVars, InFlight
  <2>. QED
    BY <1>0, <1>1, <2>1 DEF Told
<1>7. CASE FinishResume \/ ResumeFails
  <2>1. UNCHANGED <<subject, found, live, settled, work, timeline>>
    BY <1>7 DEF FinishResume, ResumeFails, memoryVars, runtimeVars, ledgerVars
  <2>2. \A q \in Requests : pc'[q] = pc[q] \/ (pc[q] = "cold" /\ pc'[q] \in {"decide", "answered"})
    BY <1>7 DEF FinishResume, ResumeFails, Reply
  <2>3. InFlight' = InFlight
    BY <2>1, <2>2 DEF InFlight, Executing
  <2>4. \A c \in Cmds : row[c] # "promoted" => row'[c] # "promoted"
    BY <1>7 DEF FinishResume, ResumeFails, Swept, ledgerVars, TypeOK
  <2>. QED
    BY <1>0, <1>1, <2>1, <2>2, <2>3, <2>4 DEF Told
<1>8. CASE Deactivate
  <2>1. \A q \in Requests : pc'[q] = "idle"
    BY <1>8 DEF Deactivate, requestVars
  <2>2. settled' = <<>>
    BY <1>8 DEF Deactivate
  <2>. QED
    BY <1>0, <2>1, <2>2 DEF Told, ToldAt, KnownFresh, Missing, Refused, SettledTells
<1>9. CASE Crash
  BY <1>0, <1>9 DEF Crash, Told, ToldAt, KnownFresh, Missing, Refused, SettledTells
<1>. QED
  BY <1>2, <1>3, <1>4, <1>5, <1>6, <1>7, <1>8, <1>9 DEF Next, Resume

-----------------------------------------------------------------------------
(* The invariant, and what follows from it.                                 *)

Inv == TypeOK /\ Kinds /\ Gates /\ Flights /\ Clean /\ Pins /\ Told

LEMMA InitInv == Init => Inv
BY InitType, InitKinds, InitGates, InitClean, InitTold DEF Inv

LEMMA StepInv == Inv /\ [Next]_vars => Inv'
<1>. SUFFICES ASSUME Inv, [Next]_vars PROVE Inv'
  OBVIOUS
<1>1. TypeOK /\ Kinds /\ Gates /\ Flights /\ Clean /\ Pins /\ Told
  BY DEF Inv
<1>2. TypeOK'
  BY <1>1, StepType
<1>3. RequestKinds' /\ CommandKinds'
  BY <1>1, RequestKindsStep, CommandKindsStep
<1>4. Gates' /\ Flights'
  BY <1>1, StepGates
<1>5. Clean' /\ Pins'
  BY <1>1, StepClean
<1>6. Told'
  BY <1>1, <1>3, StepTold
<1>. QED
  BY <1>2, <1>3, <1>4, <1>5, <1>6 DEF Inv, Kinds

\* The gates stay FIFO lines in which only the first has gone on, the joined
\* wait for a command in flight, whoever decides finds its command untouched,
\* work is pinned, and every memory of a failure is of a command without effect.
THEOREM Invariance == Spec => []Inv
BY InitInv, StepInv, PTL DEF Spec

\* Type correctness; that the settled table respects its limit is part of it.
THEOREM TypeCorrect == Spec => []TypeOK
<1>1. Inv => TypeOK
  BY DEF Inv
<1>. QED
  BY <1>1, Invariance, PTL

\* Between the decision to execute and its settle, a session admits one command,
\* however many calls race through admission and whatever fails in between.
THEOREM OneExecutes == Spec => []OneInFlight
<1>1. ASSUME Inv PROVE OneInFlight
  <2>. DEFINE E == {r \in Requests : pc[r] \in Executing}
  <2>1. \A r, q \in E : r = q
    BY <1>1, Exclusion DEF Inv, OnSession
  <2>2. Cardinality(E) <= 1
    <3>1. CASE E = {}
      BY <3>1, FS_EmptySet
    <3>2. CASE E # {}
      <4>1. PICK r \in E : E = {r}
        BY <2>1, <3>2
      <4>2. Cardinality({r}) = 1
        BY FS_Singleton
      <4>. HIDE DEF E
      <4>. QED
        BY <4>1, <4>2
    <3>. QED
      BY <3>1, <3>2
  <2>. QED
    BY <1>1, <2>2 DEF OneInFlight, Inv, Flights
<1>. QED
  BY <1>1, Invariance, PTL

\* Whatever the runtime works on is pinned in memory, so that neither eviction nor
\* deactivation loses it before the store tells what became of it.
THEOREM WorkStaysPinned == Spec => []WorkIsPinned
<1>1. ASSUME Inv PROVE WorkIsPinned
  BY <1>1 DEF Inv, Pins, WorkIsPinned, Pinned, Cmds, Durable
<1>. QED
  BY <1>1, Invariance, PTL

\* "unknown" is told after a lookup that missed, "failed" after one that found
\* a failure or by the settle of a command that fails.
LEMMA Answered ==
  ASSUME TypeOK, Kinds, [Next]_vars, NEW r \in Requests,
         answer[r] = None, answer'[r] \in {"failed", "unknown"}
  PROVE  \/ answer'[r] = "unknown" /\ Missing(r)
         \/ answer'[r] = "failed" /\ Refused(r)
         \/ /\ answer'[r] = "failed"
            /\ \E q \in Requests : (SettleFailed(q) \/ SettlePlain(q)) /\ subject[r] = subject[q]
<1>0. None \notin {"failed", "unknown"}
  BY NoneIsNoValue DEF Answers, Acks
<1>a. answer'[r] # answer[r]
  BY <1>0
<1>1. ASSUME NEW q \in Requests, Request(q)
      PROVE  \/ answer'[r] = "unknown" /\ Missing(r)
             \/ answer'[r] = "failed" /\ Refused(r)
             \/ /\ answer'[r] = "failed"
                /\ (SettleFailed(q) \/ SettlePlain(q)) /\ subject[r] = subject[q]
  <2>1. CASE Found(q)
    <3>1. /\ pc[q] = "looked"
          /\ answer'[r] = IF r = q
               THEN CASE found[q] = "error" -> "unavailable"
                      [] found[q] = "miss"  -> "unknown"
                      [] OTHER              -> RetryAck(q, found[q])
               ELSE answer[r]
      BY <2>1 DEF Found, Reply
    <3>2. r = q
      BY <1>a, <3>1
    <3>3. found[q] \in Acks \cup {"miss", "error"}
      BY <3>1 DEF Kinds, RequestKinds
    <3>. QED
      BY <3>1, <3>2, <3>3 DEF RetryAck, Missing, Refused, Acks
  <2>2. CASE Settle(q) \/ SettleFailed(q) \/ SettlePlain(q)
    <3>1. ASSUME NEW ack \in Acks, Deliver(q, ack)
          PROVE  ack = "failed" /\ answer'[r] = "failed" /\ subject[r] = subject[q]
      <4>1. answer'[r] = IF r = q \/ (pc[r] = "joined" /\ subject[r] = subject[q])
                           THEN IF r = q THEN ack ELSE RetryAck(r, ack) ELSE answer[r]
        BY <3>1 DEF Deliver, Reply
      <4>. QED
        BY <1>a, <3>1, <4>1 DEF RetryAck, Acks
    <3>2. ~Settle(q)
      BY <3>1 DEF Settle, Acks
    <3>. QED
      BY <2>2, <3>1, <3>2, Settles
  <2>3. CASE Reject(q)
    BY <1>a, <2>3 DEF Reject, Reply
  <2>4. CASE Return(q)
    BY <1>0, <1>a, <2>4 DEF Return, TypeOK
  <2>5. CASE \/ JoinFlight(q) \/ FindNow(q) \/ AwaitIndex(q) \/ Missed(q) \/ Prepare(q) \/ Accept(q)
             \/ Admit(q) \/ Execute(q) \/ ExecuteFails(q)
    BY <1>a, <2>5 DEF JoinFlight, FindNow, AwaitIndex, Missed, Prepare, Accept, Admit, Execute,
                      ExecuteFails
  <2>. QED
    BY <1>1, <2>1, <2>2, <2>3, <2>4, <2>5 DEF Request
<1>2. ASSUME NEW q \in Requests, NEW c \in Cmds, NEW query \in BOOLEAN, Arrive(q, c, query)
      PROVE  FALSE
  BY <1>a, <1>2 DEF Arrive
<1>3. ASSUME NEW o \in Requests, Loading(o) PROVE FALSE
  BY <1>a, <1>3, LoadingGoesOn
<1>4. ASSUME NEW c \in Durable, Runtime(c) \/ Remove(c) PROVE FALSE
  BY <1>a, <1>4, RuntimeFrame DEF requestVars
<1>5. ~ResumeFails
  BY <1>a DEF ResumeFails, Reply
<1>6. ~(BeginAnyResume \/ Register \/ FinishResume \/ Deactivate \/ UNCHANGED vars)
  BY <1>a DEF BeginAnyResume, BeginResume, Register, FinishResume, Deactivate, vars, requestVars
<1>7. ~Crash
  BY <1>0 DEF Crash
<1>. QED
  BY <1>1, <1>2, <1>3, <1>4, <1>5, <1>6, <1>7 DEF Next, Resume

\* A caller that is told "failed" may send the input again: it has not become a
\* message, no compact ran to its end, and the runtime is not working on it.
THEOREM FailureIsFinal == Spec => FailedMeansFailed
<1>1. ASSUME Inv, [Next]_vars, NEW r \in Requests, answer[r] = None, answer'[r] = "failed"
      PROVE  Undone(subject[r])
  <2>1. CASE Refused(r)
    BY <1>1, <2>1 DEF Inv, Told, ToldAt
  <2>2. ASSUME NEW q \in Requests, SettleFailed(q), subject[r] = subject[q]
        PROVE  Undone(subject[r])
    BY <1>1, <2>2 DEF Inv, Told, ToldAt, SettleFailed, KnownFresh
  <2>3. ASSUME NEW q \in Requests, SettlePlain(q), subject[r] = subject[q]
        PROVE  Undone(subject[r])
    BY <1>1, <2>3, PlainUndone DEF Inv, SettlePlain
  <2>. QED
    BY <1>1, <2>1, <2>2, <2>3, Answered DEF Inv
<1>2. Inv /\ [Next]_vars =>
        [\A r \in Requests :
           answer[r] = None /\ answer'[r] = "failed" =>
             LET c == subject[r] IN
             /\ row[c] # "promoted"
             /\ c \notin timeline
             /\ work[c] = "none"]_vars
  BY <1>1 DEF Undone
<1>. QED
  BY <1>2, Invariance, PTL DEF Spec, FailedMeansFailed

-----------------------------------------------------------------------------
(* With a store that answers and no resume outside the READY gate.          *)

Regular == ~StoreFails /\ ~SessionResume

\* The process works for a resident session that no resume is busy with.
Open == resident /\ resuming = "no"

LEMMA InitOrder == Init => Loads /\ Calm
BY NoneIsNoValue DEF Init, Loads, Calm, Executing

\* A load is the work of the request that started it, which can go on.
LEMMA LoaderRuns ==
  ASSUME Loads, NEW o \in Requests, Loading(o)
  PROVE  pc[o] = "load" /\ found[o] = o /\ sweeping[o] # None /\ Runnable(o)
BY DEF Loads, Loading, LoadDone, LoadFails, Runnable

LEMMA LoadsStep ==
  ASSUME TypeOK, Kinds, Loads, [Next]_vars
  PROVE  Loads'
<1>1. ASSUME NEW r \in Requests, NEW c \in Cmds, NEW query \in BOOLEAN, Arrive(r, c, query)
      PROVE  Loads'
  <2>1. /\ pc[r] = "idle" /\ UNCHANGED <<found, sweeping>>
        /\ \A q \in Requests \ {r} : pc'[q] = pc[q]
    BY <1>1 DEF Arrive, indexVars, TypeOK
  <2>. QED
    BY <2>1 DEF Loads
<1>2. ASSUME NEW r \in Requests, Request(r) PROVE Loads'
  <2>1. pc[r] # "load"
    BY <1>2 DEF Request, JoinFlight, FindNow, AwaitIndex, AtLookup, Found, Missed, Prepare, Reject,
                Accept, Admit, Execute, ExecuteFails, Settle, SettleFailed, SettlePlain, Return
  <2>2. \A q \in Requests \ {r} : found'[q] = found[q] /\ (pc[q] = "load" => pc'[q] = "load")
    BY <1>2, RequestTouches
  <2>3. CASE AwaitIndex(r)
    <3>1. /\ \A q \in Requests \ {r} : sweeping'[q] = sweeping[q]
          /\ pc'[r] = "load"
          /\ found'[r] = r \/ sweeping'[r] = sweeping[r]
      BY <2>3 DEF AwaitIndex, indexVars, TypeOK
    <3>. QED
      BY <2>1, <2>2, <3>1 DEF Loads
  <2>4. CASE ~AwaitIndex(r)
    <3>1. sweeping' = sweeping
      BY <1>2, <2>4 DEF Request, JoinFlight, FindNow, Found, Missed, Prepare, Reject, Accept, Admit,
                  Execute, ExecuteFails, Settle, SettleFailed, SettlePlain, Return, indexVars
    <3>. QED
      BY <2>1, <2>2, <3>1 DEF Loads
  <2>. QED
    BY <2>3, <2>4
<1>3. ASSUME NEW o \in Requests, Loading(o) PROVE Loads'
  <2>1. sweeping' = [sweeping EXCEPT ![o] = None]
    BY <1>3 DEF Loading, LoadDone, LoadFails
  <2>2. \A q \in Requests : \/ q \in Waiters(o)
                            \/ pc'[q] = pc[q] /\ found'[q] = found[q]
    BY <1>3, LoadingGoesOn
  <2>3. \A q \in Requests \ {o} : sweeping[q] # None => q \notin Waiters(o)
    BY DEF Loads, Waiters
  <2>. QED
    BY <2>1, <2>2, <2>3 DEF Loads, TypeOK
<1>4. ASSUME NEW c \in Durable, Runtime(c) \/ Remove(c) PROVE Loads'
  BY <1>4, RuntimeFrame DEF requestVars, Loads
<1>5. CASE BeginAnyResume \/ Register \/ Deactivate \/ UNCHANGED vars
  BY <1>5 DEF BeginAnyResume, BeginResume, Register, Deactivate, vars, requestVars, indexVars, Loads
<1>6. CASE FinishResume \/ ResumeFails
  <2>1. /\ UNCHANGED <<found, sweeping>>
        /\ \A q \in Requests : pc[q] = "load" => pc'[q] = "load"
    BY <1>6 DEF FinishResume, ResumeFails, Reply, indexVars
  <2>. QED
    BY <2>1 DEF Loads
<1>7. CASE Crash
  BY <1>7 DEF Crash, Loads
<1>. QED
  BY <1>1, <1>2, <1>3, <1>4, <1>5, <1>6, <1>7 DEF Next, Resume

\* Who works, works for an open session.
LEMMA OpenWork ==
  ASSUME Calm, Pins
  PROVE  /\ (\E r \in Requests : pc[r] \in Executing) => Open
         /\ (\E c \in Cmds : live[c] # None \/ work[c] # "none") => Open
         /\ resident /\ (\E r \in Requests : Runnable(r)) => Open
BY DEF Calm, Pins, Open

LEMMA CalmStep ==
  ASSUME Regular, TypeOK, Kinds, Pins, Loads, Calm, [Next]_vars
  PROVE  Calm'
<1>0. /\ resuming \in {"no", "ready"} /\ resident \in BOOLEAN
      /\ resuming # "no" => resuming = "ready"
  BY DEF TypeOK, Calm
<1>1. ASSUME NEW r \in Requests, NEW c \in Cmds, NEW query \in BOOLEAN, Arrive(r, c, query)
      PROVE  Calm'
  <2>1. /\ resuming = "no" /\ UNCHANGED <<live, resident, resuming, sweeping>>
        /\ \A q \in Requests : pc'[q] \in Executing => pc[q] \in Executing
    BY <1>0, <1>1 DEF Arrive, memoryVars, indexVars, sessionVars, TypeOK, Executing
  <2>. QED
    BY <2>1 DEF Calm
<1>2. ASSUME NEW r \in Requests, Request(r) PROVE Calm'
  <2>1. CASE Open
    <3>1. UNCHANGED <<resident, resuming>>
      BY <1>2, <2>1 DEF Request, JoinFlight, FindNow, AwaitIndex, Found, Missed, Prepare, Reject,
                  Accept, Admit, Execute, ExecuteFails, Settle, SettleFailed, SettlePlain, Return,
                  sessionVars, Open
    <3>2. \A o \in Requests : sweeping'[o] = sweeping[o] \/ sweeping'[o] = FALSE
      <4>1. DiscardsOnLoad = FALSE
        BY <2>1 DEF DiscardsOnLoad, Open
      <4>2. sweeping' = sweeping \/ sweeping' = [sweeping EXCEPT ![r] = FALSE]
        BY <1>2, <4>1 DEF Request, JoinFlight, FindNow, AwaitIndex, Found, Missed, Prepare, Reject,
                  Accept, Admit, Execute, ExecuteFails, Settle, SettleFailed, SettlePlain, Return,
                  indexVars
      <4>. QED
        BY <4>2 DEF TypeOK
    <3>. QED
      BY <2>1, <3>1, <3>2 DEF Calm, Open
  <2>2. CASE ~Open /\ resident
    <3>1. ~Runnable(r) /\ pc[r] \notin Executing
      BY <2>2 DEF Calm, Open
    <3>2. Return(r)
      BY <1>2, <3>1 DEF Request, Runnable, JoinFlight, FindNow, AwaitIndex, Found, Missed, Prepare,
                  Reject, Accept, Admit, Execute, ExecuteFails, Settle, SettleFailed, SettlePlain,
                  Executing
    <3>3. /\ UNCHANGED <<live, resident, resuming, sweeping, keyGate, sessionGate>> /\ pc'[r] = "idle"
          /\ \A q \in Requests \ {r} : pc'[q] = pc[q] /\ subject'[q] = subject[q]
      BY <3>2 DEF Return, memoryVars, sessionVars, indexVars, gateVars, TypeOK
    <3>4. \A q \in Requests : Runnable(q)' => Runnable(q)
      BY <3>3 DEF Runnable, AtLookup, HoldsKey, HoldsSession
    <3>. QED
      BY <3>3, <3>4 DEF Calm, Executing
  <2>3. CASE ~resident
    <3>1. pc[r] \notin Executing /\ ~Accept(r)
      BY <2>3 DEF Calm, Accept
    <3>2. /\ live' = live /\ resident' = resident /\ resuming' \in {resuming, "ready"}
          /\ pc'[r] \notin Executing
      BY <1>2, <3>1 DEF Request, JoinFlight, FindNow, AwaitIndex, Found, Missed, Prepare, Reject,
                  Admit, Execute, ExecuteFails, Settle, SettleFailed, SettlePlain, Return, Reply,
                  sessionVars, memoryVars, TypeOK, Executing
    <3>3. \A q \in Requests \ {r} : pc'[q] = pc[q] \/ pc'[q] = "answered"
      BY <1>2, RequestTouches
    <3>4. \A o \in Requests : sweeping'[o] = sweeping[o] \/ sweeping'[o] = TRUE
      <4>1. DiscardsOnLoad = TRUE
        BY <2>3 DEF DiscardsOnLoad
      <4>2. sweeping' = sweeping \/ sweeping' = [sweeping EXCEPT ![r] = TRUE]
        BY <1>2, <4>1 DEF Request, JoinFlight, FindNow, AwaitIndex, Found, Missed, Prepare, Reject,
                  Accept, Admit, Execute, ExecuteFails, Settle, SettleFailed, SettlePlain, Return,
                  indexVars
      <4>. QED
        BY <4>2 DEF TypeOK
    <3>. QED
      BY <2>3, <3>2, <3>3, <3>4 DEF Calm, Executing
  <2>. QED
    BY <1>0, <2>1, <2>2, <2>3
<1>3. ASSUME NEW o \in Requests, Loading(o) PROVE Calm'
  <2>1. UNCHANGED <<live, resident, resuming>>
    BY <1>3, LoadingGoesOn DEF memoryVars, sessionVars
  <2>2. \A q \in Requests : pc'[q] \in Executing => pc[q] \in Executing
    BY <1>3, LoadingGoesOn DEF Executing
  <2>3. ~(resident /\ resuming # "no")
    BY <1>3, LoaderRuns DEF Calm
  <2>4. \A q \in Requests : sweeping'[q] = sweeping[q] \/ sweeping'[q] = None
    BY <1>3 DEF Loading, LoadDone, LoadFails, TypeOK
  <2>. QED
    BY <2>1, <2>2, <2>3, <2>4, NoneIsNoValue DEF Calm
<1>4. ASSUME NEW c \in Durable, Runtime(c) \/ Remove(c) PROVE Calm'
  <2>1. Open
    BY <1>4, RuntimeTouches, OpenWork
  <2>. QED
    BY <1>4, <2>1, RuntimeFrame DEF Calm, Open, sessionVars
<1>5. CASE BeginAnyResume
  <2>1. /\ ~resident /\ resuming' = "ready" /\ UNCHANGED <<resident, live, pc, sweeping>>
    BY <1>5 DEF BeginAnyResume, BeginResume, Regular, requestVars, memoryVars, indexVars
  <2>. QED
    BY <2>1 DEF Calm
<1>6. CASE Register
  <2>1. /\ ~resident /\ resident' = TRUE /\ UNCHANGED <<requestVars, gateVars, live, sweeping, resuming>>
        /\ \A r \in Requests : ~Runnable(r)
    BY <1>6 DEF Register, memoryVars, indexVars
  <2>2. \A o \in Requests : sweeping[o] = None
    BY <2>1 DEF Loads, Runnable
  <2>3. \A r \in Requests : ~Runnable(r)'
    BY <2>1 DEF Runnable, AtLookup, HoldsKey, HoldsSession, requestVars, gateVars
  <2>4. /\ \A c \in Cmds : live[c] = None
        /\ \A r \in Requests : pc[r] \notin Executing
    BY <2>1 DEF Calm
  <2>. QED
    BY <2>1, <2>2, <2>3, <2>4, NoneIsNoValue DEF Calm, requestVars
<1>7. CASE FinishResume
  <2>1. /\ resident /\ resident' = resident /\ resuming' = "no" /\ sweeping' = sweeping
    BY <1>7 DEF FinishResume, indexVars
  <2>. QED
    BY <2>1 DEF Calm
<1>8. CASE ResumeFails
  <2>1. /\ ~resident /\ resident' = resident /\ resuming' = "no" /\ sweeping' = sweeping /\ live' = live
        /\ \A q \in Requests : pc'[q] \in Executing => pc[q] \in Executing
    BY <1>8 DEF ResumeFails, indexVars, memoryVars, Reply, Executing
  <2>. QED
    BY <2>1 DEF Calm
<1>9. CASE Deactivate
  <2>1. /\ \A r \in Requests : pc[r] = "idle"
        /\ \A c \in Cmds : live[c] = None
        /\ UNCHANGED <<pc, live, sweeping, resuming>> /\ resident' = FALSE
    BY <1>9 DEF Deactivate, Pinned, requestVars, indexVars
  <2>2. \A o \in Requests : sweeping[o] = None
    BY <2>1 DEF Loads
  <2>. QED
    BY <2>1, <2>2, NoneIsNoValue DEF Calm, Executing
<1>10. CASE Crash
  BY <1>10, NoneIsNoValue DEF Crash, Calm, Executing
<1>11. CASE UNCHANGED vars
  BY <1>11 DEF Calm, vars, requestVars, memoryVars, indexVars, sessionVars, gateVars, Runnable, AtLookup,
               HoldsKey, HoldsSession
<1>. QED
  BY <1>1, <1>2, <1>3, <1>4, <1>5, <1>6, <1>7, <1>8, <1>9, <1>10, <1>11 DEF Next, Resume

\* What a request does to the row and to the pin of its command.
LEMMA RequestRows ==
  ASSUME Regular, TypeOK, Kinds, NEW r \in Requests, Request(r), NEW c \in Cmds
  PROVE  /\ \/ row'[c] = row[c]
            \/ Admit(r) /\ c = subject[r] /\ row'[c] = "admitted" /\ row[c] = "none"
            \/ /\ SettleFailed(r) /\ pc[r] = "cancel" /\ c = subject[r]
               /\ row'[c] = "cancelled" /\ row[c] = "admitted"
         /\ \/ live'[c] = live[c]
            \/ live'[c] # None /\ (Admit(r) => c = subject[r])
            \/ live'[c] = None /\ c = subject[r] /\ (SettleFailed(r) \/ SettlePlain(r))
         /\ taken'[c] = taken[c] \/ (Execute(r) /\ c = subject[r] /\ c \in Durable)
         /\ work'[c] = work[c] \/ (Execute(r) /\ c = subject[r] /\ c \in Durable)
<1>0. "accepted" # None
  BY NoneIsNoValue DEF Answers, Acks
<1>1. CASE c # subject[r]
  BY <1>1, RequestTouches
<1>2. CASE c = subject[r]
  <2>1. CASE Admit(r)
    BY <1>0, <1>2, <2>1 DEF TypeOK, Admit, runtimeVars
  <2>2. CASE Execute(r)
    BY <1>2, <2>2, KindsAreDisjoint DEF TypeOK, Execute, memoryVars, ledgerVars, runtimeVars
  <2>3. CASE Settle(r)
    BY <1>0, <1>2, <2>3 DEF TypeOK, Settle, ledgerVars, runtimeVars
  <2>4. CASE SettleFailed(r)
    <3>1. /\ UNCHANGED <<work, taken>> /\ live'[c] = None
      BY <1>2, <2>4 DEF TypeOK, SettleFailed, SettleWith, runtimeVars
    <3>2. \/ row'[c] = row[c]
          \/ pc[r] = "cancel" /\ row'[c] = "cancelled" /\ row[c] = "admitted"
      BY <1>2, <2>4 DEF TypeOK, SettleFailed
    <3>. QED
      BY <1>2, <2>4, <3>1, <3>2
  <2>5. CASE SettlePlain(r)
    BY <1>2, <2>5 DEF TypeOK, SettlePlain, SettleWith, ledgerVars, runtimeVars
  <2>6. CASE \/ JoinFlight(r) \/ FindNow(r) \/ AwaitIndex(r) \/ Found(r) \/ Missed(r) \/ Prepare(r)
             \/ Reject(r) \/ Accept(r) \/ ExecuteFails(r) \/ Return(r)
    BY <2>6 DEF JoinFlight, FindNow, AwaitIndex, Found, Missed, Prepare, Reject, Accept, ExecuteFails,
                Return, memoryVars, ledgerVars, runtimeVars
  <2>. QED
    BY <2>1, <2>2, <2>3, <2>4, <2>5, <2>6 DEF Request
<1>. QED
  BY <1>1, <1>2

LEMMA SweptRows ==
  ASSUME TypeOK, NEW c \in Cmds
  PROVE  /\ Swept(row)[c] # "admitted"
         /\ row[c] # "admitted" => Swept(row)[c] = row[c]
         /\ row[c] = "admitted" => Swept(row)[c] = "discarded"
BY DEF Swept, TypeOK

\* A load sweeps the ledger only of a session that is not registered.
LEMMA LoadSweeps ==
  ASSUME Regular, TypeOK, Pins, Loads, Calm, NEW o \in Requests, Loading(o)
  PROVE  /\ LoadDone(o)
         /\ \/ row' = row /\ Open
            \/ row' = Swept(row) /\ ~resident
<1>1. LoadDone(o)
  BY DEF Regular, Loading, LoadFails
<1>2. sweeping[o] # None /\ Runnable(o)
  BY LoaderRuns
<1>3. CASE sweeping[o] = TRUE
  BY <1>1, <1>3 DEF LoadDone, Calm
<1>4. CASE sweeping[o] = FALSE
  <2>1. row' = row /\ resident
    BY <1>1, <1>4 DEF LoadDone, Calm
  <2>. QED
    BY <1>1, <1>2, <2>1, OpenWork
<1>. QED
  BY <1>2, <1>3, <1>4 DEF TypeOK

LEMMA ResumeSweeps ==
  ASSUME Regular, FinishResume
  PROVE  row' = Swept(row) /\ ~Open /\ resident
BY DEF Regular, FinishResume, Open

\* Nothing is admitted without a pin where an index or an open session would
\* vouch for it.
LEMMA NoStrayStep ==
  ASSUME Regular, TypeOK, Kinds, CommandKinds', Pins, Loads, Calm, Untaken, NoStray, [Next]_vars
  PROVE  NoStray'
<1>. DEFINE Vouched == index \in Facts \/ Open
<1>. SUFFICES ASSUME index' \in Facts \/ Open', NEW c \in Cmds, row'[c] = "admitted"
              PROVE  live'[c] # None
  BY DEF NoStray, Open
<1>0. /\ Vouched /\ row[c] = "admitted" => live[c] # None
      /\ resuming \in {"no", "ready"} /\ resident \in BOOLEAN
  BY DEF NoStray, Open, TypeOK, Calm
<1>1. ASSUME NEW r \in Requests, NEW d \in Cmds, NEW query \in BOOLEAN, Arrive(r, d, query)
      PROVE  live'[c] # None
  BY <1>0, <1>1 DEF Arrive, memoryVars, indexVars, ledgerVars, sessionVars, Open
<1>2. ASSUME NEW r \in Requests, Request(r) PROVE live'[c] # None
  <2>1. Vouched
    <3>1. index' = index \/ index' = r
      BY <1>2 DEF Request, JoinFlight, FindNow, AwaitIndex, Found, Missed, Prepare, Reject, Accept,
         Admit, Execute, ExecuteFails, Settle, SettleFailed, SettlePlain, Return, indexVars
    <3>2. resident' = resident /\ (resuming' = resuming \/ resuming' = "ready")
      BY <1>2 DEF Request, JoinFlight, FindNow, AwaitIndex, Found, Missed, Prepare, Reject, Accept,
         Admit, Execute, ExecuteFails, Settle, SettleFailed, SettlePlain, Return, sessionVars
    <3>. QED
      BY <3>1, <3>2, FactsAreNoNames DEF Open
  <2>2. CASE Admit(r) /\ c = subject[r]
    BY <2>2, NoneIsNoValue DEF Admit, TypeOK, Answers, Acks
  <2>3. CASE c = subject[r] /\ SettleFailed(r)
    <3>1. pc[r] = "admit" /\ row[c] = "admitted"
      BY <2>3 DEF SettleFailed, Regular, TypeOK
    <3>2. KnownFresh(r) /\ subject[r] \in Durable
      BY <3>1 DEF KnownFresh, Kinds, RequestKinds
    <3>. QED
      BY <2>3, <3>1, <3>2 DEF Untaken
  <2>4. CASE c = subject[r] /\ SettlePlain(r)
    <3>1. c \notin Durable
      BY <2>4, KindsAreDisjoint DEF SettlePlain
    <3>. QED
      BY <3>1 DEF CommandKinds
  <2>5. CASE ~(c = subject[r] /\ (Admit(r) \/ SettleFailed(r) \/ SettlePlain(r)))
    BY <1>0, <1>2, <2>1, <2>5, RequestRows
  <2>. QED
    BY <2>2, <2>3, <2>4, <2>5
<1>3. ASSUME NEW o \in Requests, Loading(o) PROVE live'[c] # None
  <2>1. row' = row /\ Open
    BY <1>3, LoadSweeps, SweptRows
  <2>2. live' = live
    BY <1>3, LoadingGoesOn DEF memoryVars
  <2>. QED
    BY <1>0, <2>1, <2>2
<1>4. ASSUME NEW d \in Durable, Runtime(d) \/ Remove(d) PROVE live'[c] # None
  <2>1. /\ work[d] # "none" /\ Open
        /\ c # d => row'[c] = row[c] /\ live'[c] = live[c]
    BY <1>4, RuntimeTouches, OpenWork
  <2>2. CASE c = d
    <3>1. ~Announce(d)
      BY <2>2 DEF Announce, ledgerVars, Kinds, CommandKinds
    <3>2. live'[c] = live[c]
      BY <1>4, <2>2, <3>1 DEF Runtime, Remove, Drain, Promote, Blocked, CompactOver, RecordFact,
                        RecordFails, memoryVars
    <3>. QED
      BY <2>1, <2>2, <3>2 DEF Pins
  <2>. QED
    BY <1>0, <2>1, <2>2
<1>5. CASE BeginAnyResume \/ Register \/ ResumeFails \/ Deactivate \/ UNCHANGED vars
  <2>1. UNCHANGED <<index, live, row>>
    BY <1>5 DEF BeginAnyResume, BeginResume, Register, ResumeFails, Deactivate, vars, memoryVars,
                indexVars, ledgerVars
  <2>2. Open' => Open
    BY <1>5 DEF BeginAnyResume, BeginResume, Register, ResumeFails, Deactivate, vars, sessionVars, Open
  <2>. QED
    BY <1>0, <2>1, <2>2
<1>6. CASE FinishResume
  BY <1>6, ResumeSweeps, SweptRows
<1>7. CASE Crash
  BY <1>7, FactsAreNoNames DEF Crash, Open
<1>. QED
  BY <1>1, <1>2, <1>3, <1>4, <1>5, <1>6, <1>7 DEF Next, Resume

\* Facts read from a store without strays leave out nothing that was accepted.
LEMMA WholeFacts ==
  ASSUME TypeOK, CommandKinds, NEW c \in Durable, NEW marks,
         row[c] # "admitted", row[c] = "discarded" \/ taken[c] > 0
  PROVE  FactIn(FactsOf(row, marks), c) # "miss"
<1>1. c \in Cmds
  BY DEF Cmds, Durable
<1>2. row[c] \in {"promoted", "cancelled", "discarded"} /\ (row[c] = "promoted" => c \in Inputs)
  BY <1>1 DEF TypeOK, CommandKinds
<1>. QED
  BY <1>2 DEF FactsOf, FactIn

\* The index vouches for whatever was accepted and is no longer pinned.
LEMMA CompleteStep ==
  ASSUME Regular, TypeOK, Kinds, CommandKinds', Clean, Pins, Loads, Calm, Untaken, NoStray, NoStray',
         Complete, [Next]_vars
  PROVE  Complete'
<1>. SUFFICES ASSUME index' \in Facts, NEW c \in Durable, live'[c] = None,
                     row'[c] = "discarded" \/ taken'[c] > 0
              PROVE  FactIn(index', c) # "miss"
  BY DEF Complete
<1>c. c \in Cmds
  BY DEF Cmds, Durable
<1>0. /\ index \in Facts /\ live[c] = None /\ (row[c] = "discarded" \/ taken[c] > 0) =>
           FactIn(index, c) # "miss"
      /\ index \in Facts /\ live[c] = None => row[c] # "admitted"
  BY <1>c DEF Complete, NoStray
<1>1. ASSUME NEW r \in Requests, NEW d \in Cmds, NEW query \in BOOLEAN, Arrive(r, d, query)
      PROVE  FactIn(index', c) # "miss"
  BY <1>0, <1>1 DEF Arrive, memoryVars, indexVars, ledgerVars, runtimeVars
<1>2. ASSUME NEW r \in Requests, Request(r) PROVE FactIn(index', c) # "miss"
  <2>1. index' = index
    <3>1. index' = index \/ index' = r
      BY <1>2 DEF Request, JoinFlight, FindNow, AwaitIndex, Found, Missed, Prepare, Reject, Accept,
         Admit, Execute, ExecuteFails, Settle, SettleFailed, SettlePlain, Return, indexVars
    <3>. QED
      BY <3>1, FactsAreNoNames
  <2>2. CASE c = subject[r] /\ (Execute(r) \/ Admit(r))
    <3>1. ~Execute(r)
      <4>. SUFFICES ASSUME Execute(r) PROVE FALSE
        OBVIOUS
      <4>. QED
        BY <2>2 DEF Execute, Clean, memoryVars
    <3>2. ~Admit(r)
      BY <1>c, <2>2, NoneIsNoValue DEF Admit, TypeOK, Answers, Acks
    <3>. QED
      BY <2>2, <3>1, <3>2
  <2>3. CASE c = subject[r] /\ (SettleFailed(r) \/ SettlePlain(r))
    <3>1. SettleFailed(r)
      BY <2>3, KindsAreDisjoint DEF SettlePlain
    <3>2. /\ KnownFresh(r) /\ taken'[c] = taken[c]
          /\ row'[c] = "discarded" => row[c] = "discarded"
      BY <1>c, <3>1 DEF SettleFailed, KnownFresh, runtimeVars, TypeOK
    <3>. QED
      BY <1>c, <2>3, <3>2 DEF Untaken, TypeOK
  <2>4. CASE ~(c = subject[r] /\ (Execute(r) \/ Admit(r) \/ SettleFailed(r) \/ SettlePlain(r)))
    <3>1. live[c] = None /\ row'[c] = row[c] /\ taken'[c] = taken[c]
      BY <1>c, <1>2, <2>4, RequestRows
    <3>. QED
      BY <1>0, <2>1, <3>1
  <2>. QED
    BY <2>2, <2>3, <2>4
<1>a. \A d \in Cmds : row'[d] = "admitted" => live'[d] # None
  BY DEF NoStray
<1>3. ASSUME NEW o \in Requests, Loading(o) PROVE FactIn(index', c) # "miss"
  <2>1. UNCHANGED <<live, taken, timeline>> /\ LoadDone(o)
    BY <1>3, LoadingGoesOn, LoadSweeps DEF memoryVars, runtimeVars
  <2>2. CASE index' = index
    <3>1. row[c] # "admitted"
      BY <1>0, <2>1, <2>2
    <3>2. row'[c] = row[c]
      BY <1>3, <1>c, <3>1, LoadSweeps, SweptRows
    <3>. QED
      BY <1>0, <2>1, <2>2, <3>2
  <2>3. CASE index' # index
    <3>1. index' = FactsOf(row', timeline)
      BY <2>1, <2>3 DEF LoadDone
    <3>2. row'[c] # "admitted"
      BY <1>a, <1>c
    <3>3. row'[c] \in {"none", "promoted", "cancelled", "discarded"} /\ (row'[c] = "promoted" => c \in Inputs)
      <4>1. row'[c] \in {"none", "admitted", "promoted", "cancelled", "discarded"}
        BY <1>3, <1>c, LoadSweeps, FactsType DEF TypeOK
      <4>. QED
        BY <1>c, <3>2, <4>1 DEF CommandKinds
    <3>4. row'[c] # "none"
      BY <1>c, <2>1 DEF CommandKinds
    <3>. QED
      BY <3>1, <3>3, <3>4 DEF FactsOf, FactIn
  <2>. QED
    BY <2>2, <2>3
<1>4. ASSUME NEW d \in Durable, Runtime(d) \/ Remove(d) PROVE FactIn(index', c) # "miss"
  <2>1. taken' = taken
    BY <1>4, RuntimeFrame
  <2>2. CASE Announce(d)
    BY <2>2, FactsAreNoNames DEF Announce, Invalidate
  <2>3. CASE RecordFact(d)
    <3>1. row' = row /\ live' = live /\ timeline' = timeline \cup {d}
      BY <2>3 DEF RecordFact, memoryVars
    <3>2. row[c] # "admitted"
      BY <1>4, <1>c, <3>1, RuntimeTouches, OpenWork DEF NoStray, Open
    <3>3. CASE index' = FactsOf(row, timeline')
      BY <2>1, <3>1, <3>2, <3>3, WholeFacts DEF Kinds
    <3>4. CASE index \in Facts /\ index' = [index EXCEPT !.timeline = @ \cup {d}]
      <4>1. /\ index'.transcript = index.transcript /\ index'.discarded = index.discarded
            /\ index'.timeline = index.timeline \cup {d}
        BY <3>4 DEF Facts
      <4>2. FactIn(index, c) # "miss"
        BY <1>0, <2>1, <3>1, <3>4
      <4>. QED
        BY <4>1, <4>2 DEF FactIn
    <3>. QED
      BY <2>3, <3>3, <3>4, FactsAreNoNames DEF RecordFact, TypeOK
  <2>4. CASE ~Announce(d) /\ ~RecordFact(d)
    <3>1. UNCHANGED <<index, live>>
      BY <1>4, <2>4 DEF Runtime, Remove, Drain, Promote, Blocked, CompactOver, RecordFails, memoryVars,
                  indexVars
    <3>2. c # d /\ row'[c] = row[c]
      BY <1>4, <1>c, <3>1, RuntimeTouches DEF Pins
    <3>. QED
      BY <1>0, <2>1, <3>1, <3>2
  <2>. QED
    BY <2>2, <2>3, <2>4
<1>5. CASE BeginAnyResume \/ Register \/ ResumeFails \/ Deactivate \/ UNCHANGED vars
  <2>1. UNCHANGED <<index, live, row, taken>>
    BY <1>5 DEF BeginAnyResume, BeginResume, Register, ResumeFails, Deactivate, vars, memoryVars,
                indexVars, ledgerVars, runtimeVars
  <2>. QED
    BY <1>0, <2>1
<1>6. CASE FinishResume
  <2>1. UNCHANGED <<index, live, taken>>
    BY <1>6 DEF FinishResume, memoryVars, indexVars, runtimeVars
  <2>2. row'[c] = row[c]
    BY <1>0, <1>6, <1>c, <2>1, ResumeSweeps, SweptRows
  <2>. QED
    BY <1>0, <2>1, <2>2
<1>7. CASE Crash
  BY <1>7, FactsAreNoNames DEF Crash
<1>. QED
  BY <1>1, <1>2, <1>3, <1>4, <1>5, <1>6, <1>7 DEF Next, Resume

\* Nobody else executes the command of a request that is about to be decided or
\* has been.
LEMMA FreshAlone ==
  ASSUME Gates, Clean, NEW q \in Requests, KnownFresh(q), NEW r \in Requests \ {q},
         subject[r] = subject[q]
  PROVE  pc[r] \notin Executing
<1>1. CASE subject[q] \notin InFlight
  BY <1>1 DEF InFlight
<1>2. CASE subject[q] \in InFlight
  <2>1. pc[q] \in OnSession
    BY <1>2 DEF Clean, KnownFresh, Deciding, Missing, OnSession, Executing
  <2>. QED
    BY <2>1, Exclusion DEF OnSession
<1>. QED
  BY <1>1, <1>2

UntakenAt(r) ==
  KnownFresh(r) /\ subject[r] \in Durable =>
    /\ taken[subject[r]] = 0
    /\ row[subject[r]] # "discarded"
    /\ pc[r] \notin {"execute", "cancel"} => row[subject[r]] # "admitted"

LEMMA UntakenOthers ==
  ASSUME Regular, TypeOK, Kinds, Gates, Clean, Untaken, NEW r \in Requests, Request(r),
         NEW q \in Requests \ {r}
  PROVE  UntakenAt(q)'
<1>. DEFINE c == subject[q]
<1>1. /\ subject'[q] = c /\ found'[q] = found[q]
      /\ pc'[q] = pc[q] \/ (pc[q] = "joined" /\ pc'[q] = "answered")
  BY RequestTouches
<1>2. CASE ~(KnownFresh(q) /\ c \in Durable)
  BY <1>1, <1>2 DEF UntakenAt, KnownFresh, Missing
<1>3. CASE KnownFresh(q) /\ c \in Durable
  <2>1. pc'[q] = pc[q] /\ c \in Cmds
    BY <1>1, <1>3 DEF KnownFresh, Missing, Cmds, Durable
  <2>2. subject[r] = c => pc[r] \notin Executing
    BY <1>3, FreshAlone
  <2>3. row'[c] = row[c] /\ taken'[c] = taken[c]
    BY <2>1, <2>2, RequestRows DEF Admit, Execute, Executing
  <2>. QED
    BY <1>1, <1>3, <2>1, <2>3 DEF Untaken, UntakenAt
<1>. QED
  BY <1>2, <1>3

LEMMA UntakenOwn ==
  ASSUME Regular, TypeOK, Kinds, Pins, NoStray, Complete, Untaken, NEW r \in Requests, Request(r)
  PROVE  UntakenAt(r)'
<1>. DEFINE c == subject[r]
<1>1. CASE \/ JoinFlight(r) \/ AwaitIndex(r) \/ Found(r) \/ Reject(r) \/ Return(r) \/ Execute(r)
           \/ Settle(r) \/ SettleFailed(r) \/ SettlePlain(r)
  <2>1. pc'[r] \in {"joined", "load", "answered", "idle", "settle"}
    <3>1. CASE Settle(r) \/ SettleFailed(r) \/ SettlePlain(r)
      BY <3>1, Settles DEF Deliver, Reply
    <3>2. CASE \/ JoinFlight(r) \/ AwaitIndex(r) \/ Found(r) \/ Reject(r) \/ Return(r) \/ Execute(r)
      BY <3>2 DEF TypeOK, JoinFlight, AwaitIndex, Found, Reject, Reply, Return, Execute
    <3>. QED
      BY <1>1, <3>1, <3>2
  <2>. QED
    BY <2>1 DEF UntakenAt, KnownFresh, Missing
<1>2. CASE FindNow(r)
  <2>. SUFFICES ASSUME found'[r] = "miss", c \in Durable
                PROVE  taken[c] = 0 /\ row[c] # "discarded" /\ row[c] # "admitted"
    <3>1. pc'[r] = "looked" /\ subject' = subject /\ row' = row /\ taken' = taken
      BY <1>2 DEF FindNow, TypeOK, ledgerVars, runtimeVars
    <3>. QED
      BY <3>1 DEF UntakenAt, KnownFresh, Missing
  <2>0. c \in Cmds
    BY DEF Cmds, Durable
  <2>1. live[c] = None /\ index \in Facts /\ FactIn(index, c) = "miss"
    <3>1. live[c] # "miss"
      BY <2>0, NoneIsNoValue DEF TypeOK, Acks
    <3>2. Remembered(c) => SettledAck(c) # "miss"
      BY SettledType DEF Acks
    <3>. QED
      BY <1>2, <3>1, <3>2 DEF FindNow, TypeOK
  <2>2. row[c] # "discarded" /\ ~(taken[c] > 0)
    BY <2>1 DEF Complete
  <2>3. taken[c] \in 0 .. 2
    BY <2>0 DEF TypeOK
  <2>4. row[c] # "admitted"
    BY <2>0, <2>1 DEF NoStray
  <2>. QED
    BY <2>2, <2>3, <2>4
<1>3. CASE Missed(r) \/ Prepare(r) \/ ExecuteFails(r) \/ Accept(r)
  <2>1. /\ KnownFresh(r) /\ subject' = subject /\ row' = row /\ taken' = taken
        /\ pc'[r] \notin {"execute", "cancel"} => pc[r] \notin {"execute", "cancel"}
        /\ c \in Durable /\ pc'[r] \in {"execute", "cancel"} => pc[r] \in {"execute", "cancel"}
    BY <1>3 DEF Missed, Prepare, ExecuteFails, Accept, KnownFresh, Missing, TypeOK, ledgerVars,
                runtimeVars
  <2>. QED
    BY <2>1 DEF Untaken, UntakenAt
<1>4. CASE Admit(r)
  <2>1. /\ KnownFresh(r) /\ subject' = subject /\ taken' = taken /\ pc'[r] = "execute"
        /\ c \in Cmds => row'[c] = "admitted" \/ row'[c] = row[c]
    BY <1>4 DEF Admit, KnownFresh, TypeOK, runtimeVars
  <2>2. c \in Durable => c \in Cmds
    BY DEF Cmds, Durable
  <2>. QED
    BY <2>1, <2>2 DEF Untaken, UntakenAt
<1>. QED
  BY <1>1, <1>2, <1>3, <1>4 DEF Request

LEMMA UntakenStep ==
  ASSUME Regular, TypeOK, Kinds, CommandKinds', Gates, Clean, Pins, Told, Loads, Calm, NoStray,
         NoStray', Complete, Untaken, [Next]_vars
  PROVE  Untaken'
<1>0. (\A q \in Requests : UntakenAt(q)') => Untaken'
  BY DEF Untaken, UntakenAt
<1>a. \A q \in Requests : UntakenAt(q)
  BY DEF Untaken, UntakenAt
<1>1. ASSUME NEW r \in Requests, NEW d \in Cmds, NEW query \in BOOLEAN, Arrive(r, d, query)
      PROVE  Untaken'
  <2>1. UNCHANGED <<found, row, taken>> /\ pc'[r] = "key"
    BY <1>1 DEF Arrive, TypeOK, ledgerVars, runtimeVars
  <2>2. \A q \in Requests \ {r} : pc'[q] = pc[q] /\ subject'[q] = subject[q]
    BY <1>1 DEF Arrive, TypeOK
  <2>3. UntakenAt(r)'
    BY <2>1 DEF UntakenAt, KnownFresh, Missing
  <2>4. \A q \in Requests \ {r} : UntakenAt(q)'
    BY <1>a, <2>1, <2>2 DEF UntakenAt, KnownFresh, Missing
  <2>. QED
    BY <1>0, <2>3, <2>4
<1>2. ASSUME NEW r \in Requests, Request(r) PROVE Untaken'
  BY <1>0, <1>2, UntakenOthers, UntakenOwn
<1>3. ASSUME NEW o \in Requests, Loading(o) PROVE Untaken'
  <2>0. /\ UNCHANGED <<subject, live, taken, timeline>> /\ LoadDone(o)
        /\ \A q \in Requests : \/ q \notin Waiters(o) /\ pc'[q] = pc[q] /\ found'[q] = found[q]
                               \/ q \in Waiters(o) /\ pc[q] = "load" /\ pc'[q] = "looked"
    BY <1>3, LoadingGoesOn, LoadSweeps DEF memoryVars, runtimeVars
  <2>. SUFFICES ASSUME NEW q \in Requests, KnownFresh(q)', subject[q] \in Durable
                PROVE  /\ taken[subject[q]] = 0
                       /\ row'[subject[q]] # "discarded"
                       /\ pc'[q] \notin {"execute", "cancel"} => row'[subject[q]] # "admitted"
    BY <1>0, <2>0 DEF UntakenAt
  <2>. DEFINE c == subject[q]
  <2>1. c \in Cmds
    BY DEF Cmds, Durable
  <2>2. CASE q \notin Waiters(o)
    <3>1. KnownFresh(q) /\ pc'[q] = pc[q]
      BY <2>0, <2>2 DEF KnownFresh, Missing
    <3>2. /\ taken[c] = 0 /\ row[c] # "discarded"
          /\ pc[q] \notin {"execute", "cancel"} => row[c] # "admitted"
      BY <3>1 DEF Untaken
    <3>3. row'[c] = row[c]
      <4>1. CASE row' = row /\ Open
        BY <4>1
      <4>2. CASE row' = Swept(row) /\ ~resident
        <5>1. pc[q] \notin Executing
          BY <4>2 DEF Calm
        <5>. QED
          BY <2>1, <3>2, <4>2, <5>1, SweptRows DEF Executing
      <4>. QED
        BY <1>3, <4>1, <4>2, LoadSweeps
    <3>. QED
      BY <3>1, <3>2, <3>3
  <2>3. CASE q \in Waiters(o)
    <3>1. pc[q] = "load" /\ pc'[q] = "looked" /\ found'[q] = "miss"
      BY <2>0, <2>3 DEF KnownFresh, Missing
    <3>2. FactIn(FactsOf(row', timeline), c) = "miss"
      BY <2>0, <2>3, <3>1 DEF LoadDone
    <3>3. live'[c] = None
      BY <2>0, <3>1 DEF Clean, Deciding
    <3>4. row'[c] # "admitted"
      <4>1. CASE row' = row /\ Open
        BY <2>0, <2>1, <3>3, <4>1 DEF NoStray, Open
      <4>2. CASE row' = Swept(row)
        BY <2>1, <4>2, SweptRows
      <4>. QED
        BY <1>3, <4>1, <4>2, LoadSweeps
    <3>5. row'[c] \in {"none", "admitted", "promoted", "cancelled", "discarded"}
      BY <1>3, <2>1, LoadSweeps, FactsType DEF TypeOK
    <3>6. (row'[c] = "promoted" => c \in Inputs) /\ (taken'[c] > 0 => row'[c] # "none")
      BY <2>1 DEF CommandKinds
    <3>7. row'[c] = "none"
      BY <3>2, <3>4, <3>5, <3>6 DEF FactIn, FactsOf
    <3>8. taken[c] \in 0 .. 2
      BY <2>1 DEF TypeOK
    <3>9. ~(taken[c] > 0)
      BY <2>0, <3>6, <3>7
    <3>. QED
      BY <3>7, <3>8, <3>9
  <2>. QED
    BY <2>2, <2>3
<1>4. ASSUME NEW d \in Durable, Runtime(d) \/ Remove(d) PROVE Untaken'
  <2>1. UNCHANGED <<pc, subject, found, taken>>
    BY <1>4, RuntimeFrame DEF requestVars
  <2>2. ASSUME NEW q \in Requests PROVE UntakenAt(q)'
    <3>1. KnownFresh(q) <=> KnownFresh(q)'
      BY <2>1 DEF KnownFresh, Missing
    <3>2. ASSUME KnownFresh(q), subject[q] \in Durable
          PROVE  row'[subject[q]] = row[subject[q]]
      <4>1. work[subject[q]] = "none" /\ subject[q] \in Cmds
        BY <3>2 DEF Told, ToldAt, Undone, Cmds, Durable
      <4>. QED
        BY <1>4, <4>1, RuntimeTouches
    <3>. QED
      BY <1>a, <2>1, <3>1, <3>2 DEF UntakenAt
  <2>. QED
    BY <1>0, <2>2
<1>5. CASE BeginAnyResume \/ Register \/ UNCHANGED vars
  <2>1. UNCHANGED <<pc, subject, found, row, taken>>
    BY <1>5 DEF BeginAnyResume, BeginResume, Register, vars, requestVars, ledgerVars, runtimeVars
  <2>. QED
    BY <1>0, <1>a, <2>1 DEF UntakenAt, KnownFresh, Missing
<1>6. CASE FinishResume \/ ResumeFails
  <2>1. UNCHANGED <<subject, found, taken>>
    BY <1>6 DEF FinishResume, ResumeFails, runtimeVars
  <2>2. \A q \in Requests : pc'[q] = pc[q] \/ (pc[q] = "cold" /\ pc'[q] \in {"decide", "answered"})
    BY <1>6 DEF FinishResume, ResumeFails, Reply
  <2>3. row' = row \/ (row' = Swept(row) /\ ~Open /\ resident)
    BY <1>6, ResumeSweeps DEF ResumeFails, ledgerVars
  <2>4. ASSUME NEW q \in Requests PROVE UntakenAt(q)'
    <3>. SUFFICES ASSUME KnownFresh(q)', subject[q] \in Durable
                  PROVE  /\ taken[subject[q]] = 0
                         /\ row'[subject[q]] # "discarded"
                         /\ pc'[q] \notin {"execute", "cancel"} => row'[subject[q]] # "admitted"
      BY <2>1 DEF UntakenAt
    <3>1. KnownFresh(q)
      BY <2>1, <2>2 DEF KnownFresh, Missing
    <3>2. /\ taken[subject[q]] = 0 /\ row[subject[q]] # "discarded" /\ subject[q] \in Cmds
          /\ pc[q] \notin {"execute", "cancel"} => row[subject[q]] # "admitted"
      BY <3>1 DEF Untaken, Cmds, Durable
    <3>3. row'[subject[q]] = row[subject[q]]
      <4>1. CASE row' = Swept(row) /\ ~Open /\ resident
        <5>1. pc[q] \notin Executing
          BY <4>1 DEF Calm, Open
        <5>. QED
          BY <3>2, <4>1, <5>1, SweptRows DEF Executing
      <4>. QED
        BY <2>3, <4>1
    <3>. QED
      BY <2>2, <3>2, <3>3
  <2>. QED
    BY <1>0, <2>4
<1>7. CASE Deactivate
  <2>1. \A q \in Requests : pc'[q] = "idle"
    BY <1>7 DEF Deactivate, requestVars
  <2>. QED
    BY <2>1 DEF Untaken, KnownFresh, Missing
<1>8. CASE Crash
  BY <1>8 DEF Crash, Untaken, KnownFresh, Missing
<1>. QED
  BY <1>1, <1>2, <1>3, <1>4, <1>5, <1>6, <1>7, <1>8 DEF Next, Resume

\* A discarded row is of no command the runtime works on.
LEMMA SparesStep ==
  ASSUME Regular, TypeOK, Kinds, Pins, Loads, Calm, Untaken, SweepSparesWork, [Next]_vars
  PROVE  SweepSparesWork'
<1>. SUFFICES ASSUME NEW c \in Durable, row'[c] = "discarded" PROVE work'[c] = "none"
  BY DEF SweepSparesWork
<1>c. c \in Cmds
  BY DEF Cmds, Durable
<1>0. row[c] = "discarded" => work[c] = "none"
  BY DEF SweepSparesWork
<1>1. ASSUME NEW r \in Requests, NEW d \in Cmds, NEW query \in BOOLEAN, Arrive(r, d, query)
      PROVE  work'[c] = "none"
  BY <1>0, <1>1 DEF Arrive, ledgerVars, runtimeVars
<1>2. ASSUME NEW r \in Requests, Request(r) PROVE work'[c] = "none"
  <2>1. row[c] = "discarded"
    BY <1>2, <1>c, RequestRows
  <2>2. CASE Execute(r) /\ c = subject[r]
    BY <2>1, <2>2 DEF Execute, Untaken, KnownFresh
  <2>. QED
    BY <1>0, <1>2, <1>c, <2>1, <2>2, RequestRows
<1>s. ASSUME row' = Swept(row), ~Open PROVE work[c] = "none"
  BY <1>c, <1>s, OpenWork
<1>3. ASSUME NEW o \in Requests, Loading(o) PROVE work'[c] = "none"
  <2>1. work' = work
    BY <1>3, LoadingGoesOn DEF runtimeVars
  <2>. QED
    BY <1>0, <1>3, <1>s, <2>1, LoadSweeps DEF Open
<1>4. ASSUME NEW d \in Durable, Runtime(d) \/ Remove(d) PROVE work'[c] = "none"
  <2>1. work[d] # "none" /\ (c # d => row'[c] = row[c] /\ work'[c] = work[c])
    BY <1>4, <1>c, RuntimeTouches
  <2>2. row'[d] = "discarded" => row[d] = "discarded"
    BY <1>4 DEF Runtime, Remove, Drain, Promote, Blocked, Announce, CompactOver, RecordFact,
                RecordFails, ledgerVars, TypeOK, Durable, Cmds
  <2>. QED
    BY <1>0, <2>1, <2>2
<1>5. CASE BeginAnyResume \/ Register \/ ResumeFails \/ Deactivate \/ UNCHANGED vars
  <2>1. UNCHANGED <<row, work>>
    BY <1>5 DEF BeginAnyResume, BeginResume, Register, ResumeFails, Deactivate, vars, ledgerVars,
                runtimeVars
  <2>. QED
    BY <1>0, <2>1
<1>6. CASE FinishResume
  <2>1. work' = work
    BY <1>6 DEF FinishResume, runtimeVars
  <2>. QED
    BY <1>6, <1>s, <2>1, ResumeSweeps
<1>7. CASE Crash
  BY <1>7, <1>c DEF Crash
<1>. QED
  BY <1>1, <1>2, <1>3, <1>4, <1>5, <1>6, <1>7 DEF Next, Resume

\* An execution is accepted only of what was never taken.
LEMMA OnceStep ==
  ASSUME Regular, TypeOK, Kinds, Untaken, OncePerCommand, [Next]_vars
  PROVE  OncePerCommand'
<1>. SUFFICES ASSUME NEW c \in Durable PROVE taken'[c] <= 1
  BY DEF OncePerCommand
<1>c. c \in Cmds /\ taken[c] <= 1
  BY DEF Cmds, Durable, OncePerCommand
<1>1. ASSUME NEW r \in Requests, Request(r) PROVE taken'[c] <= 1
  <2>1. CASE Execute(r) /\ c = subject[r]
    <3>1. taken[c] = 0
      BY <2>1 DEF Execute, Untaken, KnownFresh
    <3>2. taken'[c] = 1
      BY <1>c, <2>1, <3>1, KindsAreDisjoint DEF Execute, TypeOK
    <3>. QED
      BY <3>2
  <2>. QED
    BY <1>1, <1>c, <2>1, RequestRows
<1>2. ASSUME NEW r \in Requests, NEW d \in Cmds, NEW query \in BOOLEAN, Arrive(r, d, query)
      PROVE  taken' = taken
  BY <1>2 DEF Arrive, runtimeVars
<1>3. ASSUME NEW o \in Requests, Loading(o) PROVE taken' = taken
  BY <1>3, LoadingGoesOn DEF runtimeVars
<1>4. ASSUME NEW d \in Durable, Runtime(d) \/ Remove(d) PROVE taken' = taken
  BY <1>4, RuntimeFrame
<1>5. CASE BeginAnyResume \/ Resume \/ Deactivate \/ Crash \/ UNCHANGED vars
  <2>1. taken' = taken
    BY <1>5 DEF BeginAnyResume, BeginResume, Resume, Register, FinishResume, ResumeFails, Deactivate,
                Crash, vars, runtimeVars
  <2>. QED
    BY <1>c, <2>1
<1>. QED
  BY <1>1, <1>2, <1>3, <1>4, <1>5, <1>c DEF Next

Orderly == /\ Inv /\ Loads /\ Calm /\ NoStray /\ Complete /\ Untaken
           /\ SweepSparesWork /\ OncePerCommand

LEMMA InitOrderly == Init => Orderly
<1>. SUFFICES ASSUME Init PROVE Orderly
  OBVIOUS
<1>1. NoStray /\ Complete /\ Untaken
  BY FactsAreNoNames DEF Init, NoStray, Complete, Untaken, KnownFresh, Missing
<1>2. SweepSparesWork /\ OncePerCommand
  BY DEF Init, SweepSparesWork, OncePerCommand, Durable, Cmds
<1>. QED
  BY <1>1, <1>2, InitInv, InitOrder DEF Orderly

LEMMA StepOrderly == Regular /\ Orderly /\ [Next]_vars => Orderly'
<1>. SUFFICES ASSUME Regular, Orderly, [Next]_vars PROVE Orderly'
  OBVIOUS
<1>1. /\ TypeOK /\ Kinds /\ Gates /\ Flights /\ Clean /\ Pins /\ Told
      /\ Loads /\ Calm /\ NoStray /\ Complete /\ Untaken
  BY DEF Orderly, Inv
<1>2. Inv'
  BY StepInv DEF Orderly
<1>3. CommandKinds'
  BY <1>2 DEF Inv, Kinds
<1>4. Loads' /\ Calm'
  BY <1>1, LoadsStep, CalmStep
<1>5. NoStray'
  BY <1>1, <1>3, NoStrayStep
<1>6. Complete'
  BY <1>1, <1>3, <1>5, CompleteStep
<1>7. Untaken'
  BY <1>1, <1>3, <1>5, UntakenStep
<1>8. SweepSparesWork' /\ OncePerCommand'
  BY <1>1, SparesStep, OnceStep DEF Orderly
<1>. QED
  BY <1>2, <1>4, <1>5, <1>6, <1>7, <1>8 DEF Orderly

\* While the store answers and every resume goes through the READY gate: an open
\* session has no admitted row without a pin, the index vouches for whatever was
\* accepted and is pinned no longer, and so only what was never taken is decided.
THEOREM OrderlyInvariance == Regular => (Spec => []Orderly)
<1>. SUFFICES ASSUME Regular PROVE Spec => []Orderly
  OBVIOUS
<1>1. Orderly /\ [Next]_vars => Orderly'
  BY StepOrderly
<1>. QED
  BY <1>1, InitOrderly, PTL DEF Spec

\* No input is executed twice: not by a retry, not after an eviction from the
\* settled table, a deactivation, a resume or a crash.
THEOREM ExecutedOnce == Regular => (Spec => []OncePerCommand)
<1>1. Orderly => OncePerCommand
  BY DEF Orderly
<1>. QED
  BY <1>1, OrderlyInvariance, PTL

\* The sweep of a resume or of a lookup never discards what the runtime works on.
THEOREM WorkIsSpared == Regular => (Spec => []SweepSparesWork)
<1>1. Orderly => SweepSparesWork
  BY DEF Orderly
<1>. QED
  BY <1>1, OrderlyInvariance, PTL

\* Whoever asks for a command that was accepted is never told "unknown".
THEOREM AcceptedIsKnown == Regular => (Spec => NeverForgotten)
<1>1. ASSUME Orderly, [Next]_vars, NEW r \in Requests, answer[r] = None, answer'[r] = "unknown"
      PROVE  subject[r] \in Plain \/ taken[subject[r]] = 0
  <2>0. TypeOK /\ Kinds
    BY <1>1 DEF Orderly, Inv
  <2>2. Missing(r)
    BY <1>1, <2>0, Answered DEF Orderly, Inv
  <2>3. subject[r] \in Plain \/ subject[r] \in Durable
    BY <2>0, <2>2 DEF Missing, TypeOK, Kinds, RequestKinds, Cmds, Durable
  <2>. QED
    BY <1>1, <2>2, <2>3 DEF Orderly, Untaken, KnownFresh
<1>2. Orderly /\ [Next]_vars =>
        [\A r \in Requests :
           answer[r] = None /\ answer'[r] = "unknown" =>
             subject[r] \in Plain \/ taken[subject[r]] = 0]_vars
  BY <1>1
<1>. QED
  BY <1>2, OrderlyInvariance, PTL DEF NeverForgotten, Spec

=====================================
