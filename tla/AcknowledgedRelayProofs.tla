----------------------- MODULE AcknowledgedRelayProofs -----------------------
(* Safety of AcknowledgedRelay for every number of messages, every way of   *)
(* cutting them into frames and every pattern of replays, interruptions and *)
(* losses: one inductive invariant, and what follows from it.               *)
EXTENDS AcknowledgedRelay, SequenceTheorems, WellFoundedInduction, TLAPS

-----------------------------------------------------------------------------
(* Frames and bursts.                                                       *)

Below == {ss \in Nat \X Nat : ss[1] < ss[2]}

\* Every nonempty set of natural numbers has a least element.
LEMMA LeastNatural ==
  ASSUME NEW T \in SUBSET Nat, T # {}
  PROVE  \E m \in T : \A n \in T : m <= n
<1>1. IsWellFoundedOn(Below, Nat)
  BY NatLessThanWellFounded, Zenon DEF OpToRel, Below
<1>2. PICK m \in T : \A n \in T : ~(<<n, m>> \in Below)
  BY WFMin, <1>1
<1>3. \A n \in T : ~(n < m)
  BY <1>2 DEF Below
<1>. QED
  BY <1>3

\* The cut of the messages of one end.
LEMMA Cut ==
  ASSUME NEW e \in Ends
  PROVE  /\ N[e] \in Nat
         /\ \A m \in 1 .. N[e] + 1 : First[e][m] \in Nat /\ 1 <= First[e][m]
         /\ First[e][1] = 1
         /\ \A m, n \in 1 .. N[e] + 1 : m < n => First[e][m] < First[e][n]
<1>1. /\ N[e] \in Nat
      /\ First[e] \in [1 .. N[e] + 1 -> Nat] /\ First[e][1] = 1
      /\ \A m, n \in 1 .. N[e] + 1 : m < n => First[e][m] < First[e][n]
  BY CutsAreIncreasing, MessagesAreBounded
<1>2. ASSUME NEW m \in 1 .. N[e] + 1
      PROVE  First[e][m] \in Nat /\ 1 <= First[e][m]
  <2>1. CASE m = 1
    BY <1>1, <2>1
  <2>2. CASE m # 1
    <3>1. 1 \in 1 .. N[e] + 1 /\ 1 < m
      BY <1>1, <2>2
    <3>2. First[e][1] < First[e][m]
      BY <1>1, <3>1
    <3>. QED
      BY <1>1, <3>2
  <2>. QED
    BY <2>1, <2>2
<1>. QED
  BY <1>1, <1>2

\* The first frames of messages are ordered as the messages are.
LEMMA CutMonotone ==
  ASSUME NEW e \in Ends, NEW a \in Nat, NEW b \in Nat, a <= b, b <= N[e]
  PROVE  /\ First[e][a + 1] \in Nat /\ 1 <= First[e][a + 1]
         /\ First[e][b + 1] \in Nat /\ First[e][a + 1] <= First[e][b + 1]
         /\ a < b => First[e][a + 1] < First[e][b + 1]
<1>1. /\ N[e] \in Nat
      /\ \A m \in 1 .. N[e] + 1 : First[e][m] \in Nat /\ 1 <= First[e][m]
      /\ \A m, n \in 1 .. N[e] + 1 : m < n => First[e][m] < First[e][n]
  BY Cut
<1>2. a + 1 \in 1 .. N[e] + 1 /\ b + 1 \in 1 .. N[e] + 1 /\ (a < b => a + 1 < b + 1)
  BY <1>1
<1>3. a < b => First[e][a + 1] < First[e][b + 1]
  BY <1>1, <1>2
<1>4. a = b \/ a < b
  OBVIOUS
<1>. QED
  BY <1>1, <1>2, <1>3, <1>4

\* Every frame before the first one of message n + 1 belongs to one of the first n
\* messages.
LEMMA FrameHasMessage ==
  ASSUME NEW e \in Ends, NEW n \in 0 .. N[e], NEW p \in Nat, 1 <= p, p < First[e][n + 1]
  PROVE  LET m == MessageAt(e, p)
         IN m \in 1 .. n /\ First[e][m] <= p /\ p < First[e][m + 1]
<1>. DEFINE T == {m \in 1 .. n : p < First[e][m + 1]}
<1>0. /\ N[e] \in Nat /\ n \in Nat /\ n <= N[e]
      /\ \A m \in 1 .. N[e] + 1 : First[e][m] \in Nat
      /\ First[e][1] = 1
      /\ \A a, b \in 1 .. N[e] + 1 : a < b => First[e][a] < First[e][b]
  BY Cut
<1>1. n \in T
  BY <1>0
<1>2. T \in SUBSET Nat /\ T # {}
  BY <1>1
<1>3. PICK m \in T : \A k \in T : m <= k
  BY <1>2, LeastNatural
<1>4. First[e][m] <= p
  <2>1. CASE m = 1
    BY <1>0, <2>1
  <2>2. CASE m # 1
    <3>1. m - 1 \in 1 .. n /\ m - 1 \notin T
      BY <1>3, <2>2, <1>0
    <3>2. (m - 1) + 1 = m /\ m \in 1 .. N[e] + 1
      BY <1>0, <1>3
    <3>. QED
      BY <3>1, <3>2, <1>0
  <2>. QED
    BY <2>1, <2>2
<1>5. m \in 1 .. N[e] /\ First[e][m] <= p /\ p < First[e][m + 1]
  BY <1>3, <1>4, <1>0
<1>6. \A k \in 1 .. N[e] : First[e][k] <= p => k <= n
  <2>. SUFFICES ASSUME NEW k \in 1 .. N[e], First[e][k] <= p, ~(k <= n)
                PROVE  FALSE
    OBVIOUS
  <2>1. n + 1 \in 1 .. N[e] + 1 /\ k \in 1 .. N[e] + 1 /\ (n + 1 = k \/ n + 1 < k)
    BY <1>0
  <2>. QED
    BY <2>1, <1>0
<1>7. /\ MessageAt(e, p) \in 1 .. N[e]
      /\ First[e][MessageAt(e, p)] <= p /\ p < First[e][MessageAt(e, p) + 1]
  BY <1>5 DEF MessageAt
<1>. QED
  BY <1>6, <1>7, <1>0

\* The packets e may have under way: acknowledgements of the d messages delivered to
\* it, and frames of the n messages it sent.
PacketsOf(e, n, d) ==
  {p \in Packets :
     \/ p.type = "ack" /\ p.msg \in 1 .. d
     \/ /\ p.type = "frame" /\ p.msg \in 1 .. n
        /\ First[e][p.msg] <= p.seq /\ p.seq < First[e][p.msg + 1]}

\* The frames of a burst.
FramesFrom(e, p, q) == [i \in 1 .. q - p |-> FrameOf(e, p + i - 1)]

LEMMA FramesAreSound ==
  ASSUME NEW e \in Ends, NEW n \in 0 .. N[e], NEW d \in Nat, NEW p \in Nat, 1 <= p
  PROVE  FramesFrom(e, p, First[e][n + 1]) \in Seq(PacketsOf(e, n, d))
<1>. DEFINE q == First[e][n + 1]
            S == PacketsOf(e, n, d)
            frames == [i \in 1 .. q - p |-> FrameOf(e, p + i - 1)]
<1>0. q \in Nat
  <2>1. N[e] \in Nat /\ \A m \in 1 .. N[e] + 1 : First[e][m] \in Nat
    BY Cut
  <2>2. n + 1 \in 1 .. N[e] + 1
    BY <2>1
  <2>. QED
    BY <2>1, <2>2
<1>2. \A i \in 1 .. q - p : FrameOf(e, p + i - 1) \in S
  <2>. SUFFICES ASSUME NEW i \in 1 .. q - p
                PROVE  FrameOf(e, p + i - 1) \in S
    OBVIOUS
  <2>1. p + i - 1 \in Nat /\ 1 <= p + i - 1 /\ p + i - 1 < First[e][n + 1]
    BY <1>0
  <2>2. LET m == MessageAt(e, p + i - 1)
        IN m \in 1 .. n /\ First[e][m] <= p + i - 1 /\ p + i - 1 < First[e][m + 1]
    BY <2>1, FrameHasMessage
  <2>. QED
    BY <2>1, <2>2 DEF FrameOf, PacketsOf, Packets
<1>3. frames \in Seq(S)
  <2>. HIDE DEF S
  <2>1. CASE p <= q
    <3>1. q - p \in Nat
      BY <1>0, <2>1
    <3>. QED
      BY <3>1, <1>2, IsASeq
  <2>2. CASE ~(p <= q)
    <3>1. 1 .. q - p = {} /\ 1 .. 0 = {}
      BY <1>0, <2>2
    <3>2. frames = [i \in 1 .. 0 |-> FrameOf(e, p + i - 1)]
      BY <3>1
    <3>. QED
      BY <3>1, <3>2, IsASeq
  <2>. QED
    BY <2>1, <2>2
<1>. QED
  BY <1>3 DEF FramesFrom

LEMMA BurstIsSound ==
  ASSUME NEW e \in Ends, NEW n \in 0 .. N[e], NEW d \in Nat, NEW k \in 0 .. d,
         NEW p \in Nat, 1 <= p
  PROVE  Burst(e, k, p, First[e][n + 1]) \in Seq(PacketsOf(e, n, d))
<1>. DEFINE q == First[e][n + 1]
            S == PacketsOf(e, n, d)
<1>1. (IF k = 0 THEN <<>> ELSE <<AckOf(k)>>) \in Seq(S)
  <2>1. k # 0 => AckOf(k) \in S
    BY DEF AckOf, PacketsOf, Packets
  <2>. HIDE DEF S
  <2>. QED
    BY <2>1
<1>2. FramesFrom(e, p, q) \in Seq(S)
  BY FramesAreSound
<1>. QED
  <2>. HIDE DEF S, q
  <2>1. Burst(e, k, p, q) = (IF k = 0 THEN <<>> ELSE <<AckOf(k)>>) \o FramesFrom(e, p, q)
    BY DEF Burst, FramesFrom
  <2>2. Burst(e, k, p, q) \in Seq(S)
    BY <1>1, <1>2, <2>1, ConcatProperties
  <2>. QED
    BY <2>2 DEF S, q

\* What may be under way only grows.
LEMMA PacketsGrow ==
  ASSUME NEW e \in Ends, NEW n \in Nat, NEW nn \in Nat, NEW d \in Nat, NEW dd \in Nat,
         n <= nn, d <= dd, NEW s \in Seq(PacketsOf(e, n, d))
  PROVE  s \in Seq(PacketsOf(e, nn, dd)) /\ s \in Seq(Packets)
<1>1. PacketsOf(e, n, d) \subseteq PacketsOf(e, nn, dd) /\ PacketsOf(e, n, d) \subseteq Packets
  BY DEF PacketsOf
<1>. QED
  BY <1>1, SeqMonotonic

-----------------------------------------------------------------------------
(* The inductive invariant.                                                 *)

\* A message is sent after it is reserved, delivered after it is sent, and
\* acknowledged after it is delivered.
Order == \A e \in Ends :
  /\ reserved[e] <= N[e]
  /\ fullySent[e] <= reserved[e]
  /\ Len(delivered[Peer[e]]) <= fullySent[e]
  /\ acked[e] <= Len(delivered[Peer[e]])
  /\ pendingAck[e] <= Len(delivered[e])

\* What was delivered is what was sent.
Content == \A e \in Ends : \A m \in 1 .. Len(delivered[e]) :
  delivered[e][m] = Message[Peer[e]][m]

\* An assembly holds the first frames of the message after the last one delivered.
Assembly == \A e \in Ends :
  LET start == First[Peer[e]][Len(delivered[e]) + 1]
  IN Usable(e) => /\ expected[e] = start + Len(staged[e])
                  /\ \A i \in 1 .. Len(staged[e]) : staged[e][i] = start + i - 1

\* Only frames of sent messages and acknowledgements of delivered ones are under way.
InFlight == \A e \in Ends :
  wire[e] \in Seq(PacketsOf(e, fullySent[e], Len(delivered[e])))

Inv == TypeOK /\ Order /\ Content /\ Assembly /\ InFlight /\ NoFutureAck

\* The numbers of a link are ordered; this is what chains two of the inequalities.
LEMMA Transitive == \A x, y, z \in Nat : x <= y /\ y <= z => x <= z
OBVIOUS

LEMMA PeerFacts ==
  ASSUME NEW e \in Ends
  PROVE  Peer[e] \in Ends /\ Peer[e] # e /\ Peer[Peer[e]] = e
         /\ \A x \in Ends : x = e \/ x = Peer[e]
BY DEF Peer, Ends

\* The counters of one end.
LEMMA Counters ==
  ASSUME Inv, NEW e \in Ends
  PROVE  /\ N[e] \in Nat /\ reserved[e] \in Nat /\ fullySent[e] \in Nat /\ acked[e] \in Nat
         /\ pendingAck[e] \in Nat /\ cursor[e] \in Nat /\ 1 <= cursor[e]
         /\ Len(delivered[e]) \in Nat /\ Len(delivered[Peer[e]]) \in Nat
         /\ reserved[e] <= N[e] /\ fullySent[e] <= reserved[e]
         /\ Len(delivered[Peer[e]]) <= fullySent[e]
         /\ acked[e] <= Len(delivered[Peer[e]]) /\ pendingAck[e] <= Len(delivered[e])
<1>1. TypeOK /\ Order /\ N[e] \in Nat /\ Peer[e] \in Ends
  BY Cut, PeerFacts DEF Inv
<1>2. delivered[e] \in Seq(Seq(Nat)) /\ delivered[Peer[e]] \in Seq(Seq(Nat))
  BY <1>1 DEF TypeOK
<1>3. Len(delivered[e]) \in Nat /\ Len(delivered[Peer[e]]) \in Nat
  BY <1>2, LenProperties
<1>. QED
  BY <1>1, <1>3 DEF TypeOK, Order

\* What a flush of e does: it sends sound packets and nothing else.
LEMMA FlushEffect ==
  ASSUME Inv, NEW e \in Ends,
         NEW n \in Nat, fullySent[e] <= n, n <= N[e],
         NEW d \in Nat, NEW k \in 0 .. d, NEW p \in Nat, 1 <= p,
         Len(delivered[e]) <= d,
         NEW after \in [Ends -> Seq(Packets)],
         after[e] \in Seq(PacketsOf(e, fullySent[e], Len(delivered[e]))),
         Flush(e, n, k, p, after)
  PROVE  /\ wire' \in [Ends -> Seq(Packets)]
         /\ wire'[e] \in Seq(PacketsOf(e, fullySent'[e], d))
         /\ wire'[Peer[e]] = after[Peer[e]]
         /\ cursor' \in [Ends -> Nat \ {0}]
         /\ pendingAck' \in [Ends -> Nat] /\ pendingAck'[e] <= d
         /\ pendingAck'[Peer[e]] = pendingAck[Peer[e]]
         /\ fullySent' \in [Ends -> Nat]
         /\ fullySent[e] <= fullySent'[e] /\ fullySent'[e] <= n
         /\ fullySent'[Peer[e]] = fullySent[Peer[e]]
<1>. DEFINE q == First[e][n + 1]
            b == Burst(e, k, p, q)
<1>0. /\ N[e] \in Nat /\ fullySent[e] \in Nat /\ Len(delivered[e]) \in Nat
      /\ Peer[e] \in Ends /\ Peer[e] # e
  BY Counters, PeerFacts
<1>t. /\ fullySent \in [Ends -> Nat] /\ cursor \in [Ends -> Nat \ {0}]
      /\ pendingAck \in [Ends -> Nat]
  BY DEF Inv, TypeOK
<1>1. q \in Nat \ {0} /\ First[e][fullySent[e] + 1] \in Nat /\ First[e][fullySent[e] + 1] <= q
  <2>1. /\ First[e][fullySent[e] + 1] \in Nat /\ 1 <= First[e][fullySent[e] + 1]
        /\ First[e][n + 1] \in Nat /\ First[e][fullySent[e] + 1] <= First[e][n + 1]
    BY <1>0, CutMonotone, Zenon
  <2>2. \A x, y \in Nat : 1 <= x /\ x <= y => y # 0
    OBVIOUS
  <2>. QED
    BY <2>1, <2>2, Zenon
<1>2. b \in Seq(PacketsOf(e, n, d))
  <2>1. n \in 0 .. N[e]
    BY <1>0
  <2>. QED
    BY <2>1, BurstIsSound
<1>. HIDE DEF q, b
<1>3. CASE ~up'[e]
  <2>1. /\ wire' = after /\ cursor' = [cursor EXCEPT ![e] = p]
        /\ pendingAck' = [pendingAck EXCEPT ![e] = k] /\ fullySent' = fullySent
    BY <1>3 DEF Flush, q
  <2>2. after[e] \in Seq(PacketsOf(e, fullySent[e], d))
    BY <1>0, PacketsGrow
  <2>3. 1 <= p /\ p \in Nat \ {0} /\ k \in Nat /\ k <= d
    OBVIOUS
  <2>4. wire' \in [Ends -> Seq(Packets)] /\ wire'[Peer[e]] = after[Peer[e]]
    BY <2>1, Zenon
  <2>5. wire'[e] \in Seq(PacketsOf(e, fullySent'[e], d))
    BY <2>1, <2>2, Zenon
  <2>6. cursor' \in [Ends -> Nat \ {0}]
    BY <1>t, <2>1, <2>3, Zenon
  <2>7. /\ pendingAck' \in [Ends -> Nat] /\ pendingAck'[e] = k
        /\ pendingAck'[Peer[e]] = pendingAck[Peer[e]]
    BY <1>0, <1>t, <2>1, <2>3, Zenon
  <2>8. /\ fullySent' \in [Ends -> Nat] /\ fullySent[e] <= fullySent'[e] /\ fullySent'[e] <= n
        /\ fullySent'[Peer[e]] = fullySent[Peer[e]]
    BY <1>0, <1>t, <2>1
  <2>. QED
    BY <2>3, <2>4, <2>5, <2>6, <2>7, <2>8, Zenon
<1>4. CASE up'[e]
  <2>1. /\ wire' = [after EXCEPT ![e] = after[e] \o b]
        /\ cursor' = [cursor EXCEPT ![e] = q]
        /\ pendingAck' = [pendingAck EXCEPT ![e] = 0]
        /\ fullySent' = [fullySent EXCEPT ![e] = IF p < q THEN n ELSE fullySent[e]]
    BY <1>4 DEF Flush, q, b
  <2>2. /\ fullySent' \in [Ends -> Nat] /\ fullySent'[e] = (IF p < q THEN n ELSE fullySent[e])
        /\ fullySent'[Peer[e]] = fullySent[Peer[e]]
    BY <1>0, <1>t, <2>1
  <2>3. b \in Seq(PacketsOf(e, fullySent'[e], d))
    <3>1. CASE p < q
      BY <3>1, <2>2, <1>2
    <3>2. CASE ~(p < q)
      <4>1. fullySent[e] \in 0 .. N[e] /\ fullySent'[e] = fullySent[e]
        BY <1>0, <2>2, <3>2
      <4>2. 1 .. q - p = {} /\ 1 .. First[e][fullySent[e] + 1] - p = {}
        BY <1>1, <3>2
      <4>3. b = Burst(e, k, p, First[e][fullySent[e] + 1])
        BY <4>2 DEF Burst, b, q
      <4>. QED
        BY <4>1, <4>3, BurstIsSound
    <3>. QED
      BY <3>1, <3>2
  <2>4. fullySent[e] <= fullySent'[e] /\ fullySent'[e] <= n /\ fullySent'[e] \in Nat
    BY <1>0, <2>2
  <2>5. after[e] \in Seq(PacketsOf(e, fullySent'[e], d))
    BY <1>0, <2>4, PacketsGrow
  <2>6. after[e] \o b \in Seq(PacketsOf(e, fullySent'[e], d))
    BY <2>3, <2>5, ConcatProperties
  <2>7. after[e] \o b \in Seq(Packets)
    <3>1. PacketsOf(e, fullySent'[e], d) \subseteq Packets
      BY DEF PacketsOf
    <3>. QED
      BY <2>6, <3>1, SeqMonotonic
  <2>8. /\ wire' \in [Ends -> Seq(Packets)] /\ wire'[e] = after[e] \o b
        /\ wire'[Peer[e]] = after[Peer[e]]
    BY <1>0, <2>1, <2>7
  <2>9. /\ cursor' \in [Ends -> Nat \ {0}] /\ pendingAck' \in [Ends -> Nat]
        /\ pendingAck'[e] = 0 /\ pendingAck'[Peer[e]] = pendingAck[Peer[e]]
    BY <1>0, <1>t, <1>1, <2>1
  <2>10. pendingAck'[e] <= d
    BY <2>9
  <2>11. wire'[e] \in Seq(PacketsOf(e, fullySent'[e], d))
    BY <2>6, <2>8, Zenon
  <2>. QED
    BY <2>2, <2>4, <2>8, <2>9, <2>10, <2>11, Zenon
<1>. QED
  BY <1>3, <1>4

\* A handler of e that ends in a flush keeps the counters ordered and the packets sound.
LEMMA FlushKeepsOrder ==
  ASSUME Inv, NEW e \in Ends,
         NEW n \in Nat, reserved[e] <= n, n <= N[e],
         reserved' \in [Ends -> Nat], reserved'[e] = n, reserved'[Peer[e]] = reserved[Peer[e]],
         acked' = acked, delivered'[Peer[e]] = delivered[Peer[e]],
         Len(delivered'[e]) \in Nat, Len(delivered[e]) <= Len(delivered'[e]),
         Len(delivered'[e]) <= fullySent[Peer[e]],
         NEW k \in 0 .. Len(delivered'[e]), NEW p \in Nat, 1 <= p,
         NEW after \in [Ends -> Seq(Packets)],
         \A x \in Ends : after[x] \in Seq(PacketsOf(x, fullySent[x], Len(delivered[x]))),
         Flush(e, n, k, p, after)
  PROVE  /\ Order' /\ InFlight'
         /\ wire' \in [Ends -> Seq(Packets)] /\ cursor' \in [Ends -> Nat \ {0}]
         /\ pendingAck' \in [Ends -> Nat] /\ fullySent' \in [Ends -> Nat]
<1>1. Peer[e] \in Ends /\ Peer[e] # e /\ Peer[Peer[e]] = e /\ \A x \in Ends : x = e \/ x = Peer[e]
  BY PeerFacts
<1>2. /\ N[e] \in Nat /\ reserved[e] \in Nat /\ fullySent[e] \in Nat /\ acked[e] \in Nat
      /\ fullySent[e] <= reserved[e] /\ Len(delivered[Peer[e]]) \in Nat
      /\ Len(delivered[Peer[e]]) <= fullySent[e] /\ acked[e] <= Len(delivered[Peer[e]])
      /\ Len(delivered[e]) \in Nat
  BY Counters
<1>3. /\ N[Peer[e]] \in Nat /\ reserved[Peer[e]] \in Nat /\ fullySent[Peer[e]] \in Nat /\ acked[Peer[e]] \in Nat
      /\ pendingAck[Peer[e]] \in Nat /\ reserved[Peer[e]] <= N[Peer[e]] /\ fullySent[Peer[e]] <= reserved[Peer[e]]
      /\ acked[Peer[e]] <= Len(delivered[e]) /\ pendingAck[Peer[e]] <= Len(delivered[Peer[e]])
  BY Counters, <1>1
<1>4. fullySent[e] <= n /\ Len(delivered'[e]) \in Nat
  BY <1>2
<1>5. after[e] \in Seq(PacketsOf(e, fullySent[e], Len(delivered[e])))
  OBVIOUS
<1>6. /\ wire' \in [Ends -> Seq(Packets)]
      /\ wire'[e] \in Seq(PacketsOf(e, fullySent'[e], Len(delivered'[e]))) /\ wire'[Peer[e]] = after[Peer[e]]
      /\ cursor' \in [Ends -> Nat \ {0}]
      /\ pendingAck' \in [Ends -> Nat] /\ pendingAck'[e] <= Len(delivered'[e]) /\ pendingAck'[Peer[e]] = pendingAck[Peer[e]]
      /\ fullySent' \in [Ends -> Nat]
      /\ fullySent[e] <= fullySent'[e] /\ fullySent'[e] <= n /\ fullySent'[Peer[e]] = fullySent[Peer[e]]
  BY <1>4, <1>5, FlushEffect, SMTT(60)
<1>7. Order'
  <2>1. /\ reserved'[e] <= N[e] /\ fullySent'[e] <= reserved'[e]
        /\ Len(delivered'[Peer[e]]) <= fullySent'[e] /\ acked'[e] <= Len(delivered'[Peer[e]])
        /\ pendingAck'[e] <= Len(delivered'[e])
    <3>1. reserved'[e] <= N[e] /\ fullySent'[e] <= reserved'[e]
      BY <1>6
    <3>2. fullySent'[e] \in Nat
      BY <1>6
    <3>3. Len(delivered'[Peer[e]]) <= fullySent'[e]
      <4>1. Len(delivered[Peer[e]]) <= fullySent[e] /\ fullySent[e] <= fullySent'[e]
        BY <1>2, <1>6, Zenon
      <4>2. Len(delivered[Peer[e]]) \in Nat /\ fullySent[e] \in Nat
        BY <1>2, Zenon
      <4>3. Len(delivered[Peer[e]]) <= fullySent'[e]
        BY <3>2, <4>1, <4>2, Transitive, Zenon
      <4>. QED
        BY <4>3, Zenon
    <3>4. acked'[e] <= Len(delivered'[Peer[e]])
      BY <1>2, Zenon
    <3>5. pendingAck'[e] <= Len(delivered'[e])
      BY <1>6
    <3>. QED
      BY <3>1, <3>3, <3>4, <3>5
  <2>2. reserved'[Peer[e]] <= N[Peer[e]] /\ fullySent'[Peer[e]] <= reserved'[Peer[e]]
    BY <1>3, <1>6
  <2>3. Len(delivered'[e]) <= fullySent'[Peer[e]]
    BY <1>6
  <2>4. acked'[Peer[e]] <= Len(delivered'[e])
    <3>1. acked[Peer[e]] <= Len(delivered'[e])
      BY <1>2, <1>3, <1>4, Transitive, Zenon
    <3>. QED
      BY <3>1, Zenon
  <2>5. pendingAck'[Peer[e]] <= Len(delivered'[Peer[e]])
    BY <1>3, <1>6
  <2>. QED
    BY <1>1, <2>1, <2>2, <2>3, <2>4, <2>5 DEF Order
<1>8. InFlight'
  <2>1. wire'[e] \in Seq(PacketsOf(e, fullySent'[e], Len(delivered'[e])))
    BY <1>6
  <2>2. wire'[Peer[e]] \in Seq(PacketsOf(Peer[e], fullySent'[Peer[e]], Len(delivered'[Peer[e]])))
    BY <1>1, <1>6
  <2>. QED
    BY <1>1, <2>1, <2>2 DEF InFlight
<1>. QED
  BY <1>6, <1>7, <1>8

\* Degrading an end keeps the invariant, whatever packet was being handled.
LEMMA DegradeKeepsInv ==
  ASSUME Inv, NEW e \in Ends, NEW why \in Faults \ {"futureAck"}, Degrade(e, why),
         wire' \in [Ends -> Seq(Packets)],
         \A x \in Ends : wire'[x] \in Seq(PacketsOf(x, fullySent[x], Len(delivered[x]))),
         UNCHANGED linkVars
  PROVE  Inv'
<1>1. TypeOK /\ Order /\ Content /\ Assembly /\ NoFutureAck
  BY DEF Inv
<1>2. TypeOK'
  <2>1. fault' \in [Ends -> Faults \cup {"none"}] /\ saturated' \in [Ends -> BOOLEAN]
    BY <1>1 DEF TypeOK, Degrade
  <2>2. staged' \in [Ends -> Seq(Nat)]
    BY <1>1, EmptySeq DEF TypeOK, Degrade
  <2>3. cursor' \in [Ends -> Nat \ {0}] /\ pendingAck' \in [Ends -> Nat]
    BY <1>1 DEF TypeOK, Degrade
  <2>. QED
    BY <1>1, <2>1, <2>2, <2>3 DEF TypeOK, Degrade, linkVars
<1>3. Order'
  BY <1>1, Counters DEF Order, Degrade, TypeOK
<1>4. Content'
  BY <1>1 DEF Content, Degrade
<1>5. Assembly'
  BY <1>1 DEF Assembly, Degrade, Usable, Faults, TypeOK
<1>6. InFlight'
  BY DEF InFlight, Degrade
<1>7. NoFutureAck'
  BY <1>1 DEF NoFutureAck, Degrade, TypeOK
<1>. QED
  BY <1>2, <1>3, <1>4, <1>5, <1>6, <1>7 DEF Inv

\* A handler that leaves what was delivered alone keeps Content and Assembly.
LEMMA NothingDelivered ==
  ASSUME Inv, UNCHANGED <<receiverVars, fault>>
  PROVE  Content' /\ Assembly' /\ NoFutureAck'
BY DEF Inv, Content, Assembly, NoFutureAck, receiverVars, Usable

LEMMA ReserveKeepsInv == ASSUME Inv, NEW e \in Ends, Reserve(e) PROVE Inv'
<1>. DEFINE n == reserved[e] + 1
<1>1. TypeOK /\ InFlight
  BY DEF Inv
<1>2. CASE Degrade(e, "other") /\ UNCHANGED wire
  BY <1>1, <1>2, DegradeKeepsInv DEF Reserve, TypeOK, InFlight, Faults
<1>3. CASE ~(Degrade(e, "other") /\ UNCHANGED wire)
  <2>1. /\ n <= N[e] /\ reserved' = [reserved EXCEPT ![e] = n]
        /\ saturated' = [saturated EXCEPT ![e] = @ \/ Backlog(e, n, acked[e]) > High]
        /\ Flush(e, n, pendingAck[e], cursor[e], wire)
        /\ UNCHANGED <<acked, receiverVars, fault, linkVars>>
    BY <1>3 DEF Reserve
  <2>2. /\ reserved[e] \in Nat /\ pendingAck[e] \in 0 .. Len(delivered[e]) /\ cursor[e] \in Nat
        /\ 1 <= cursor[e] /\ Len(delivered[e]) \in Nat /\ n \in Nat /\ reserved[e] <= n
    BY Counters
  <2>3. /\ wire \in [Ends -> Seq(Packets)] /\ reserved' \in [Ends -> Nat]
        /\ reserved'[e] = n /\ reserved'[Peer[e]] = reserved[Peer[e]]
        /\ Len(delivered[e]) <= fullySent[Peer[e]]
        /\ \A x \in Ends : wire[x] \in Seq(PacketsOf(x, fullySent[x], Len(delivered[x])))
    BY <1>1, <2>1, <2>2, PeerFacts DEF TypeOK, InFlight, Inv, Order
  <2>4. /\ acked' = acked /\ delivered'[Peer[e]] = delivered[Peer[e]]
        /\ Len(delivered'[e]) \in Nat /\ Len(delivered[e]) <= Len(delivered'[e])
        /\ Len(delivered'[e]) <= fullySent[Peer[e]] /\ pendingAck[e] \in 0 .. Len(delivered'[e])
    BY <2>1, <2>2, <2>3 DEF receiverVars
  <2>5. /\ Order' /\ InFlight'
        /\ wire' \in [Ends -> Seq(Packets)] /\ cursor' \in [Ends -> Nat \ {0}]
        /\ pendingAck' \in [Ends -> Nat] /\ fullySent' \in [Ends -> Nat]
    <3>. HIDE DEF n
    <3>. QED
      BY <2>1, <2>2, <2>3, <2>4, FlushKeepsOrder
  <2>6. TypeOK'
    BY <1>1, <2>1, <2>3, <2>5 DEF TypeOK, receiverVars, linkVars
  <2>. QED
    BY <2>1, <2>5, <2>6, NothingDelivered DEF Inv
<1>. QED
  BY <1>2, <1>3

LEMMA ReplayKeepsInv ==
  ASSUME Inv, NEW e \in Ends, Replay(e), up' \in [Ends -> BOOLEAN], UNCHANGED <<drops, losses>>
  PROVE  Inv'
<1>1. TypeOK /\ InFlight
  BY DEF Inv
<1>2. /\ reserved[e] \in Nat /\ reserved[e] <= N[e] /\ acked[e] \in Nat /\ acked[e] <= N[e]
      /\ pendingAck[e] \in 0 .. Len(delivered[e]) /\ Len(delivered[e]) \in Nat
  BY Counters
<1>3. ReplayFrom(e) \in Nat /\ 1 <= ReplayFrom(e)
  BY <1>2, CutMonotone DEF ReplayFrom
<1>4. /\ wire \in [Ends -> Seq(Packets)] /\ reserved \in [Ends -> Nat]
      /\ Len(delivered[e]) <= fullySent[Peer[e]]
      /\ \A x \in Ends : wire[x] \in Seq(PacketsOf(x, fullySent[x], Len(delivered[x])))
  BY <1>1, PeerFacts DEF TypeOK, InFlight, Inv, Order
<1>5. /\ Flush(e, reserved[e], pendingAck[e], ReplayFrom(e), wire)
      /\ UNCHANGED <<reserved, acked, saturated, receiverVars, fault>>
  BY DEF Replay
<1>d. /\ acked' = acked /\ delivered'[Peer[e]] = delivered[Peer[e]]
      /\ Len(delivered'[e]) \in Nat /\ Len(delivered[e]) <= Len(delivered'[e])
      /\ Len(delivered'[e]) <= fullySent[Peer[e]] /\ pendingAck[e] \in 0 .. Len(delivered'[e])
      /\ reserved' \in [Ends -> Nat] /\ reserved'[e] = reserved[e]
      /\ reserved'[Peer[e]] = reserved[Peer[e]] /\ reserved[e] <= reserved[e]
  BY <1>2, <1>4, <1>5 DEF receiverVars
<1>6. /\ Order' /\ InFlight'
      /\ wire' \in [Ends -> Seq(Packets)] /\ cursor' \in [Ends -> Nat \ {0}]
      /\ pendingAck' \in [Ends -> Nat] /\ fullySent' \in [Ends -> Nat]
  BY <1>2, <1>3, <1>4, <1>5, <1>d, FlushKeepsOrder
<1>7. TypeOK'
  BY <1>1, <1>4, <1>5, <1>6 DEF TypeOK, receiverVars
<1>. QED
  BY <1>5, <1>6, <1>7, NothingDelivered DEF Inv

-----------------------------------------------------------------------------
(* Receiving.                                                               *)

\* A handled packet is sound, and the wire without it is.
LEMMA TakePacket ==
  ASSUME Inv, NEW e \in Ends, wire[Peer[e]] # <<>>,
         NEW after, after = [wire EXCEPT ![Peer[e]] = Tail(@)]
  PROVE  /\ Head(wire[Peer[e]]) \in PacketsOf(Peer[e], fullySent[Peer[e]], Len(delivered[Peer[e]]))
         /\ after \in [Ends -> Seq(Packets)]
         /\ \A x \in Ends : after[x] \in Seq(PacketsOf(x, fullySent[x], Len(delivered[x])))
<1>. DEFINE S == PacketsOf(Peer[e], fullySent[Peer[e]], Len(delivered[Peer[e]]))
<1>1. Peer[e] \in Ends /\ wire \in [Ends -> Seq(Packets)]
  BY PeerFacts DEF Inv, TypeOK
<1>2. \A x \in Ends : wire[x] \in Seq(PacketsOf(x, fullySent[x], Len(delivered[x])))
  BY DEF Inv, InFlight
<1>3. wire[Peer[e]] \in Seq(S) /\ wire[Peer[e]] \in Seq(Packets)
  BY <1>1, <1>2
<1>. HIDE DEF S
<1>4. Head(wire[Peer[e]]) \in S /\ Tail(wire[Peer[e]]) \in Seq(S) /\ Tail(wire[Peer[e]]) \in Seq(Packets)
  BY <1>3, HeadTailProperties
<1>5. after \in [Ends -> Seq(Packets)]
  BY <1>1, <1>4
<1>6. ASSUME NEW x \in Ends
      PROVE  after[x] \in Seq(PacketsOf(x, fullySent[x], Len(delivered[x])))
  <2>1. CASE x = Peer[e]
    BY <1>1, <1>4, <2>1 DEF S
  <2>2. CASE x # Peer[e]
    BY <1>1, <1>2, <2>2
  <2>. QED
    BY <2>1, <2>2
<1>. QED
  BY <1>4, <1>5, <1>6 DEF S

LEMMA ProcessAckKeepsInv ==
  ASSUME Inv, NEW e \in Ends, NEW k \in 1 .. Len(delivered[Peer[e]]), ProcessAck(e, k),
         wire' \in [Ends -> Seq(Packets)],
         \A x \in Ends : wire'[x] \in Seq(PacketsOf(x, fullySent[x], Len(delivered[x]))),
         UNCHANGED linkVars
  PROVE  Inv'
<1>0. TypeOK /\ Order
  BY DEF Inv
<1>1. /\ fullySent[e] \in Nat /\ Len(delivered[Peer[e]]) \in Nat /\ k \in Nat
      /\ k <= fullySent[e] /\ k <= N[e] /\ k <= Len(delivered[Peer[e]])
  BY Counters
<1>2. CASE UNCHANGED <<senderVars, receiverVars, outVars, fault>>
  <2>1. UNCHANGED <<reserved, fullySent, acked, saturated, expected, staged, delivered, cursor,
                    pendingAck, fault>>
    BY <1>2 DEF senderVars, receiverVars, outVars
  <2>2. TypeOK'
    BY <1>0, <2>1 DEF TypeOK, linkVars
  <2>3. Order' /\ InFlight'
    BY <1>0, <2>1 DEF Order, InFlight
  <2>. QED
    BY <1>2, <2>2, <2>3, NothingDelivered DEF Inv
<1>3. CASE /\ acked' = [acked EXCEPT ![e] = k]
           /\ cursor' = [cursor EXCEPT ![e] = Greater(@, First[e][k + 1])]
           /\ saturated' = [saturated EXCEPT ![e] = @ /\ ~Drained(e, k)]
           /\ UNCHANGED <<reserved, fullySent, receiverVars, pendingAck, fault>>
  <2>1. UNCHANGED <<reserved, fullySent, expected, staged, delivered, pendingAck, fault>>
    BY <1>3 DEF receiverVars
  <2>2. Greater(cursor[e], First[e][k + 1]) \in Nat \ {0}
    <3>1. First[e][k + 1] \in Nat /\ 1 <= First[e][k + 1]
      BY <1>1, CutMonotone
    <3>2. cursor[e] \in Nat \ {0}
      BY <1>0 DEF TypeOK
    <3>. QED
      BY <3>1, <3>2 DEF Greater
  <2>3. TypeOK'
    BY <1>0, <1>1, <1>3, <2>1, <2>2 DEF TypeOK, linkVars
  <2>4. \A x \in Ends : acked'[x] <= Len(delivered[Peer[x]])
    BY <1>0, <1>1, <1>3 DEF TypeOK, Order
  <2>5. Order' /\ InFlight'
    BY <1>0, <2>1, <2>4 DEF Order, InFlight
  <2>. QED
    BY <2>1, <2>3, <2>5, NothingDelivered DEF Inv, receiverVars
<1>. QED
  BY <1>1, <1>2, <1>3 DEF ProcessAck

LEMMA DuplicateKeepsInv ==
  ASSUME Inv, NEW e \in Ends, NEW f,
         NEW after \in [Ends -> Seq(Packets)],
         \A x \in Ends : after[x] \in Seq(PacketsOf(x, fullySent[x], Len(delivered[x]))),
         UNCHANGED linkVars, Duplicate(e, f, after)
  PROVE  Inv'
<1>0. TypeOK /\ Order
  BY DEF Inv
<1>1. UNCHANGED <<reserved, acked, saturated, receiverVars, fault>>
  BY DEF Duplicate
<1>2. CASE Reack(e) = 0
  <2>1. wire' = after /\ UNCHANGED <<cursor, pendingAck, fullySent, expected, staged, delivered>>
    BY <1>1, <1>2 DEF Duplicate, outVars, receiverVars
  <2>2. TypeOK'
    BY <1>0, <1>1, <2>1 DEF TypeOK, linkVars
  <2>3. Order' /\ InFlight'
    BY <1>0, <1>1, <2>1 DEF Order, InFlight
  <2>. QED
    BY <1>1, <2>2, <2>3, NothingDelivered DEF Inv
<1>3. CASE Reack(e) # 0
  <2>. DEFINE k == Greater(pendingAck[e], Len(delivered[e]))
  <2>1. Flush(e, reserved[e], k, cursor[e], after)
    BY <1>3 DEF Duplicate, QueueAck, Reack
  <2>2. /\ reserved[e] \in Nat /\ reserved[e] <= N[e] /\ reserved[e] <= reserved[e]
        /\ cursor[e] \in Nat /\ 1 <= cursor[e] /\ Len(delivered[e]) \in Nat
        /\ k \in 0 .. Len(delivered[e])
    BY Counters DEF Greater
  <2>3. Len(delivered[e]) <= fullySent[Peer[e]]
    BY <1>0, PeerFacts DEF Order
  <2>4. /\ reserved' \in [Ends -> Nat] /\ reserved'[e] = reserved[e]
        /\ reserved'[Peer[e]] = reserved[Peer[e]]
    BY <1>0, <1>1 DEF TypeOK
  <2>. HIDE DEF k
  <2>5. /\ acked' = acked /\ delivered'[Peer[e]] = delivered[Peer[e]]
        /\ Len(delivered'[e]) \in Nat /\ Len(delivered[e]) <= Len(delivered'[e])
        /\ Len(delivered'[e]) <= fullySent[Peer[e]] /\ k \in 0 .. Len(delivered'[e])
    BY <1>1, <2>2, <2>3 DEF receiverVars
  <2>6. /\ Order' /\ InFlight'
        /\ wire' \in [Ends -> Seq(Packets)] /\ cursor' \in [Ends -> Nat \ {0}]
        /\ pendingAck' \in [Ends -> Nat] /\ fullySent' \in [Ends -> Nat]
    BY <2>1, <2>2, <2>4, <2>5, FlushKeepsOrder
  <2>7. TypeOK'
    BY <1>0, <1>1, <2>6 DEF TypeOK, receiverVars, linkVars
  <2>. QED
    BY <1>1, <2>6, <2>7, NothingDelivered DEF Inv
<1>. QED
  BY <1>2, <1>3

\* Where the assembler of e stands when the frame it expects arrives.
LEMMA NextFrame ==
  ASSUME Inv, NEW e \in Ends, Usable(e), NEW f,
         f \in PacketsOf(Peer[e], fullySent[Peer[e]], Len(delivered[Peer[e]])),
         f.type = "frame", InSequence(e, f)
  PROVE  LET start == First[Peer[e]][f.msg]
         IN /\ start \in Nat /\ Len(staged[e]) \in Nat /\ staged[e] \in Seq(Nat)
            /\ f.msg = Len(delivered[e]) + 1 /\ f.msg \in 1 .. N[Peer[e]]
            /\ f.msg <= fullySent[Peer[e]] /\ f.seq \in Nat
            /\ f.seq = start + Len(staged[e]) /\ expected[e] = start + Len(staged[e])
            /\ \A i \in 1 .. Len(staged[e]) : staged[e][i] = start + i - 1
<1>1. TypeOK /\ Assembly /\ Peer[e] \in Ends
  BY PeerFacts DEF Inv
<1>2. /\ fullySent[Peer[e]] \in Nat /\ reserved[Peer[e]] \in Nat /\ N[Peer[e]] \in Nat
      /\ fullySent[Peer[e]] <= reserved[Peer[e]] /\ reserved[Peer[e]] <= N[Peer[e]]
  BY <1>1, Counters
<1>3. f.msg \in 1 .. fullySent[Peer[e]] /\ f.seq \in Nat /\ f.msg = Len(delivered[e]) + 1
  BY DEF PacketsOf, Packets, InSequence
<1>4. f.msg \in 1 .. N[Peer[e]] /\ f.msg <= fullySent[Peer[e]]
  BY <1>2, <1>3
<1>5. staged[e] \in Seq(Nat) /\ Len(staged[e]) \in Nat
  BY <1>1, LenProperties DEF TypeOK
<1>6. First[Peer[e]][f.msg] \in Nat
  BY <1>1, <1>2, <1>4, Cut
<1>7. f.seq = expected[e] /\ f.seq - First[Peer[e]][f.msg] = Len(staged[e])
  BY DEF InSequence
<1>8. \A i \in 1 .. Len(staged[e]) : staged[e][i] = First[Peer[e]][f.msg] + i - 1
  BY <1>1, <1>3 DEF Assembly
<1>. QED
  BY <1>3, <1>4, <1>5, <1>6, <1>7, <1>8

LEMMA IncompleteKeepsInv ==
  ASSUME Inv, NEW e \in Ends, Usable(e), NEW f,
         f \in PacketsOf(Peer[e], fullySent[Peer[e]], Len(delivered[Peer[e]])), f.type = "frame",
         NEW after \in [Ends -> Seq(Packets)],
         \A x \in Ends : after[x] \in Seq(PacketsOf(x, fullySent[x], Len(delivered[x]))),
         UNCHANGED linkVars, Incomplete(e, f, after)
  PROVE  Inv'
<1>. DEFINE start == First[Peer[e]][f.msg]
<1>0. TypeOK /\ Order /\ Content /\ Assembly /\ NoFutureAck
  BY DEF Inv
<1>1. /\ start \in Nat /\ Len(staged[e]) \in Nat /\ staged[e] \in Seq(Nat)
      /\ f.msg = Len(delivered[e]) + 1 /\ f.seq \in Nat
      /\ f.seq = start + Len(staged[e]) /\ expected[e] = start + Len(staged[e])
      /\ \A i \in 1 .. Len(staged[e]) : staged[e][i] = start + i - 1
  BY NextFrame DEF Incomplete
<1>2. /\ staged' = [staged EXCEPT ![e] = Append(staged[e], f.seq)]
      /\ expected' = [expected EXCEPT ![e] = expected[e] + 1]
      /\ wire' = after
      /\ UNCHANGED <<reserved, fullySent, acked, saturated, cursor, pendingAck, delivered, fault>>
  BY DEF Incomplete, senderVars, outVars
<1>3. /\ Append(staged[e], f.seq) \in Seq(Nat)
      /\ Len(Append(staged[e], f.seq)) = Len(staged[e]) + 1
      /\ \A i \in 1 .. Len(staged[e]) : Append(staged[e], f.seq)[i] = staged[e][i]
      /\ Append(staged[e], f.seq)[Len(staged[e]) + 1] = f.seq
  BY <1>1, AppendProperties
<1>. HIDE DEF start
<1>4. TypeOK'
  <2>1. staged' \in [Ends -> Seq(Nat)]
    BY <1>0, <1>2, <1>3 DEF TypeOK
  <2>2. expected' \in [Ends -> Nat \ {0}]
    <3>1. expected \in [Ends -> Nat \ {0}] /\ expected[e] \in Nat \ {0}
      BY <1>0 DEF TypeOK
    <3>2. expected[e] + 1 \in Nat \ {0}
      BY <3>1
    <3>. QED
      BY <1>2, <3>1, <3>2
  <2>3. wire' \in [Ends -> Seq(Packets)]
    BY <1>2
  <2>. QED
    BY <1>0, <1>2, <2>1, <2>2, <2>3 DEF TypeOK, linkVars
<1>5. Order' /\ Content' /\ InFlight' /\ NoFutureAck'
  BY <1>0, <1>2 DEF Order, Content, InFlight, NoFutureAck
<1>6. /\ expected'[e] = start + Len(staged'[e])
      /\ \A i \in 1 .. Len(staged'[e]) : staged'[e][i] = start + i - 1
  <2>1. staged'[e] = Append(staged[e], f.seq) /\ expected'[e] = expected[e] + 1
    BY <1>0, <1>2 DEF TypeOK
  <2>2. expected'[e] = start + Len(staged'[e])
    BY <1>1, <1>3, <2>1
  <2>3. ASSUME NEW i \in 1 .. Len(staged[e]) + 1
        PROVE  Append(staged[e], f.seq)[i] = start + i - 1
    <3>1. CASE i \in 1 .. Len(staged[e])
      <4>1. staged[e][i] = start + i - 1
        BY <1>1, <3>1
      <4>2. Append(staged[e], f.seq)[i] = staged[e][i]
        BY <1>3, <3>1
      <4>. QED
        BY <4>1, <4>2
    <3>2. CASE i = Len(staged[e]) + 1
      <4>1. Append(staged[e], f.seq)[i] = f.seq
        BY <1>3, <3>2
      <4>2. start \in Nat /\ Len(staged[e]) \in Nat /\ f.seq = start + Len(staged[e])
        BY <1>1
      <4>3. f.seq = start + i - 1
        BY <4>2, <3>2
      <4>. QED
        BY <4>1, <4>3
    <3>3. i \in 1 .. Len(staged[e]) \/ i = Len(staged[e]) + 1
      <4>1. Len(staged[e]) \in Nat
        BY <1>1
      <4>. QED
        BY <4>1
    <3>. QED
      BY <3>1, <3>2, <3>3
  <2>. QED
    BY <1>3, <2>1, <2>2, <2>3
<1>7. Assembly'
  <2>. SUFFICES ASSUME NEW x \in Ends, Usable(x)'
                PROVE  /\ expected'[x] = First[Peer[x]][Len(delivered'[x]) + 1] + Len(staged'[x])
                       /\ \A i \in 1 .. Len(staged'[x]) :
                            staged'[x][i] = First[Peer[x]][Len(delivered'[x]) + 1] + i - 1
    BY DEF Assembly
  <2>1. CASE x = e
    BY <1>1, <1>2, <1>6, <2>1 DEF start
  <2>2. CASE x # e
    BY <1>0, <1>2, <2>2 DEF Assembly, Usable, TypeOK
  <2>. QED
    BY <2>1, <2>2
<1>. QED
  BY <1>4, <1>5, <1>7 DEF Inv

\* What is delivered is the message that was cut.
LEMMA CompleteMessage ==
  ASSUME Inv, NEW e \in Ends, Usable(e), NEW f,
         f \in PacketsOf(Peer[e], fullySent[Peer[e]], Len(delivered[Peer[e]])), f.type = "frame",
         InSequence(e, f), Len(staged[e]) + 1 = FragmentCount(Peer[e], f.msg)
  PROVE  /\ Append(staged[e], f.seq) \in Seq(Nat)
         /\ Append(staged[e], f.seq) = Message[Peer[e]][f.msg]
         /\ expected[e] + 1 = First[Peer[e]][f.msg + 1]
<1>. DEFINE start == First[Peer[e]][f.msg]
            count == FragmentCount(Peer[e], f.msg)
            whole == Append(staged[e], f.seq)
<1>1. /\ start \in Nat /\ Len(staged[e]) \in Nat /\ staged[e] \in Seq(Nat) /\ f.seq \in Nat
      /\ f.msg \in 1 .. N[Peer[e]]
      /\ f.seq = start + Len(staged[e]) /\ expected[e] = start + Len(staged[e])
      /\ \A i \in 1 .. Len(staged[e]) : staged[e][i] = start + i - 1
  BY NextFrame
<1>2. Peer[e] \in Ends
  BY PeerFacts
<1>3. First[Peer[e]][f.msg + 1] \in Nat
  <2>1. N[Peer[e]] \in Nat
    BY <1>2, Cut
  <2>2. f.msg + 1 \in 1 .. N[Peer[e]] + 1
    BY <1>1, <2>1
  <2>. QED
    BY <1>2, <2>2, Cut
<1>4. /\ whole \in Seq(Nat) /\ Len(whole) = Len(staged[e]) + 1
      /\ \A i \in 1 .. Len(staged[e]) : whole[i] = staged[e][i]
      /\ whole[Len(staged[e]) + 1] = f.seq
  BY <1>1, AppendProperties
<1>5. Message[Peer[e]][f.msg] = [i \in 1 .. count |-> start + i - 1]
  BY <1>1, <1>2 DEF Message
<1>6. count = Len(staged[e]) + 1
  OBVIOUS
<1>7. expected[e] + 1 = First[Peer[e]][f.msg + 1]
  <2>1. Len(staged[e]) + 1 = First[Peer[e]][f.msg + 1] - First[Peer[e]][f.msg]
    BY DEF FragmentCount
  <2>2. /\ First[Peer[e]][f.msg] \in Nat /\ Len(staged[e]) \in Nat
        /\ expected[e] = First[Peer[e]][f.msg] + Len(staged[e])
    BY <1>1
  <2>. HIDE DEF start
  <2>. QED
    BY <1>3, <2>1, <2>2
<1>. HIDE DEF start, whole, count
<1>8. DOMAIN whole = 1 .. count /\ whole \in [1 .. count -> Nat]
  BY <1>4, <1>6, LenProperties
<1>9. ASSUME NEW i \in 1 .. count
      PROVE  whole[i] = start + i - 1
  <2>1. CASE i \in 1 .. Len(staged[e])
    BY <1>1, <1>4, <2>1
  <2>2. CASE i = Len(staged[e]) + 1
    BY <1>1, <1>4, <2>2
  <2>. QED
    BY <1>1, <1>6, <2>1, <2>2
<1>10. whole = [i \in 1 .. count |-> start + i - 1]
  BY <1>8, <1>9
<1>. QED
  BY <1>4, <1>5, <1>7, <1>10 DEF whole

LEMMA CompleteKeepsInv ==
  ASSUME Inv, NEW e \in Ends, Usable(e), NEW f,
         f \in PacketsOf(Peer[e], fullySent[Peer[e]], Len(delivered[Peer[e]])), f.type = "frame",
         NEW after \in [Ends -> Seq(Packets)],
         \A x \in Ends : after[x] \in Seq(PacketsOf(x, fullySent[x], Len(delivered[x]))),
         UNCHANGED linkVars, Complete(e, f, after)
  PROVE  Inv'
<1>. DEFINE whole == Append(staged[e], f.seq)
            k == Greater(pendingAck[e], f.msg)
<1>0. TypeOK /\ Order /\ Content /\ Assembly /\ NoFutureAck /\ Peer[e] \in Ends
  BY PeerFacts DEF Inv
<1>1. /\ f.msg = Len(delivered[e]) + 1 /\ f.msg <= fullySent[Peer[e]] /\ f.msg \in Nat
  BY NextFrame DEF Complete
<1>2. /\ whole \in Seq(Nat) /\ whole = Message[Peer[e]][f.msg]
      /\ expected[e] + 1 = First[Peer[e]][f.msg + 1]
  BY CompleteMessage DEF Complete
<1>. HIDE DEF whole
<1>3. /\ delivered' = [delivered EXCEPT ![e] = Append(delivered[e], whole)]
      /\ staged' = [staged EXCEPT ![e] = <<>>]
      /\ expected' = [expected EXCEPT ![e] = expected[e] + 1]
      /\ Flush(e, reserved[e], k, cursor[e], after)
      /\ UNCHANGED <<reserved, acked, saturated, fault>>
  BY DEF Complete, QueueAck, whole
<1>4. /\ reserved[e] \in Nat /\ reserved[e] <= N[e] /\ reserved[e] <= reserved[e]
      /\ cursor[e] \in Nat /\ 1 <= cursor[e] /\ Len(delivered[e]) \in Nat
      /\ pendingAck[e] \in Nat /\ pendingAck[e] <= Len(delivered[e])
  BY Counters
<1>5. /\ delivered[e] \in Seq(Seq(Nat)) /\ delivered'[e] = Append(delivered[e], whole)
      /\ delivered' \in [Ends -> Seq(Seq(Nat))]
      /\ Len(delivered'[e]) = Len(delivered[e]) + 1
      /\ \A m \in 1 .. Len(delivered[e]) : delivered'[e][m] = delivered[e][m]
      /\ delivered'[e][Len(delivered[e]) + 1] = whole
  <2>1. delivered[e] \in Seq(Seq(Nat)) /\ delivered'[e] = Append(delivered[e], whole)
    BY <1>0, <1>3 DEF TypeOK
  <2>2. Append(delivered[e], whole) \in Seq(Seq(Nat))
    BY <1>2, <2>1, AppendProperties
  <2>. QED
    BY <1>0, <1>2, <1>3, <2>1, <2>2, AppendProperties DEF TypeOK
<1>6. /\ acked' = acked /\ delivered'[Peer[e]] = delivered[Peer[e]]
      /\ Len(delivered'[e]) \in Nat /\ Len(delivered[e]) <= Len(delivered'[e])
      /\ Len(delivered'[e]) <= fullySent[Peer[e]]
      /\ reserved' \in [Ends -> Nat] /\ reserved'[e] = reserved[e]
      /\ reserved'[Peer[e]] = reserved[Peer[e]]
  <2>1. Peer[e] \in Ends /\ Peer[e] # e /\ fullySent[Peer[e]] \in Nat
    BY <1>0, PeerFacts DEF TypeOK
  <2>2. delivered'[Peer[e]] = delivered[Peer[e]]
    BY <1>0, <1>3, <2>1 DEF TypeOK
  <2>3. reserved' \in [Ends -> Nat] /\ reserved' = reserved /\ acked' = acked
    BY <1>0, <1>3 DEF TypeOK
  <2>4. /\ Len(delivered'[e]) \in Nat /\ Len(delivered[e]) <= Len(delivered'[e])
        /\ Len(delivered'[e]) <= fullySent[Peer[e]]
    BY <1>1, <1>4, <1>5, <2>1
  <2>. QED
    BY <2>2, <2>3, <2>4
<1>7. k \in 0 .. Len(delivered'[e])
  BY <1>1, <1>4, <1>5 DEF Greater
<1>. HIDE DEF k
<1>8. /\ Order' /\ InFlight'
      /\ wire' \in [Ends -> Seq(Packets)] /\ cursor' \in [Ends -> Nat \ {0}]
      /\ pendingAck' \in [Ends -> Nat] /\ fullySent' \in [Ends -> Nat]
  BY <1>3, <1>4, <1>6, <1>7, FlushKeepsOrder
<1>9. TypeOK'
  <2>1. staged' \in [Ends -> Seq(Nat)] /\ expected' \in [Ends -> Nat \ {0}]
    <3>1. /\ staged \in [Ends -> Seq(Nat)] /\ expected \in [Ends -> Nat \ {0}]
          /\ expected[e] \in Nat \ {0}
      BY <1>0 DEF TypeOK
    <3>2. <<>> \in Seq(Nat)
      OBVIOUS
    <3>3. expected[e] + 1 \in Nat \ {0}
      BY <3>1
    <3>. QED
      BY <1>3, <3>1, <3>2, <3>3
  <2>. QED
    BY <1>0, <1>3, <1>5, <1>6, <1>8, <2>1 DEF TypeOK, linkVars
<1>10. Content'
  <2>. SUFFICES ASSUME NEW x \in Ends, NEW m \in 1 .. Len(delivered'[x])
                PROVE  delivered'[x][m] = Message[Peer[x]][m]
    BY DEF Content
  <2>1. CASE x # e
    <3>1. delivered'[x] = delivered[x]
      BY <1>0, <1>3, <2>1 DEF TypeOK
    <3>. QED
      BY <1>0, <3>1 DEF Content
  <2>2. CASE x = e /\ m \in 1 .. Len(delivered[e])
    BY <1>0, <1>5, <2>2 DEF Content
  <2>3. CASE x = e /\ m = Len(delivered[e]) + 1
    BY <1>1, <1>2, <1>5, <2>3
  <2>. QED
    BY <1>4, <1>5, <2>1, <2>2, <2>3
<1>11. Assembly'
  <2>. SUFFICES ASSUME NEW x \in Ends, Usable(x)'
                PROVE  /\ expected'[x] = First[Peer[x]][Len(delivered'[x]) + 1] + Len(staged'[x])
                       /\ \A i \in 1 .. Len(staged'[x]) :
                            staged'[x][i] = First[Peer[x]][Len(delivered'[x]) + 1] + i - 1
    BY DEF Assembly
  <2>1. CASE x = e
    <3>1. staged'[e] = <<>> /\ expected'[e] = First[Peer[e]][Len(delivered'[e]) + 1]
      BY <1>0, <1>1, <1>2, <1>3, <1>5 DEF TypeOK
    <3>2. expected'[e] \in Nat /\ Len(<<>>) = 0
      BY <1>9 DEF TypeOK
    <3>. QED
      BY <2>1, <3>1, <3>2
  <2>2. CASE x # e
    <3>1. /\ delivered'[x] = delivered[x] /\ staged'[x] = staged[x] /\ expected'[x] = expected[x]
          /\ Usable(x)
      BY <1>0, <1>3, <2>2 DEF TypeOK, Usable
    <3>. QED
      BY <1>0, <3>1 DEF Assembly
  <2>. QED
    BY <2>1, <2>2
<1>12. NoFutureAck'
  BY <1>0, <1>3 DEF NoFutureAck
<1>. QED
  BY <1>8, <1>9, <1>10, <1>11, <1>12 DEF Inv
LEMMA GapKeepsInv ==
  ASSUME Inv, NEW e \in Ends, NEW f,
         NEW after \in [Ends -> Seq(Packets)],
         \A x \in Ends : after[x] \in Seq(PacketsOf(x, fullySent[x], Len(delivered[x]))),
         UNCHANGED linkVars, Gap(e, f, after)
  PROVE  Inv'
<1>1. Degrade(e, "gap") /\ wire' = after
  BY DEF Gap
<1>2. "gap" \in Faults \ {"futureAck"}
  BY DEF Faults
<1>3. /\ wire' \in [Ends -> Seq(Packets)]
      /\ \A x \in Ends : wire'[x] \in Seq(PacketsOf(x, fullySent[x], Len(delivered[x])))
  BY <1>1
<1>. QED
  BY <1>1, <1>2, <1>3, DegradeKeepsInv

LEMMA ReceiveKeepsInv == ASSUME Inv, NEW e \in Ends, Receive(e) PROVE Inv'
<1>. DEFINE from == Peer[e]
            after == [wire EXCEPT ![from] = Tail(@)]
            p == Head(wire[from])
<1>1. wire[from] # <<>> /\ UNCHANGED linkVars
  BY DEF Receive
<1>2. /\ p \in PacketsOf(from, fullySent[from], Len(delivered[from]))
      /\ after \in [Ends -> Seq(Packets)]
      /\ \A x \in Ends : after[x] \in Seq(PacketsOf(x, fullySent[x], Len(delivered[x])))
  BY <1>1, TakePacket
<1>3. CASE /\ ~Usable(e) /\ wire' = after
           /\ UNCHANGED <<senderVars, receiverVars, outVars, fault>>
  <2>1. TypeOK'
    BY <1>1, <1>2, <1>3
       DEF Inv, TypeOK, senderVars, receiverVars, outVars, linkVars
  <2>2. Order' /\ InFlight'
    BY <1>2, <1>3 DEF Inv, Order, InFlight, senderVars, receiverVars, outVars
  <2>. QED
    BY <1>3, <2>1, <2>2, NothingDelivered DEF Inv
<1>4. CASE Usable(e) /\ p.type = "ack" /\ ProcessAck(e, p.msg) /\ wire' = after
  <2>1. p.msg \in 1 .. Len(delivered[from])
    BY <1>2, <1>4 DEF PacketsOf
  <2>. HIDE DEF p, after
  <2>. QED
    BY <1>1, <1>2, <1>4, <2>1, ProcessAckKeepsInv
<1>5. CASE /\ Usable(e) /\ p.type = "frame"
           /\ Duplicate(e, p, after) \/ Gap(e, p, after) \/ Incomplete(e, p, after)
                \/ Complete(e, p, after)
  <2>. HIDE DEF p, after
  <2>1. CASE Duplicate(e, p, after)
    BY <1>1, <1>2, <2>1, DuplicateKeepsInv
  <2>2. CASE Gap(e, p, after)
    BY <1>1, <1>2, <2>2, GapKeepsInv
  <2>3. CASE Incomplete(e, p, after)
    BY <1>1, <1>2, <1>5, <2>3, IncompleteKeepsInv
  <2>4. CASE Complete(e, p, after)
    BY <1>1, <1>2, <1>5, <2>4, CompleteKeepsInv
  <2>. QED
    BY <1>5, <2>1, <2>2, <2>3, <2>4
<1>. QED
  BY <1>3, <1>4, <1>5 DEF Receive

-----------------------------------------------------------------------------
(* The remaining steps, and the invariant.                                  *)

\* An end that gives up with nothing arriving.
LEMMA GiveUpKeepsInv ==
  ASSUME Inv, NEW e \in Ends, Degrade(e, "other"), UNCHANGED <<wire, linkVars>>
  PROVE  Inv'
<1>1. /\ wire' \in [Ends -> Seq(Packets)]
      /\ \A x \in Ends : wire'[x] \in Seq(PacketsOf(x, fullySent[x], Len(delivered[x])))
  BY DEF Inv, TypeOK, InFlight
<1>2. "other" \in Faults \ {"futureAck"}
  BY DEF Faults
<1>. QED
  BY <1>1, <1>2, DegradeKeepsInv

LEMMA LinkKeepsInv ==
  ASSUME Inv, NEW e \in Ends, Disconnect(e) \/ Reconnect(e)
  PROVE  Inv'
<1>1. TypeOK
  BY DEF Inv
<1>2. CASE Disconnect(e)
  <2>1. TypeOK'
    <3>1. drops' \in 0 .. MaxDrops
      <4>1. drops \in 0 .. MaxDrops
        BY <1>1 DEF TypeOK
      <4>2. drops < MaxDrops /\ drops' = drops + 1
        BY <1>2 DEF Disconnect
      <4>. QED
        BY <4>1, <4>2, BoundsAreNatural
    <3>2. up' \in [Ends -> BOOLEAN]
      BY <1>1, <1>2 DEF Disconnect, TypeOK
    <3>. QED
      BY <1>1, <1>2, <3>1, <3>2
         DEF Disconnect, TypeOK, senderVars, receiverVars, outVars
  <2>2. Order' /\ InFlight'
    BY <1>2 DEF Inv, Disconnect, Order, InFlight, senderVars, receiverVars, outVars
  <2>3. UNCHANGED <<receiverVars, fault>>
    BY <1>2 DEF Disconnect
  <2>. QED
    BY <2>1, <2>2, <2>3, NothingDelivered DEF Inv
<1>3. CASE Reconnect(e)
  <2>1. up' \in [Ends -> BOOLEAN] /\ UNCHANGED <<drops, losses>>
    BY <1>1, <1>3 DEF Reconnect, TypeOK
  <2>2. CASE Replay(e)
    BY <2>1, <2>2, ReplayKeepsInv
  <2>3. CASE UNCHANGED <<senderVars, receiverVars, outVars, fault, wire>>
    <3>1. TypeOK'
      BY <1>1, <2>1, <2>3 DEF TypeOK, senderVars, receiverVars, outVars
    <3>2. Order' /\ InFlight'
      BY <2>3 DEF Inv, Order, InFlight, senderVars, receiverVars, outVars
    <3>. QED
      BY <2>3, <3>1, <3>2, NothingDelivered DEF Inv
  <2>. QED
    BY <1>3, <2>2, <2>3 DEF Reconnect
<1>. QED
  BY <1>2, <1>3

\* What is left of a sequence when a stretch of it is lost holds nothing else.
LEMMA LossKeepsSound ==
  ASSUME NEW S, NEW s \in Seq(S), NEW i \in 1 .. Len(s), NEW j \in 1 .. Len(s), i <= j
  PROVE  SubSeq(s, 1, i - 1) \o SubSeq(s, j + 1, Len(s)) \in Seq(S)
<1>1. Len(s) \in Nat
  BY LenProperties
<1>2. SubSeq(s, 1, i - 1) \in Seq(S)
  <2>1. \A m \in 1 .. i - 1 : m \in 1 .. Len(s)
    BY <1>1
  <2>2. \A m \in 1 .. i - 1 : s[m] \in S
    BY <2>1, ElementOfSeq
  <2>. QED
    BY <1>1, <2>2, SubSeqProperties
<1>3. SubSeq(s, j + 1, Len(s)) \in Seq(S)
  BY <1>1, SubSeqProperties
<1>. QED
  BY <1>2, <1>3, ConcatProperties

LEMMA LoseKeepsInv == ASSUME Inv, NEW e \in Ends, Lose(e) PROVE Inv'
<1>1. TypeOK /\ InFlight
  BY DEF Inv
<1>2. PICK i \in 1 .. Len(wire[e]), j \in 1 .. Len(wire[e]) :
        /\ i <= j
        /\ wire' = [wire EXCEPT ![e] =
                      SubSeq(wire[e], 1, i - 1) \o SubSeq(wire[e], j + 1, Len(wire[e]))]
  BY DEF Lose
<1>. DEFINE left == SubSeq(wire[e], 1, i - 1) \o SubSeq(wire[e], j + 1, Len(wire[e]))
<1>3. left \in Seq(Packets) /\ left \in Seq(PacketsOf(e, fullySent[e], Len(delivered[e])))
  <2>1. /\ wire[e] \in Seq(Packets)
        /\ wire[e] \in Seq(PacketsOf(e, fullySent[e], Len(delivered[e])))
    BY <1>1 DEF TypeOK, InFlight
  <2>. QED
    BY <1>2, <2>1, LossKeepsSound
<1>. HIDE DEF left
<1>4. wire' = [wire EXCEPT ![e] = left]
  BY <1>2 DEF left
<1>5. UNCHANGED <<reserved, fullySent, acked, saturated, cursor, pendingAck,
                  expected, staged, delivered, fault, up, drops>>
  BY DEF Lose, senderVars, receiverVars, outVars
<1>6. losses' \in 0 .. MaxLosses
  BY <1>1, BoundsAreNatural DEF Lose, TypeOK
<1>7. wire' \in [Ends -> Seq(Packets)]
  BY <1>1, <1>3, <1>4 DEF TypeOK
<1>8. TypeOK'
  BY <1>1, <1>5, <1>6, <1>7 DEF TypeOK
<1>9. InFlight'
  BY <1>1, <1>3, <1>4, <1>5 DEF TypeOK, InFlight
<1>10. Order'
  BY <1>5 DEF Inv, Order
<1>. QED
  BY <1>5, <1>8, <1>9, <1>10, NothingDelivered DEF Inv, receiverVars

LEMMA InitInv == Init => Inv
<1>. SUFFICES ASSUME Init PROVE Inv
  OBVIOUS
<1>1. /\ reserved = [e \in Ends |-> 0] /\ cursor = [e \in Ends |-> 1]
      /\ fullySent = [e \in Ends |-> 0] /\ acked = [e \in Ends |-> 0]
      /\ expected = [e \in Ends |-> 1] /\ staged = [e \in Ends |-> <<>>]
      /\ delivered = [e \in Ends |-> <<>>] /\ pendingAck = [e \in Ends |-> 0]
      /\ wire = [e \in Ends |-> <<>>] /\ fault = [e \in Ends |-> "none"]
  BY DEF Init
<1>2. /\ <<>> \in Seq(Nat) /\ <<>> \in Seq(Seq(Nat)) /\ <<>> \in Seq(Packets) /\ Len(<<>>) = 0
      /\ \A S : <<>> \in Seq(S)
  BY EmptySeq
<1>3. TypeOK
  BY <1>1, <1>2, BoundsAreNatural DEF Init, TypeOK
<1>4. Order
  BY <1>1, <1>2, Cut, PeerFacts DEF Order
<1>5. Content
  BY <1>1, <1>2 DEF Content
<1>6. Assembly
  BY <1>1, <1>2, Cut, PeerFacts DEF Assembly
<1>7. InFlight /\ NoFutureAck
  BY <1>1, <1>2 DEF InFlight, NoFutureAck
<1>. QED
  BY <1>3, <1>4, <1>5, <1>6, <1>7 DEF Inv

LEMMA NextKeepsInv == Inv /\ [Next]_vars => Inv'
<1>. SUFFICES ASSUME Inv, [Next]_vars PROVE Inv'
  OBVIOUS
<1>1. CASE UNCHANGED vars
  BY <1>1 DEF Inv, TypeOK, Order, Content, Assembly, InFlight, NoFutureAck, Usable,
              vars, senderVars, receiverVars, outVars, linkVars
<1>2. ASSUME NEW e \in Ends, Reserve(e) PROVE Inv'
  BY <1>2, ReserveKeepsInv
<1>3. ASSUME NEW e \in Ends, SendReady(e) PROVE Inv'
  <2>1. Replay(e) /\ UNCHANGED linkVars
    BY <1>3 DEF SendReady
  <2>2. up' \in [Ends -> BOOLEAN] /\ UNCHANGED <<drops, losses>>
    BY <2>1 DEF Inv, TypeOK, linkVars
  <2>. QED
    BY <2>1, <2>2, ReplayKeepsInv
<1>4. ASSUME NEW e \in Ends, Receive(e) PROVE Inv'
  BY <1>4, ReceiveKeepsInv
<1>5. ASSUME NEW e \in Ends, Expire(e) \/ AssemblyTimeout(e) \/ Fail(e) \/ Replaced(e)
      PROVE  Inv'
  BY <1>5, GiveUpKeepsInv DEF Expire, AssemblyTimeout, Fail, Replaced
<1>6. ASSUME NEW e \in Ends, Disconnect(e) \/ Reconnect(e) PROVE Inv'
  BY <1>6, LinkKeepsInv
<1>7. ASSUME NEW e \in Ends, Lose(e) PROVE Inv'
  BY <1>7, LoseKeepsInv
<1>. QED
  BY <1>1, <1>2, <1>3, <1>4, <1>5, <1>6, <1>7 DEF Next

\* The inductive invariant: the counters of the two ends are ordered from the message
\* reserved down to the message acknowledged, and what is assembled, delivered or under
\* way agrees with them.
THEOREM Invariance == Spec => []Inv
<1>. QED
  BY InitInv, NextKeepsInv, PTL DEF Spec
\* The state of every end stays a state of its type, the fault it broke with included.
THEOREM TypeCorrect == Spec => []TypeOK
<1>1. Inv => TypeOK
  BY DEF Inv
<1>. QED
  BY <1>1, Invariance, PTL

\* A sender drops from its replay buffer only what was delivered at the other end.
THEOREM DropsAreDelivered == Spec => []AckedIsDelivered
<1>1. Inv => AckedIsDelivered
  <2>. SUFFICES ASSUME Inv, NEW e \in Ends
                PROVE  /\ acked[e] <= Len(delivered[Peer[e]])
                       /\ pendingAck[Peer[e]] <= Len(delivered[Peer[e]])
                       /\ \A i \in 1 .. Len(wire[Peer[e]]) :
                            wire[Peer[e]][i].type = "ack"
                              => wire[Peer[e]][i].msg <= Len(delivered[Peer[e]])
    BY DEF AckedIsDelivered
  <2>1. Peer[e] \in Ends /\ Order /\ InFlight
    BY PeerFacts DEF Inv
  <2>2. acked[e] <= Len(delivered[Peer[e]]) /\ pendingAck[Peer[e]] <= Len(delivered[Peer[e]])
    BY <2>1 DEF Order
  <2>3. wire[Peer[e]] \in Seq(PacketsOf(Peer[e], fullySent[Peer[e]], Len(delivered[Peer[e]])))
    BY <2>1 DEF InFlight
  <2>4. ASSUME NEW i \in 1 .. Len(wire[Peer[e]]), wire[Peer[e]][i].type = "ack"
        PROVE  wire[Peer[e]][i].msg <= Len(delivered[Peer[e]])
    <3>1. wire[Peer[e]][i] \in PacketsOf(Peer[e], fullySent[Peer[e]], Len(delivered[Peer[e]]))
      BY <2>3, ElementOfSeq
    <3>. QED
      BY <2>4, <3>1 DEF PacketsOf
  <2>. QED
    BY <2>2, <2>4
<1>. QED
  BY <1>1, Invariance, PTL

\* No end acknowledges what was not sent, so none breaks for that reason.
THEOREM AcksAreNeverEarly == Spec => []NoFutureAck
<1>1. Inv => NoFutureAck
  BY DEF Inv
<1>. QED
  BY <1>1, Invariance, PTL

-----------------------------------------------------------------------------
(* The bridge implements a reliable stream.                                 *)

streamVars == <<reserved, delivered, acked, [e \in Ends |-> fault[e] # "none"]>>

\* An end that degrades breaks its side of the stream.
LEMMA DegradeBreaks ==
  ASSUME Inv, NEW e \in Ends, Usable(e), NEW why \in Faults, Degrade(e, why)
  PROVE  Stream!Break(e)
<1>1. fault \in [Ends -> Faults \cup {"none"}] /\ why # "none"
  BY DEF Inv, TypeOK, Faults
<1>2. fault' = [fault EXCEPT ![e] = why] /\ UNCHANGED <<reserved, delivered, acked>>
  BY DEF Degrade
<1>3. ~[x \in Ends |-> fault[x] # "none"][e]
  BY DEF Usable
<1>4. [x \in Ends |-> fault'[x] # "none"]
        = [[x \in Ends |-> fault[x] # "none"] EXCEPT ![e] = TRUE]
  BY <1>1, <1>2
<1>. QED
  BY <1>2, <1>3, <1>4 DEF Stream!Break

LEMMA ReserveSends ==
  ASSUME Inv, NEW e \in Ends, Reserve(e)
  PROVE  Stream!Send(e) \/ Stream!Break(e)
<1>1. CASE Degrade(e, "other")
  <2>1. "other" \in Faults /\ Usable(e)
    BY DEF Faults, Reserve
  <2>. QED
    BY <1>1, <2>1, DegradeBreaks
<1>2. CASE ~Degrade(e, "other")
  <2>1. /\ reserved' = [reserved EXCEPT ![e] = reserved[e] + 1]
        /\ UNCHANGED <<acked, delivered, fault>> /\ Usable(e)
    BY <1>2 DEF Reserve, receiverVars
  <2>. QED
    BY <2>1 DEF Stream!Send, Usable
<1>. QED
  BY <1>1, <1>2

LEMMA ReplayStutters ==
  ASSUME NEW e \in Ends, Replay(e)
  PROVE  UNCHANGED streamVars
BY DEF Replay, streamVars, receiverVars

LEMMA CompleteDelivers ==
  ASSUME Inv, NEW e \in Ends, Usable(e), NEW f,
         f \in PacketsOf(Peer[e], fullySent[Peer[e]], Len(delivered[Peer[e]])), f.type = "frame",
         NEW after, Complete(e, f, after)
  PROVE  Stream!Deliver(e)
<1>1. /\ f.msg = Len(delivered[e]) + 1 /\ f.msg <= fullySent[Peer[e]]
      /\ Append(staged[e], f.seq) = Message[Peer[e]][f.msg]
  BY NextFrame, CompleteMessage DEF Complete
<1>2. /\ fullySent[Peer[e]] \in Nat /\ reserved[Peer[e]] \in Nat /\ Len(delivered[e]) \in Nat
      /\ fullySent[Peer[e]] <= reserved[Peer[e]]
  BY Counters, PeerFacts
<1>3. Len(delivered[e]) < reserved[Peer[e]]
  BY <1>1, <1>2
<1>4. /\ delivered' = [delivered EXCEPT ![e] = Append(delivered[e], Append(staged[e], f.seq))]
      /\ UNCHANGED <<reserved, acked, fault>>
  BY DEF Complete
<1>5. delivered' = [delivered EXCEPT
                      ![e] = Append(delivered[e], Message[Peer[e]][Len(delivered[e]) + 1])]
  BY <1>1, <1>4
<1>. QED
  BY <1>3, <1>4, <1>5 DEF Stream!Deliver, Usable

LEMMA ProcessAckConfirms ==
  ASSUME Inv, NEW e \in Ends, Usable(e), NEW k \in 1 .. Len(delivered[Peer[e]]), ProcessAck(e, k)
  PROVE  Stream!Confirm(e) \/ UNCHANGED streamVars
<1>1. /\ fullySent[e] \in Nat /\ acked[e] \in Nat /\ Len(delivered[Peer[e]]) \in Nat /\ k \in Nat
      /\ k <= fullySent[e] /\ k <= Len(delivered[Peer[e]])
  BY Counters
<1>2. CASE UNCHANGED <<senderVars, receiverVars, outVars, fault>>
  BY <1>2 DEF senderVars, receiverVars, streamVars
<1>3. CASE /\ acked[e] < k /\ acked' = [acked EXCEPT ![e] = k]
           /\ UNCHANGED <<reserved, receiverVars, fault>>
  <2>1. k \in acked[e] + 1 .. Len(delivered[Peer[e]])
    BY <1>1, <1>3
  <2>. QED
    BY <1>3, <2>1 DEF Stream!Confirm, receiverVars, Usable
<1>. QED
  BY <1>1, <1>2, <1>3 DEF ProcessAck

LEMMA ReceiveRefines ==
  ASSUME Inv, NEW e \in Ends, Receive(e)
  PROVE  Stream!Deliver(e) \/ Stream!Confirm(e) \/ Stream!Break(e) \/ UNCHANGED streamVars
<1>. DEFINE from == Peer[e]
            after == [wire EXCEPT ![from] = Tail(@)]
            p == Head(wire[from])
<1>1. wire[from] # <<>>
  BY DEF Receive
<1>2. p \in PacketsOf(from, fullySent[from], Len(delivered[from]))
  BY <1>1, TakePacket
<1>3. CASE UNCHANGED <<senderVars, receiverVars, fault>>
  BY <1>3 DEF senderVars, receiverVars, streamVars
<1>4. CASE Usable(e) /\ p.type = "ack" /\ ProcessAck(e, p.msg)
  <2>1. p.msg \in 1 .. Len(delivered[from])
    BY <1>2, <1>4 DEF PacketsOf
  <2>. HIDE DEF p
  <2>. QED
    BY <1>4, <2>1, ProcessAckConfirms
<1>5. CASE /\ Usable(e) /\ p.type = "frame"
           /\ Duplicate(e, p, after) \/ Gap(e, p, after) \/ Incomplete(e, p, after)
                \/ Complete(e, p, after)
  <2>. HIDE DEF p, after
  <2>1. CASE Duplicate(e, p, after)
    BY <2>1 DEF Duplicate, receiverVars, streamVars
  <2>2. CASE Gap(e, p, after)
    <3>1. "gap" \in Faults /\ Degrade(e, "gap")
      BY <2>2 DEF Gap, Faults
    <3>. QED
      BY <1>5, <3>1, DegradeBreaks
  <2>3. CASE Incomplete(e, p, after)
    BY <2>3 DEF Incomplete, senderVars, streamVars
  <2>4. CASE Complete(e, p, after)
    BY <1>2, <1>5, <2>4, CompleteDelivers
  <2>. QED
    BY <1>5, <2>1, <2>2, <2>3, <2>4
<1>. QED
  BY <1>3, <1>4, <1>5 DEF Receive

\* Every behaviour of the bridge, seen through the messages sent, delivered and dropped,
\* is one of a stream that delivers in order and once, whatever is cut, replayed, lost
\* or interrupted below.
THEOREM Refinement == Spec => ImplementsReliableStream
<1>1. Init => Stream!Init
  BY DEF Init, Stream!Init
<1>2. Inv /\ [Next]_vars => [Stream!Next]_streamVars
  <2>. SUFFICES ASSUME Inv, [Next]_vars PROVE [Stream!Next]_streamVars
    OBVIOUS
  <2>1. CASE UNCHANGED vars
    BY <2>1 DEF vars, senderVars, receiverVars, streamVars
  <2>2. ASSUME NEW e \in Ends, Reserve(e) PROVE Stream!Next
    BY <2>2, ReserveSends DEF Stream!Next
  <2>3. ASSUME NEW e \in Ends, SendReady(e) PROVE UNCHANGED streamVars
    BY <2>3, ReplayStutters DEF SendReady
  <2>4. ASSUME NEW e \in Ends, Receive(e) PROVE [Stream!Next]_streamVars
    BY <2>4, ReceiveRefines DEF Stream!Next
  <2>5. ASSUME NEW e \in Ends, Expire(e) \/ AssemblyTimeout(e) \/ Fail(e) \/ Replaced(e)
        PROVE  Stream!Next
    <3>1. Usable(e) /\ Degrade(e, "other") /\ "other" \in Faults
      BY <2>5 DEF Expire, AssemblyTimeout, Fail, Replaced, Faults
    <3>. QED
      BY <3>1, DegradeBreaks DEF Stream!Next
  <2>6. ASSUME NEW e \in Ends, Disconnect(e) PROVE UNCHANGED streamVars
    BY <2>6 DEF Disconnect, senderVars, receiverVars, streamVars
  <2>7. ASSUME NEW e \in Ends, Reconnect(e) PROVE UNCHANGED streamVars
    BY <2>7, ReplayStutters DEF Reconnect, senderVars, receiverVars, streamVars
  <2>8. ASSUME NEW e \in Ends, Lose(e) PROVE UNCHANGED streamVars
    BY <2>8 DEF Lose, senderVars, receiverVars, streamVars
  <2>. QED
    BY <2>1, <2>2, <2>3, <2>4, <2>5, <2>6, <2>7, <2>8 DEF Next
<1>. QED
  BY <1>1, <1>2, Invariance, PTL DEF Spec, Stream!Spec, ImplementsReliableStream, streamVars
-----------------------------------------------------------------------------
(* Flow control.                                                            *)

\* A backlog grows with what is reserved and shrinks with what is acknowledged.
LEMMA BacklogMonotone ==
  ASSUME NEW e \in Ends, NEW k \in Nat, NEW kk \in Nat, NEW n \in Nat, NEW nn \in Nat,
         k <= kk, kk <= n, n <= nn, nn <= N[e]
  PROVE  /\ Backlog(e, n, k) \in Int /\ Backlog(e, nn, k) \in Int /\ Backlog(e, n, kk) \in Int
         /\ Backlog(e, n, k) <= Backlog(e, nn, k)
         /\ Backlog(e, n, kk) <= Backlog(e, n, k)
<1>0. N[e] \in Nat
  BY Cut
<1>1. First[e][k + 1] \in Nat /\ First[e][kk + 1] \in Nat /\ First[e][k + 1] <= First[e][kk + 1]
  <2>1. kk <= N[e]
    BY <1>0
  <2>. QED
    BY <2>1, CutMonotone
<1>2. First[e][n + 1] \in Nat /\ First[e][nn + 1] \in Nat /\ First[e][n + 1] <= First[e][nn + 1]
  BY <1>0, CutMonotone
<1>. QED
  BY <1>1, <1>2 DEF Backlog

LEMMA FlowStep ==
  ASSUME Inv, FlowFollowsBacklog, [Next]_vars
  PROVE  FlowFollowsBacklog'
<1>. DEFINE Flow(x) == Usable(x) =>
              /\ saturated[x] => Backlog(x, reserved[x], acked[x]) > Low
              /\ ~saturated[x] => Backlog(x, reserved[x], acked[x]) <= High
<1>0. /\ Low \in Nat /\ High \in Nat /\ Low <= High
      /\ saturated \in [Ends -> BOOLEAN] /\ reserved \in [Ends -> Nat] /\ acked \in [Ends -> Nat]
      /\ fault \in [Ends -> Faults \cup {"none"}]
  BY BoundsAreNatural, WaterMarks DEF Inv, TypeOK
<1>1. ASSUME UNCHANGED <<reserved, acked, saturated, fault>>
      PROVE  FlowFollowsBacklog'
  BY <1>1 DEF FlowFollowsBacklog, Usable, Backlog
<1>2. ASSUME NEW e \in Ends, NEW why \in Faults, Degrade(e, why)
      PROVE  FlowFollowsBacklog'
  BY <1>0, <1>2 DEF FlowFollowsBacklog, Usable, Backlog, Degrade, Faults
<1>3. ASSUME NEW e \in Ends, Reserve(e)
      PROVE  FlowFollowsBacklog'
  <2>. DEFINE n == reserved[e] + 1
  <2>1. CASE Degrade(e, "other")
    BY <1>2, <2>1 DEF Faults
  <2>2. CASE ~Degrade(e, "other")
    <3>1. /\ n <= N[e] /\ Usable(e) /\ reserved' = [reserved EXCEPT ![e] = n]
          /\ saturated' = [saturated EXCEPT ![e] = saturated[e] \/ Backlog(e, n, acked[e]) > High]
          /\ UNCHANGED <<acked, fault>>
      BY <1>3, <2>2 DEF Reserve
    <3>2. reserved[e] \in Nat /\ acked[e] \in Nat /\ acked[e] <= reserved[e] /\ N[e] \in Nat
      BY Counters
    <3>3. /\ Backlog(e, reserved[e], acked[e]) \in Int /\ Backlog(e, n, acked[e]) \in Int
          /\ Backlog(e, reserved[e], acked[e]) <= Backlog(e, n, acked[e])
      BY <3>1, <3>2, BacklogMonotone
    <3>4. Flow(e)
      BY DEF FlowFollowsBacklog
    <3>5. /\ saturated[e] => Backlog(e, n, acked[e]) > Low
          /\ Backlog(e, n, acked[e]) > High => Backlog(e, n, acked[e]) > Low
      BY <1>0, <3>1, <3>3, <3>4
    <3>6. /\ reserved'[e] = n /\ acked'[e] = acked[e]
          /\ saturated'[e] = (saturated[e] \/ Backlog(e, n, acked[e]) > High)
      BY <1>0, <3>1
    <3>7. Flow(e)'
      <4>1. saturated'[e] => Backlog(e, n, acked[e]) > Low
        BY <3>5, <3>6
      <4>2. ~saturated'[e] => Backlog(e, n, acked[e]) <= High
        <5>1. ~saturated'[e] => ~(Backlog(e, n, acked[e]) > High)
          BY <3>6
        <5>2. ~(Backlog(e, n, acked[e]) > High) => Backlog(e, n, acked[e]) <= High
          BY <1>0, <3>3
        <5>. QED
          BY <5>1, <5>2
      <4>3. Backlog(e, reserved[e], acked[e])' = Backlog(e, n, acked[e])
        BY <3>6 DEF Backlog
      <4>. QED
        BY <4>1, <4>2, <4>3
    <3>8. ASSUME NEW x \in Ends, x # e PROVE Flow(x)'
      BY <1>0, <3>1, <3>8 DEF FlowFollowsBacklog, Usable, Backlog
    <3>. QED
      BY <3>7, <3>8 DEF FlowFollowsBacklog
  <2>. QED
    BY <2>1, <2>2
<1>4. ASSUME NEW e \in Ends, NEW k \in 1 .. Len(delivered[Peer[e]]), ProcessAck(e, k)
      PROVE  FlowFollowsBacklog'
  <2>1. /\ fullySent[e] \in Nat /\ reserved[e] \in Nat /\ N[e] \in Nat /\ acked[e] \in Nat
        /\ Len(delivered[Peer[e]]) \in Nat /\ k \in Nat
        /\ k <= fullySent[e] /\ k <= reserved[e] /\ reserved[e] <= N[e] /\ reserved[e] <= reserved[e]
    BY Counters
  <2>2. CASE k <= acked[e]
    BY <1>1, <1>4, <2>1, <2>2 DEF ProcessAck, senderVars
  <2>3. CASE acked[e] < k
    <3>1. /\ acked' = [acked EXCEPT ![e] = k]
          /\ saturated' = [saturated EXCEPT ![e] = saturated[e] /\ ~Drained(e, k)]
          /\ UNCHANGED <<reserved, fault>>
      BY <1>4, <2>1, <2>3 DEF ProcessAck
    <3>2. /\ Backlog(e, reserved[e], acked[e]) \in Int /\ Backlog(e, reserved[e], k) \in Int
          /\ Backlog(e, reserved[e], k) <= Backlog(e, reserved[e], acked[e])
      <4>1. acked[e] <= k
        BY <2>1, <2>3
      <4>. QED
        BY <2>1, <4>1, BacklogMonotone
    <3>3. /\ reserved'[e] = reserved[e] /\ acked'[e] = k
          /\ saturated'[e] = (saturated[e] /\ ~Drained(e, k))
      BY <1>0, <3>1
    <3>4. ASSUME Usable(e) PROVE Flow(e)'
      <4>1. ~saturated[e] => Backlog(e, reserved[e], acked[e]) <= High
        BY <3>4 DEF FlowFollowsBacklog
      <4>2. saturated'[e] => Backlog(e, reserved[e], k) > Low
        <5>1. saturated'[e] => ~Drained(e, k)
          BY <3>3
        <5>2. ~Drained(e, k) => Backlog(e, reserved[e], k) > Low
          BY <1>0, <3>2 DEF Drained
        <5>. QED
          BY <5>1, <5>2
      <4>3. ~saturated'[e] => Backlog(e, reserved[e], k) <= High
        <5>1. Drained(e, k) => Backlog(e, reserved[e], k) <= High
          BY <1>0, <3>2 DEF Drained
        <5>2. ~saturated[e] => Backlog(e, reserved[e], k) <= High
          BY <1>0, <3>2, <4>1
        <5>. QED
          BY <3>3, <5>1, <5>2
      <4>4. Backlog(e, reserved[e], acked[e])' = Backlog(e, reserved[e], k)
        BY <3>3 DEF Backlog
      <4>. QED
        BY <4>2, <4>3, <4>4
    <3>5. ASSUME ~Usable(e) PROVE Flow(e)'
      BY <3>1, <3>5 DEF Usable
    <3>6. ASSUME NEW x \in Ends, x # e PROVE Flow(x)'
      BY <1>0, <3>1, <3>6 DEF FlowFollowsBacklog, Usable, Backlog
    <3>. QED
      BY <3>4, <3>5, <3>6 DEF FlowFollowsBacklog
  <2>. QED
    BY <2>1, <2>2, <2>3
<1>5. ASSUME NEW e \in Ends, Receive(e)
      PROVE  FlowFollowsBacklog'
  <2>. DEFINE from == Peer[e]
              after == [wire EXCEPT ![from] = Tail(@)]
              p == Head(wire[from])
  <2>1. p \in PacketsOf(from, fullySent[from], Len(delivered[from]))
    BY <1>5, TakePacket DEF Receive
  <2>2. CASE UNCHANGED <<senderVars, receiverVars, outVars, fault>>
    BY <1>1, <2>2 DEF senderVars
  <2>3. CASE p.type = "ack" /\ ProcessAck(e, p.msg)
    <3>1. p.msg \in 1 .. Len(delivered[from])
      BY <2>1, <2>3 DEF PacketsOf
    <3>. HIDE DEF p
    <3>. QED
      BY <1>4, <2>3, <3>1
  <2>4. CASE Duplicate(e, p, after) \/ Gap(e, p, after) \/ Incomplete(e, p, after)
               \/ Complete(e, p, after)
    <3>. HIDE DEF p, after
    <3>1. CASE Gap(e, p, after)
      BY <1>2, <3>1 DEF Gap, Faults
    <3>2. CASE Duplicate(e, p, after) \/ Incomplete(e, p, after) \/ Complete(e, p, after)
      BY <1>1, <3>2 DEF Duplicate, Incomplete, Complete, senderVars
    <3>. QED
      BY <2>4, <3>1, <3>2
  <2>. QED
    BY <1>5, <2>2, <2>3, <2>4 DEF Receive
<1>6. ASSUME NEW e \in Ends,
             \/ SendReady(e) \/ Disconnect(e) \/ Reconnect(e) \/ Lose(e)
      PROVE  FlowFollowsBacklog'
  BY <1>1, <1>6 DEF SendReady, Disconnect, Reconnect, Lose, Replay, senderVars
<1>7. ASSUME NEW e \in Ends, Expire(e) \/ AssemblyTimeout(e) \/ Fail(e) \/ Replaced(e)
      PROVE  FlowFollowsBacklog'
  BY <1>2, <1>7 DEF Expire, AssemblyTimeout, Fail, Replaced, Faults
<1>. QED
  BY <1>1, <1>3, <1>5, <1>6, <1>7 DEF Next, vars, senderVars

\* An end is paused while its backlog is above the high mark, and never left paused once
\* the backlog is down to the low one.
THEOREM PausedOnlyWithBacklog == Spec => []FlowFollowsBacklog
<1>1. Init => FlowFollowsBacklog
  <2>. SUFFICES ASSUME Init, NEW e \in Ends
                PROVE  ~saturated[e] /\ Backlog(e, reserved[e], acked[e]) <= High
    BY DEF FlowFollowsBacklog
  <2>1. ~saturated[e] /\ reserved[e] = 0 /\ acked[e] = 0
    BY DEF Init
  <2>2. First[e][0 + 1] \in Nat /\ High \in Nat
    <3>1. N[e] \in Nat
      BY Cut
    <3>2. First[e][0 + 1] \in Nat
      BY <3>1, CutMonotone
    <3>. QED
      BY <3>2, BoundsAreNatural
  <2>. QED
    BY <2>1, <2>2 DEF Backlog
<1>2. Inv /\ FlowFollowsBacklog /\ [Next]_vars => FlowFollowsBacklog'
  BY FlowStep
<1>. QED
  BY <1>1, <1>2, Invariance, PTL DEF Spec
-----------------------------------------------------------------------------
(* Only the relay loses an acknowledgement.                                 *)

UnderWay(s, k) == \E i \in 1 .. Len(s) : s[i] = AckOf(k)

\* The acknowledgement of the last message of e that was delivered.
Kept(e) ==
  LET done == Len(delivered[Peer[e]])
  IN \/ acked[e] = done
     \/ pendingAck[Peer[e]] = done
     \/ UnderWay(wire[Peer[e]], done)

LEMMA KeptIsKept ==
  AckIsKept <=> (losses = 0 => \A e \in Ends : Usable(e) /\ Usable(Peer[e]) => Kept(e))
BY DEF AckIsKept, Kept, UnderWay

LEMMA UnderWayBoth ==
  ASSUME NEW s \in Seq(Packets), NEW t \in Seq(Packets), NEW k,
         UnderWay(s, k) \/ UnderWay(t, k)
  PROVE  UnderWay(s \o t, k)
<1>1. /\ Len(s) \in Nat /\ Len(t) \in Nat /\ Len(s \o t) = Len(s) + Len(t)
      /\ \A i \in 1 .. Len(s) : (s \o t)[i] = s[i]
      /\ \A i \in 1 .. Len(t) : (s \o t)[Len(s) + i] = t[i]
  BY ConcatProperties, LenProperties
<1>2. ASSUME NEW i \in 1 .. Len(s), s[i] = AckOf(k) PROVE UnderWay(s \o t, k)
  <2>1. i \in 1 .. Len(s \o t)
    BY <1>1
  <2>. QED
    BY <1>1, <1>2, <2>1 DEF UnderWay
<1>3. ASSUME NEW i \in 1 .. Len(t), t[i] = AckOf(k) PROVE UnderWay(s \o t, k)
  <2>1. Len(s) + i \in 1 .. Len(s \o t)
    BY <1>1
  <2>. QED
    BY <1>1, <1>3, <2>1 DEF UnderWay
<1>. QED
  BY <1>2, <1>3 DEF UnderWay

LEMMA UnderWayTail ==
  ASSUME NEW s \in Seq(Packets), s # <<>>, NEW k, UnderWay(s, k)
  PROVE  Head(s) = AckOf(k) \/ UnderWay(Tail(s), k)
<1>1. PICK i \in 1 .. Len(s) : s[i] = AckOf(k)
  BY DEF UnderWay
<1>2. /\ Len(s) \in Nat /\ Head(s) = s[1] /\ Len(Tail(s)) = Len(s) - 1
      /\ \A j \in 1 .. Len(Tail(s)) : Tail(s)[j] = s[j + 1]
  BY HeadTailProperties, LenProperties
<1>3. CASE i = 1
  BY <1>1, <1>2, <1>3
<1>4. CASE i # 1
  <2>1. i - 1 \in 1 .. Len(Tail(s)) /\ (i - 1) + 1 = i
    BY <1>2, <1>4
  <2>2. Tail(s)[i - 1] = s[(i - 1) + 1]
    BY <1>2, <2>1
  <2>. QED
    BY <1>1, <2>1, <2>2 DEF UnderWay
<1>. QED
  BY <1>3, <1>4

\* e has sent what it has to acknowledge, k, or keeps it, and the acknowledgements among
\* after stay; the other direction is as it was.
Acknowledges(e, k, after) ==
  /\ wire'[Peer[e]] = after[Peer[e]]
  /\ pendingAck'[Peer[e]] = pendingAck[Peer[e]]
  /\ \A m \in Nat \ {0} : m = k \/ UnderWay(after[e], m) =>
       pendingAck'[e] = m \/ UnderWay(wire'[e], m)

\* A flush sends the pending acknowledgement or keeps it.
LEMMA FlushKeepsAck ==
  ASSUME Inv, NEW e \in Ends, NEW n \in 0 .. N[e], NEW k \in Nat,
         NEW p \in Nat, 1 <= p, NEW after \in [Ends -> Seq(Packets)],
         Flush(e, n, k, p, after)
  PROVE  Acknowledges(e, k, after)
<1>. DEFINE q == First[e][n + 1]
            burst == Burst(e, k, p, q)
            frames == FramesFrom(e, p, q)
<1>1. Peer[e] \in Ends /\ Peer[e] # e /\ pendingAck \in [Ends -> Nat] /\ n \in Nat
  BY PeerFacts DEF Inv, TypeOK
<1>2. frames \in Seq(Packets)
  BY FramesAreSound, PacketsGrow
<1>3. burst \in Seq(Packets)
  <2>1. k \in 0 .. k
    OBVIOUS
  <2>. QED
    BY <2>1, BurstIsSound, PacketsGrow
<1>4. k # 0 => UnderWay(burst, k)
  <2>. SUFFICES ASSUME k # 0 PROVE UnderWay(burst, k)
    OBVIOUS
  <2>1. AckOf(k) \in Packets
    BY DEF AckOf, Packets
  <2>2. <<AckOf(k)>> \in Seq(Packets) /\ Len(<<AckOf(k)>>) = 1 /\ <<AckOf(k)>>[1] = AckOf(k)
    BY <2>1
  <2>3. UnderWay(<<AckOf(k)>>, k)
    BY <2>2 DEF UnderWay
  <2>4. burst = <<AckOf(k)>> \o frames
    BY DEF Burst, FramesFrom
  <2>. HIDE DEF burst, frames
  <2>. QED
    BY <1>2, <2>2, <2>3, <2>4, UnderWayBoth
<1>. HIDE DEF burst, frames
<1>5. CASE up'[e]
  <2>1. wire' = [after EXCEPT ![e] = after[e] \o burst] /\ pendingAck' = [pendingAck EXCEPT ![e] = 0]
    BY <1>5 DEF Flush, burst
  <2>2. wire'[e] = after[e] \o burst /\ wire'[Peer[e]] = after[Peer[e]]
    BY <1>1, <2>1
  <2>3. after[e] \in Seq(Packets)
    OBVIOUS
  <2>4. ASSUME NEW m \in Nat \ {0}, m = k \/ UnderWay(after[e], m)
        PROVE  UnderWay(wire'[e], m)
    <3>1. UnderWay(after[e], m) \/ UnderWay(burst, m)
      BY <1>4, <2>4
    <3>2. UnderWay(after[e] \o burst, m)
      BY <1>3, <2>3, <3>1, UnderWayBoth
    <3>. QED
      BY <2>2, <3>2
  <2>5. pendingAck'[Peer[e]] = pendingAck[Peer[e]]
    BY <1>1, <2>1
  <2>. QED
    BY <2>2, <2>4, <2>5 DEF Acknowledges
<1>6. CASE ~up'[e]
  BY <1>1, <1>6 DEF Flush, Acknowledges
<1>. QED
  BY <1>5, <1>6

\* Receiving and sending at e, where pending is what it has to acknowledge.
LEMMA FlushKeeps ==
  ASSUME Inv, Inv', NEW e \in Ends, Kept(e), Kept(Peer[e]),
         NEW n \in 0 .. N[e], NEW k \in 0 .. Len(delivered'[e]), NEW p \in Nat, 1 <= p,
         NEW after \in [Ends -> Seq(Packets)],
         Flush(e, n, k, p, after),
         acked' = acked, delivered'[Peer[e]] = delivered[Peer[e]],
         after[e] = wire[e],
         \A m : UnderWay(wire[Peer[e]], m) => UnderWay(after[Peer[e]], m),
         \/ k = Len(delivered'[e])
         \/ delivered'[e] = delivered[e] /\ k = pendingAck[e]
  PROVE  Kept(e)' /\ Kept(Peer[e])'
<1>. DEFINE done == Len(delivered'[e])
<1>1. Peer[e] \in Ends /\ Peer[Peer[e]] = e
  BY PeerFacts
<1>2. done \in Nat /\ acked[Peer[e]] \in Nat /\ acked[Peer[e]] <= done
  <2>1. delivered' \in [Ends -> Seq(Seq(Nat))] /\ acked \in [Ends -> Nat] /\ Order'
    BY DEF Inv, TypeOK
  <2>2. acked'[Peer[e]] <= Len(delivered'[Peer[Peer[e]]])
    BY <1>1, <2>1 DEF Order
  <2>. QED
    BY <1>1, <2>1, <2>2, LenProperties
<1>3. /\ wire'[Peer[e]] = after[Peer[e]] /\ pendingAck'[Peer[e]] = pendingAck[Peer[e]]
      /\ \A m \in Nat \ {0} : m = k \/ UnderWay(after[e], m) =>
           pendingAck'[e] = m \/ UnderWay(wire'[e], m)
  <2>1. k \in Nat
    BY <1>2
  <2>2. Acknowledges(e, k, after)
    BY <2>1, FlushKeepsAck
  <2>. QED
    BY <2>2 DEF Acknowledges
<1>4. Kept(e)'
  BY <1>1, <1>3 DEF Kept
<1>5. Kept(Peer[e])'
  <2>1. CASE done = 0
    <3>1. acked'[Peer[e]] = done
      BY <1>2, <2>1
    <3>. QED
      BY <1>1, <3>1 DEF Kept
  <2>2. CASE done # 0
    <3>1. \/ acked[Peer[e]] = done
          \/ k = done \/ UnderWay(after[e], done)
      BY <1>1 DEF Kept
    <3>. QED
      BY <1>1, <1>2, <1>3, <2>2, <3>1 DEF Kept
  <2>. QED
    BY <2>1, <2>2
<1>. QED
  BY <1>4, <1>5

\* A frame leaves the wire, and the acknowledgements stay.
LEMMA FrameTaken ==
  ASSUME Inv, NEW e \in Ends, wire[Peer[e]] # <<>>, Head(wire[Peer[e]]).type = "frame", NEW m
  PROVE  UnderWay(wire[Peer[e]], m) => UnderWay(Tail(wire[Peer[e]]), m)
<1>1. wire[Peer[e]] \in Seq(Packets)
  BY PeerFacts DEF Inv, TypeOK
<1>2. Head(wire[Peer[e]]) # AckOf(m)
  BY DEF AckOf
<1>. QED
  BY <1>1, <1>2, UnderWayTail

LEMMA ReceiveKeepsAck ==
  ASSUME Inv, Inv', NEW e \in Ends, Receive(e), Usable(e), Usable(e)', Kept(e), Kept(Peer[e])
  PROVE  Kept(e)' /\ Kept(Peer[e])'
<1>. DEFINE from == Peer[e]
            after == [wire EXCEPT ![from] = Tail(@)]
            p == Head(wire[from])
<1>1. /\ from \in Ends /\ from # e /\ Peer[from] = e
      /\ wire \in [Ends -> Seq(Packets)] /\ wire[from] # <<>> /\ wire[from] \in Seq(Packets)
      /\ fault \in [Ends -> Faults \cup {"none"}] /\ acked \in [Ends -> Nat]
  BY PeerFacts DEF Receive, Inv, TypeOK
<1>2. /\ p \in PacketsOf(from, fullySent[from], Len(delivered[from]))
      /\ after \in [Ends -> Seq(Packets)]
  BY <1>1, TakePacket
<1>3. after[e] = wire[e] /\ after[from] = Tail(wire[from])
  BY <1>1
<1>4. CASE p.type = "ack" /\ ProcessAck(e, p.msg) /\ wire' = after
  <2>. DEFINE k == p.msg
              done == Len(delivered[from])
  <2>1. /\ k \in 1 .. done /\ done \in Nat /\ acked[e] \in Nat /\ acked[e] <= done
        /\ fullySent[e] \in Nat /\ done <= fullySent[e]
    BY <1>2, <1>4, Counters DEF PacketsOf
  <2>2. UNCHANGED <<delivered, pendingAck>> /\ acked'[from] = acked[from]
        /\ \/ k <= acked[e] /\ acked'[e] = acked[e]
           \/ acked[e] < k /\ acked'[e] = k
    <3>. HIDE DEF p, after, k, done
    <3>1. ProcessAck(e, k)
      BY <1>4 DEF k
    <3>2. k \in Nat /\ k <= fullySent[e]
      BY <2>1
    <3>3. CASE k <= acked[e] /\ UNCHANGED <<senderVars, receiverVars, outVars, fault>>
      BY <3>3 DEF senderVars, receiverVars, outVars
    <3>4. CASE /\ acked[e] < k /\ acked' = [acked EXCEPT ![e] = k]
               /\ UNCHANGED <<receiverVars, pendingAck>>
      <4>1. acked'[e] = k /\ acked'[from] = acked[from]
        BY <1>1, <3>4
      <4>. QED
        BY <3>4, <4>1 DEF receiverVars
    <3>5. ~(acked[e] < k /\ fullySent[e] < k)
      BY <2>1, <3>2
    <3>. QED
      BY <3>1, <3>3, <3>4, <3>5 DEF ProcessAck
  <2>3. Kept(from)'
    <3>1. wire'[e] = wire[e] /\ delivered' = delivered /\ pendingAck' = pendingAck
      BY <1>3, <1>4, <2>2
    <3>2. acked'[from] = acked[from] /\ Peer[from] = e
      BY <1>1, <2>2
    <3>. HIDE DEF p, after, k, done
    <3>. QED
      BY <3>1, <3>2 DEF Kept
  <2>4. Kept(e)'
    <3>1. CASE acked[e] = done
      BY <2>1, <2>2, <3>1 DEF Kept
    <3>2. CASE pendingAck[from] = done
      BY <2>2, <3>2 DEF Kept
    <3>3. CASE UnderWay(wire[from], done)
      <4>1. CASE UnderWay(Tail(wire[from]), done)
        BY <1>3, <1>4, <2>2, <4>1 DEF Kept
      <4>2. CASE p = AckOf(done)
        <5>1. k = done
          BY <4>2 DEF AckOf
        <5>. QED
          BY <2>1, <2>2, <5>1 DEF Kept
      <4>. QED
        BY <1>1, <3>3, <4>1, <4>2, UnderWayTail
    <3>. QED
      BY <3>1, <3>2, <3>3 DEF Kept
  <2>. QED
    BY <2>3, <2>4
<1>5. CASE /\ p.type = "frame"
           /\ Duplicate(e, p, after) \/ Gap(e, p, after) \/ Incomplete(e, p, after)
                \/ Complete(e, p, after)
  <2>1. \A m : UnderWay(wire[from], m) => UnderWay(after[from], m)
    BY <1>1, <1>3, <1>5, FrameTaken
  <2>2. /\ reserved[e] \in 0 .. N[e] /\ cursor[e] \in Nat /\ 1 <= cursor[e]
        /\ pendingAck[e] \in Nat /\ Len(delivered[e]) \in Nat
        /\ pendingAck[e] <= Len(delivered[e])
        /\ delivered \in [Ends -> Seq(Seq(Nat))]
    <3>1. delivered \in [Ends -> Seq(Seq(Nat))]
      BY DEF Inv, TypeOK
    <3>2. reserved[e] \in Nat /\ N[e] \in Nat /\ reserved[e] <= N[e]
      BY Counters
    <3>3. /\ cursor[e] \in Nat /\ 1 <= cursor[e] /\ pendingAck[e] \in Nat
          /\ Len(delivered[e]) \in Nat /\ pendingAck[e] <= Len(delivered[e])
      BY Counters
    <3>. QED
      BY <3>1, <3>2, <3>3
  <2>. HIDE DEF p, after
  <2>3. CASE Gap(e, p, after)
    <3>1. fault'[e] = "gap"
      BY <1>1, <2>3 DEF Gap, Degrade
    <3>. QED
      BY <3>1 DEF Usable
  <2>4. CASE wire' = after /\ UNCHANGED <<acked, delivered, pendingAck>>
    BY <1>1, <1>3, <2>1, <2>4 DEF Kept
  <2>5. CASE Duplicate(e, p, after) /\ Reack(e) # 0
    <3>1. /\ Flush(e, reserved[e], Greater(pendingAck[e], Len(delivered[e])), cursor[e], after)
          /\ UNCHANGED <<acked, delivered>>
      BY <2>5 DEF Duplicate, QueueAck, Reack, receiverVars
    <3>2. Greater(pendingAck[e], Len(delivered[e])) = Len(delivered[e])
      BY <2>2 DEF Greater
    <3>3. Len(delivered[e]) \in 0 .. Len(delivered'[e])
      BY <2>2, <3>1
    <3>. QED
      BY <1>2, <1>3, <2>1, <2>2, <3>1, <3>2, <3>3, FlushKeeps
  <2>6. CASE Complete(e, p, after)
    <3>1. /\ Flush(e, reserved[e], Greater(pendingAck[e], p.msg), cursor[e], after)
          /\ acked' = acked /\ p.msg = Len(delivered[e]) + 1
          /\ delivered' = [delivered EXCEPT ![e] = Append(delivered[e], Append(staged[e], p.seq))]
      BY <2>6 DEF Complete, QueueAck, InSequence
    <3>2. delivered'[from] = delivered[from] /\ Len(delivered'[e]) = Len(delivered[e]) + 1
      <4>1. delivered'[e] = Append(delivered[e], Append(staged[e], p.seq)) /\ delivered'[from] = delivered[from]
        BY <1>1, <2>2, <3>1
      <4>2. Len(Append(delivered[e], Append(staged[e], p.seq))) = Len(delivered[e]) + 1
        BY <2>2
      <4>. QED
        BY <4>1, <4>2
    <3>3. Greater(pendingAck[e], p.msg) = Len(delivered'[e])
      BY <2>2, <3>1, <3>2 DEF Greater
    <3>4. Len(delivered'[e]) \in 0 .. Len(delivered'[e])
      BY <2>2, <3>2
    <3>. QED
      BY <1>2, <1>3, <2>1, <2>2, <3>1, <3>2, <3>3, <3>4, FlushKeeps
  <2>. QED
    BY <1>5, <2>3, <2>4, <2>5, <2>6 DEF Duplicate, Incomplete, receiverVars, senderVars, outVars
<1>. QED
  BY <1>4, <1>5 DEF Receive

LEMMA AckStep ==
  ASSUME Inv, Inv', AckIsKept, [Next]_vars
  PROVE  AckIsKept'
<1>1. AckIsKept' <=>
        (losses' = 0 => \A x \in Ends : Usable(x)' /\ Usable(Peer[x])' => Kept(x)')
  BY DEF AckIsKept, Kept, UnderWay, Usable
<1>2. fault \in [Ends -> Faults \cup {"none"}] /\ losses \in Nat
  BY BoundsAreNatural DEF Inv, TypeOK
\* A step of e leaves the bridge broken, or keeps the acknowledgements of both ends.
<1>3. ASSUME NEW e \in Ends, ~Usable(e)' \/ ~Usable(Peer[e])' \/ (Kept(e)' /\ Kept(Peer[e])')
      PROVE  AckIsKept'
  <2>1. \A x \in Ends : Usable(x)' /\ Usable(Peer[x])' => Kept(x)'
    <3>1. Peer[Peer[e]] = e /\ \A x \in Ends : x = e \/ x = Peer[e]
      BY PeerFacts
    <3>. QED
      BY <1>3, <3>1
  <2>. QED
    BY <1>1, <2>1
<1>4. CASE UNCHANGED <<acked, delivered, pendingAck, wire, fault, losses>>
  BY <1>4 DEF AckIsKept, Usable
<1>5. ASSUME NEW e \in Ends, NEW why \in Faults, Degrade(e, why)
      PROVE  AckIsKept'
  <2>1. ~Usable(e)'
    BY <1>2, <1>5 DEF Degrade, Usable, Faults
  <2>. QED
    BY <1>3, <2>1
\* The ends are kept unless the bridge is broken already or something was lost.
<1>6. ASSUME NEW e \in Ends, losses = 0, Usable(e), Usable(Peer[e])
      PROVE  Kept(e) /\ Kept(Peer[e])
  <2>1. Peer[e] \in Ends /\ Peer[Peer[e]] = e
    BY PeerFacts
  <2>. QED
    BY <1>6, <2>1, KeptIsKept
\* A flush of what is pending.
<1>7. ASSUME NEW e \in Ends, NEW n \in 0 .. N[e], NEW p \in Nat, 1 <= p,
             Flush(e, n, pendingAck[e], p, wire), UNCHANGED <<acked, delivered, fault, losses>>
      PROVE  AckIsKept'
  <2>1. CASE losses = 0 /\ Usable(e) /\ Usable(Peer[e])
    <3>1. Kept(e) /\ Kept(Peer[e])
      BY <1>6, <2>1
    <3>2. pendingAck[e] \in 0 .. Len(delivered'[e]) /\ wire \in [Ends -> Seq(Packets)]
      <4>1. pendingAck[e] \in Nat /\ Len(delivered[e]) \in Nat /\ pendingAck[e] <= Len(delivered[e])
        BY Counters
      <4>. QED
        BY <1>7, <4>1 DEF Inv, TypeOK
    <3>3. Kept(e)' /\ Kept(Peer[e])'
      BY <1>7, <3>1, <3>2, FlushKeeps
    <3>. QED
      BY <1>3, <3>3
  <2>2. CASE losses # 0
    BY <1>1, <1>7, <2>2
  <2>3. CASE ~Usable(e) \/ ~Usable(Peer[e])
    <3>1. ~Usable(e)' \/ ~Usable(Peer[e])'
      BY <1>7, <2>3 DEF Usable
    <3>. QED
      BY <1>3, <3>1
  <2>. QED
    BY <2>1, <2>2, <2>3
<1>8. ASSUME NEW e \in Ends, Reserve(e)
      PROVE  AckIsKept'
  <2>1. CASE Degrade(e, "other")
    BY <1>5, <2>1 DEF Faults
  <2>2. CASE ~Degrade(e, "other")
    <3>1. /\ reserved[e] + 1 <= N[e]
          /\ Flush(e, reserved[e] + 1, pendingAck[e], cursor[e], wire)
          /\ UNCHANGED <<acked, delivered, fault, losses>>
      BY <1>8, <2>2 DEF Reserve, receiverVars, linkVars
    <3>2. reserved[e] \in Nat /\ N[e] \in Nat /\ cursor[e] \in Nat /\ 1 <= cursor[e]
      BY Counters
    <3>3. reserved[e] + 1 \in 0 .. N[e]
      BY <3>1, <3>2
    <3>. QED
      BY <1>7, <3>1, <3>2, <3>3
  <2>. QED
    BY <2>1, <2>2
<1>9. ASSUME NEW e \in Ends, Replay(e), UNCHANGED losses
      PROVE  AckIsKept'
  <2>1. reserved[e] \in Nat /\ N[e] \in Nat /\ reserved[e] <= N[e] /\ acked[e] \in Nat
        /\ acked[e] <= N[e]
    BY Counters
  <2>2. ReplayFrom(e) \in Nat /\ 1 <= ReplayFrom(e)
    BY <2>1, CutMonotone DEF ReplayFrom
  <2>3. reserved[e] \in 0 .. N[e]
    BY <2>1
  <2>. QED
    BY <1>7, <1>9, <2>2, <2>3 DEF Replay, receiverVars
<1>10. ASSUME NEW e \in Ends, Receive(e)
       PROVE  AckIsKept'
  <2>0. losses' = losses
    BY <1>10 DEF Receive, linkVars
  <2>1. CASE losses # 0
    BY <1>1, <2>0, <2>1
  <2>2. CASE ~Usable(e)
    <3>1. ~Usable(e)'
      BY <1>10, <2>2 DEF Receive, Usable
    <3>. QED
      BY <1>3, <3>1
  <2>3. CASE ~Usable(e)'
    BY <1>3, <2>3
  <2>4. CASE ~Usable(Peer[e])
    <3>1. ~Usable(Peer[e])'
      <4>1. fault' = fault \/ \E why \in Faults : fault' = [fault EXCEPT ![e] = why]
        BY <1>10 DEF Receive, ProcessAck, Duplicate, Gap, Incomplete, Complete, Degrade, Faults
      <4>2. Peer[e] \in Ends /\ Peer[e] # e
        BY PeerFacts
      <4>. QED
        BY <1>2, <2>4, <4>1, <4>2 DEF Usable
    <3>. QED
      BY <1>3, <3>1
  <2>5. CASE losses = 0 /\ Usable(e) /\ Usable(e)' /\ Usable(Peer[e])
    <3>1. Kept(e) /\ Kept(Peer[e])
      BY <1>6, <2>5
    <3>2. Kept(e)' /\ Kept(Peer[e])'
      BY <1>10, <2>5, <3>1, ReceiveKeepsAck
    <3>. QED
      BY <1>3, <3>2
  <2>. QED
    BY <2>1, <2>2, <2>3, <2>4, <2>5
<1>11. ASSUME NEW e \in Ends, Expire(e) \/ AssemblyTimeout(e) \/ Fail(e) \/ Replaced(e)
       PROVE  AckIsKept'
  BY <1>5, <1>11 DEF Expire, AssemblyTimeout, Fail, Replaced, Faults
<1>12. ASSUME NEW e \in Ends, Disconnect(e)
       PROVE  AckIsKept'
  BY <1>4, <1>12 DEF Disconnect, senderVars, receiverVars, outVars
<1>13. ASSUME NEW e \in Ends, Reconnect(e)
       PROVE  AckIsKept'
  BY <1>4, <1>9, <1>13 DEF Reconnect, senderVars, receiverVars, outVars
<1>14. ASSUME NEW e \in Ends, Lose(e)
       PROVE  AckIsKept'
  <2>1. losses' # 0
    BY <1>2, <1>14 DEF Lose
  <2>. QED
    BY <1>1, <2>1
<1>15. ASSUME NEW e \in Ends, SendReady(e)
       PROVE  AckIsKept'
  BY <1>9, <1>15 DEF SendReady, linkVars
<1>16. CASE UNCHANGED vars
  BY <1>4, <1>16 DEF vars, senderVars, receiverVars, outVars, linkVars
<1>. QED
  BY <1>8, <1>10, <1>11, <1>12, <1>13, <1>14, <1>15, <1>16 DEF Next

\* Neither a replay nor an interruption of the transport makes an end forget to
\* acknowledge what it delivered last: as long as the relay lost nothing and neither end
\* is degraded, its sender knows it, or will by what is pending or under way.
THEOREM AcksAreKept == Spec => []AckIsKept
<1>1. Init => AckIsKept
  <2>. SUFFICES ASSUME Init, NEW e \in Ends PROVE acked[e] = Len(delivered[Peer[e]])
    BY DEF AckIsKept
  <2>1. acked[e] = 0 /\ delivered[Peer[e]] = <<>>
    BY PeerFacts DEF Init
  <2>. QED
    BY <2>1
<1>2. Inv /\ Inv' /\ AckIsKept /\ [Next]_vars => AckIsKept'
  BY AckStep
<1>. QED
  BY <1>1, <1>2, Invariance, PTL DEF Spec
=============================================================================
