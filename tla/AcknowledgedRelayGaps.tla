------------------------ MODULE AcknowledgedRelayGaps ------------------------
(* A bridge breaks with a gap only after the relay lost something: the      *)
(* proof that replays and interruptions never make frames skip each other.  *)
EXTENDS AcknowledgedRelayProofs

-----------------------------------------------------------------------------
(* Linked sequences of packets.                                             *)

IsFrame(p) == p.type = "frame"

\* The frames of s are linked to a receiver that expects frame x, and to a sender whose
\* next frame is c: each follows another one before it, or was expected already.
Linked(s, c, x) ==
  /\ \A i \in 1 .. Len(s) : IsFrame(s[i]) =>
       s[i].seq <= x \/ \E j \in 1 .. i - 1 : IsFrame(s[j]) /\ s[j].seq + 1 = s[i].seq
  /\ c <= x \/ \E j \in 1 .. Len(s) : IsFrame(s[j]) /\ s[j].seq + 1 = c

\* The oldest packet can be taken off once the receiver expects a frame after it.
LEMMA LinkedTail ==
  ASSUME NEW s \in Seq(Packets), s # <<>>, NEW c \in Nat, NEW x \in Nat, NEW xx \in Nat,
         Linked(s, c, x), x <= xx, IsFrame(Head(s)) => Head(s).seq + 1 <= xx
  PROVE  Linked(Tail(s), c, xx)
<1>1. /\ Head(s) = s[1] /\ Len(s) \in Nat /\ Len(s) >= 1
      /\ Tail(s) \in Seq(Packets) /\ Len(Tail(s)) = Len(s) - 1
      /\ \A i \in 1 .. Len(Tail(s)) : Tail(s)[i] = s[i + 1]
  BY HeadTailProperties, LenProperties, EmptySeq
<1>2. \A i \in 1 .. Len(s) : s[i] \in Packets /\ s[i].seq \in Nat
  <2>1. \A i \in 1 .. Len(s) : s[i] \in Packets
    BY ElementOfSeq
  <2>2. \A p \in Packets : p.seq \in Nat
    BY DEF Packets
  <2>. QED
    BY <2>1, <2>2
<1>3. ASSUME NEW i \in 1 .. Len(Tail(s)), IsFrame(Tail(s)[i])
      PROVE  \/ Tail(s)[i].seq <= xx
             \/ \E j \in 1 .. i - 1 : IsFrame(Tail(s)[j]) /\ Tail(s)[j].seq + 1 = Tail(s)[i].seq
  <2>1. i + 1 \in 1 .. Len(s) /\ Tail(s)[i] = s[i + 1] /\ s[i + 1].seq \in Nat
    BY <1>1, <1>2
  <2>2. CASE s[i + 1].seq <= x
    BY <2>1, <2>2
  <2>3. CASE \E j \in 1 .. i : IsFrame(s[j]) /\ s[j].seq + 1 = s[i + 1].seq
    <3>1. PICK j \in 1 .. i : IsFrame(s[j]) /\ s[j].seq + 1 = s[i + 1].seq
      BY <2>3
    <3>2. CASE j = 1
      <4>1. s[1].seq + 1 <= xx
        BY <1>1, <3>1, <3>2
      <4>. QED
        BY <2>1, <3>1, <3>2, <4>1
    <3>3. CASE j # 1
      <4>1. j - 1 \in 1 .. i - 1 /\ j - 1 \in 1 .. Len(Tail(s)) /\ (j - 1) + 1 = j
        BY <1>1, <3>3
      <4>2. Tail(s)[j - 1] = s[j]
        BY <1>1, <4>1
      <4>. QED
        BY <2>1, <3>1, <4>1, <4>2
    <3>. QED
      BY <3>2, <3>3
  <2>4. (i + 1) - 1 = i
    BY <1>1
  <2>. QED
    BY <1>3, <2>1, <2>2, <2>3, <2>4 DEF Linked
<1>4. ASSUME ~(c <= xx)
      PROVE  \E j \in 1 .. Len(Tail(s)) : IsFrame(Tail(s)[j]) /\ Tail(s)[j].seq + 1 = c
  <2>1. PICK j \in 1 .. Len(s) : IsFrame(s[j]) /\ s[j].seq + 1 = c
    BY <1>4 DEF Linked
  <2>2. j # 1
    BY <1>1, <1>4, <2>1
  <2>3. j - 1 \in 1 .. Len(Tail(s)) /\ (j - 1) + 1 = j
    BY <1>1, <2>2
  <2>4. Tail(s)[j - 1] = s[j]
    BY <1>1, <2>3
  <2>. QED
    BY <2>1, <2>3, <2>4
<1>. QED
  BY <1>3, <1>4 DEF Linked

\* An acknowledgement can be put behind.
LEMMA LinkedAck ==
  ASSUME NEW s \in Seq(Packets), NEW c \in Nat, NEW x \in Nat, Linked(s, c, x),
         NEW a \in Packets, ~IsFrame(a)
  PROVE  Linked(s \o <<a>>, c, x)
<1>1. <<a>> \in Seq(Packets) /\ Len(<<a>>) = 1 /\ <<a>>[1] = a
  OBVIOUS
<1>2. /\ Len(s) \in Nat /\ Len(s \o <<a>>) = Len(s) + 1
      /\ \A i \in 1 .. Len(s) : (s \o <<a>>)[i] = s[i]
      /\ (s \o <<a>>)[Len(s) + 1] = a
  BY <1>1, ConcatProperties, LenProperties
<1>. DEFINE t == s \o <<a>>
<1>. HIDE DEF t
<1>3. /\ Len(s) \in Nat /\ Len(t) = Len(s) + 1
      /\ \A i \in 1 .. Len(s) : t[i] = s[i]
      /\ t[Len(s) + 1] = a
  BY <1>2 DEF t
<1>4. ASSUME NEW i \in 1 .. Len(t), IsFrame(t[i])
      PROVE  t[i].seq <= x \/ \E j \in 1 .. i - 1 : IsFrame(t[j]) /\ t[j].seq + 1 = t[i].seq
  <2>1. i \in 1 .. Len(s) /\ t[i] = s[i]
    BY <1>3, <1>4
  <2>2. \A j \in 1 .. i - 1 : j \in 1 .. Len(s) /\ t[j] = s[j]
    BY <1>3, <2>1
  <2>. QED
    BY <1>4, <2>1, <2>2 DEF Linked
<1>5. ASSUME ~(c <= x)
      PROVE  \E j \in 1 .. Len(t) : IsFrame(t[j]) /\ t[j].seq + 1 = c
  <2>1. PICK j \in 1 .. Len(s) : IsFrame(s[j]) /\ s[j].seq + 1 = c
    BY <1>5 DEF Linked
  <2>2. j \in 1 .. Len(t) /\ t[j] = s[j]
    BY <1>3
  <2>. QED
    BY <2>1, <2>2
<1>. QED
  BY <1>4, <1>5 DEF Linked, t

\* Consecutive frames can be put behind, from the one the sender has next.
LEMMA LinkedFrames ==
  ASSUME NEW s \in Seq(Packets), NEW c \in Nat, NEW x \in Nat, Linked(s, c, x),
         NEW q \in Nat, c <= q, NEW fs \in Seq(Packets), Len(fs) = q - c,
         \A i \in 1 .. q - c : IsFrame(fs[i]) /\ fs[i].seq = c + i - 1
  PROVE  Linked(s \o fs, q, x)
<1>. DEFINE t == s \o fs
            n == Len(s)
<1>1. /\ n \in Nat /\ Len(t) = n + (q - c)
      /\ \A i \in 1 .. n : t[i] = s[i]
      /\ \A i \in 1 .. Len(t) : i > n => t[i] = fs[i - n]
  <2>1. /\ s \o fs \in Seq(Packets) /\ Len(s \o fs) = Len(s) + Len(fs)
        /\ \A i \in 1 .. Len(s) + Len(fs) :
             (s \o fs)[i] = IF i <= Len(s) THEN s[i] ELSE fs[i - Len(s)]
    BY ConcatProperties
  <2>2. Len(s) \in Nat
    BY LenProperties
  <2>. DEFINE tt == s \o fs
  <2>3. /\ Len(tt) = Len(s) + (q - c)
        /\ \A i \in 1 .. Len(tt) : tt[i] = IF i <= Len(s) THEN s[i] ELSE fs[i - Len(s)]
    BY <2>1
  <2>. HIDE DEF tt
  <2>4. \A i \in 1 .. Len(s) : i \in 1 .. Len(tt) /\ i <= Len(s)
    BY <2>2, <2>3
  <2>5. \A i \in 1 .. Len(s) : tt[i] = s[i]
    BY <2>3, <2>4
  <2>6. \A i \in 1 .. Len(tt) : i > Len(s) => ~(i <= Len(s))
    BY <2>2, <2>3
  <2>7. \A i \in 1 .. Len(tt) : i > Len(s) => tt[i] = fs[i - Len(s)]
    BY <2>3, <2>6
  <2>. QED
    BY <2>2, <2>3, <2>5, <2>7 DEF tt
<1>. HIDE DEF t, n
<1>2. ASSUME NEW i \in 1 .. q - c
      PROVE  n + i \in 1 .. Len(t) /\ IsFrame(t[n + i]) /\ t[n + i].seq = c + i - 1
  <2>1. n + i \in 1 .. Len(t) /\ n + i > n /\ (n + i) - n = i
    BY <1>1
  <2>. QED
    BY <1>1, <2>1
<1>3. ASSUME NEW i \in 1 .. Len(t), IsFrame(t[i])
      PROVE  t[i].seq <= x \/ \E j \in 1 .. i - 1 : IsFrame(t[j]) /\ t[j].seq + 1 = t[i].seq
  <2>1. CASE i \in 1 .. n
    <3>1. t[i] = s[i] /\ \A j \in 1 .. i - 1 : j \in 1 .. n /\ t[j] = s[j]
      <4>1. n \in Nat /\ \A j \in 1 .. n : t[j] = s[j]
        BY <1>1
      <4>2. \A j \in 1 .. i - 1 : j \in 1 .. n
        BY <4>1, <2>1
      <4>. QED
        BY <4>1, <4>2, <2>1
    <3>2. i \in 1 .. Len(s)
      BY <2>1 DEF n
    <3>. QED
      BY <1>3, <3>1, <3>2 DEF Linked
  <2>2. CASE i = n + 1
    <3>1. 1 \in 1 .. q - c
      BY <1>1, <2>2
    <3>2. t[i].seq = c
      <4>1. t[n + 1].seq = c + 1 - 1
        BY <1>2, <3>1
      <4>. QED
        BY <2>2, <4>1
    <3>3. CASE c <= x
      BY <3>2, <3>3
    <3>4. CASE ~(c <= x)
      <4>1. PICK j \in 1 .. n : IsFrame(s[j]) /\ s[j].seq + 1 = c
        BY <3>4 DEF Linked, n
      <4>2. j \in 1 .. i - 1 /\ t[j] = s[j]
        BY <1>1, <2>2
      <4>. QED
        BY <3>2, <4>1, <4>2
    <3>. QED
      BY <3>3, <3>4
  <2>3. CASE i \notin 1 .. n /\ i # n + 1
    <3>. DEFINE k == i - n - 1
    <3>1. /\ k \in 1 .. q - c /\ k + 1 \in 1 .. q - c /\ n + k \in 1 .. i - 1
          /\ n + (k + 1) = i
      BY <1>1, <2>3
    <3>. HIDE DEF k
    <3>2. IsFrame(t[n + k]) /\ t[n + k].seq = c + k - 1
      BY <1>2, <3>1
    <3>3. t[n + (k + 1)].seq = c + (k + 1) - 1
      BY <1>2, <3>1
    <3>4. t[n + k].seq + 1 = t[i].seq
      BY <3>1, <3>2, <3>3
    <3>. QED
      BY <3>1, <3>2, <3>4
  <2>. QED
    BY <2>1, <2>2, <2>3
<1>4. q <= x \/ \E j \in 1 .. Len(t) : IsFrame(t[j]) /\ t[j].seq + 1 = q
  <2>1. CASE q = c
    <3>1. Len(t) = n
      BY <1>1, <2>1
    <3>. QED
      BY <1>1, <2>1, <3>1 DEF Linked, n
  <2>2. CASE q # c
    <3>. DEFINE k == q - c
    <3>1. k \in 1 .. q - c /\ c + k = q
      BY <2>2
    <3>. HIDE DEF k
    <3>2. n + k \in 1 .. Len(t) /\ IsFrame(t[n + k]) /\ t[n + k].seq = c + k - 1
      BY <1>2, <3>1
    <3>3. t[n + k].seq + 1 = q
      BY <3>1, <3>2
    <3>. QED
      BY <3>2, <3>3
  <2>. QED
    BY <2>1, <2>2
<1>. QED
  BY <1>3, <1>4 DEF Linked, t
\* A flush sends what links on, from the next frame of the sender.
LEMMA LinkedBurst ==
  ASSUME NEW e \in Ends, NEW n \in 0 .. N[e], NEW s \in Seq(Packets), NEW k \in Nat,
         NEW c \in Nat, 1 <= c, c <= First[e][n + 1], NEW x \in Nat, Linked(s, c, x)
  PROVE  Linked(s \o Burst(e, k, c, First[e][n + 1]), First[e][n + 1], x)
<1>. DEFINE q == First[e][n + 1]
            fs == [i \in 1 .. q - c |-> FrameOf(e, c + i - 1)]
<1>0. N[e] \in Nat /\ n \in Nat /\ n <= N[e]
  BY Cut
<1>1. q \in Nat
  BY <1>0, CutMonotone
<1>2. ASSUME NEW i \in 1 .. q - c
      PROVE  FrameOf(e, c + i - 1) \in Packets
  <2>1. c + i - 1 \in Nat /\ 1 <= c + i - 1 /\ c + i - 1 < First[e][n + 1]
    BY <1>1
  <2>2. MessageAt(e, c + i - 1) \in 1 .. n
    BY <2>1, FrameHasMessage
  <2>3. c + i - 1 \in Nat /\ MessageAt(e, c + i - 1) \in Nat
    BY <1>0, <2>1, <2>2
  <2>4. \A m, p \in Nat : [type |-> "frame", msg |-> m, seq |-> p] \in Packets
    BY DEF Packets
  <2>. QED
    BY <2>3, <2>4, Zenon DEF FrameOf
<1>3. \A i \in 1 .. q - c : IsFrame(FrameOf(e, c + i - 1)) /\ FrameOf(e, c + i - 1).seq = c + i - 1
  BY DEF FrameOf, IsFrame
<1>. HIDE DEF q
<1>4. q - c \in Nat
  BY <1>1 DEF q
<1>5. fs \in Seq(Packets) /\ Len(fs) = q - c
  <2>1. fs \in Seq(Packets)
    <3>1. fs \in [1 .. q - c -> Packets]
      BY <1>2, Zenon
    <3>. HIDE DEF fs
    <3>. QED
      BY <1>4, <3>1, SeqDef, Zenon
  <2>2. DOMAIN fs = 1 .. q - c
    OBVIOUS
  <2>. HIDE DEF fs
  <2>3. Len(fs) = q - c
    BY <1>4, <2>1, <2>2, LenProperties
  <2>. QED
    BY <2>1, <2>3
<1>6. \A i \in 1 .. q - c : IsFrame(fs[i]) /\ fs[i].seq = c + i - 1
  BY <1>3
<1>7. c <= q
  BY DEF q
<1>8. CASE k = 0
  <2>1. Burst(e, k, c, q) = <<>> \o fs
    BY <1>8 DEF Burst
  <2>. HIDE DEF fs
  <2>2. Burst(e, k, c, q) = fs
    BY <1>5, <2>1, ConcatEmptySeq
  <2>3. Linked(s \o fs, q, x)
    BY <1>1, <1>5, <1>6, <1>7, LinkedFrames
  <2>. QED
    BY <2>2, <2>3 DEF q
<1>9. CASE k # 0
  <2>1. Burst(e, k, c, q) = <<AckOf(k)>> \o fs
    BY <1>9 DEF Burst
  <2>2. AckOf(k) \in Packets /\ ~IsFrame(AckOf(k))
    BY DEF AckOf, Packets, IsFrame
  <2>. HIDE DEF fs
  <2>3. <<AckOf(k)>> \in Seq(Packets) /\ s \o <<AckOf(k)>> \in Seq(Packets)
    BY <2>2, ConcatProperties
  <2>4. Linked(s \o <<AckOf(k)>>, c, x)
    BY <2>2, LinkedAck
  <2>5. Linked((s \o <<AckOf(k)>>) \o fs, q, x)
    <3>. DEFINE t == s \o <<AckOf(k)>>
    <3>1. t \in Seq(Packets) /\ Linked(t, c, x)
      BY <2>3, <2>4
    <3>. HIDE DEF t
    <3>2. Linked(t \o fs, q, x)
      BY <1>1, <1>5, <1>6, <1>7, <3>1, LinkedFrames
    <3>. QED
      BY <3>2 DEF t
  <2>6. (s \o <<AckOf(k)>>) \o fs = s \o (<<AckOf(k)>> \o fs)
    BY <1>5, <2>3, ConcatAssociative
  <2>. QED
    BY <2>1, <2>5, <2>6 DEF q
<1>. QED
  BY <1>8, <1>9

\* What a flush from frame c up to q leaves of the packets s and the next frame: the
\* packets followed by a burst, or as they were.
Flushed(e, k, c, q, s, t, cc) ==
  \/ t = s /\ cc = c
  \/ t = s \o Burst(e, k, c, q) /\ cc = q

Wires == [Ends -> Seq(Packets)]
Cursors == [Ends -> Nat \ {0}]

\* The first frame after the n-th message.
EndOf(e, n) == First[e][n + 1]

LEMMA FlushWire ==
  ASSUME NEW e \in Ends, NEW n \in Nat, NEW k \in Nat, NEW c \in Nat,
         NEW after \in Wires, cursor \in Cursors,
         Flush(e, n, k, c, after)
  PROVE  /\ cursor'[Peer[e]] = cursor[Peer[e]] /\ wire'[Peer[e]] = after[Peer[e]]
         /\ Flushed(e, k, c, EndOf(e, n), after[e], wire'[e], cursor'[e])
<1>0. Peer[e] \in Ends /\ Peer[e] # e
  BY PeerFacts
<1>1. CASE ~up'[e]
  BY <1>0, <1>1 DEF Flush, Flushed, EndOf, Wires, Cursors
<1>2. CASE up'[e]
  <2>1. /\ wire' = [after EXCEPT ![e] = after[e] \o Burst(e, k, c, First[e][n + 1])]
        /\ cursor' = [cursor EXCEPT ![e] = First[e][n + 1]]
    BY <1>2 DEF Flush
  <2>. QED
    BY <1>0, <2>1 DEF Flushed, EndOf, Wires, Cursors
<1>. QED
  BY <1>1, <1>2

LEMMA FlushLinks ==
  ASSUME NEW e \in Ends, NEW n \in 0 .. N[e], NEW k \in Nat,
         NEW c \in Nat, 1 <= c, c <= EndOf(e, n),
         NEW s \in Seq(Packets), NEW t, NEW cc, Flushed(e, k, c, EndOf(e, n), s, t, cc),
         NEW x \in Nat, Linked(s, c, x)
  PROVE  Linked(t, cc, x)
<1>1. Linked(s \o Burst(e, k, c, EndOf(e, n)), EndOf(e, n), x)
  <2>1. c <= First[e][n + 1]
    BY DEF EndOf
  <2>. QED
    BY <2>1, LinkedBurst DEF EndOf
<1>. QED
  BY <1>1 DEF Flushed

LEMMA FlushReach ==
  ASSUME NEW e \in Ends, NEW n \in 0 .. N[e], NEW k, NEW c \in Nat, c <= EndOf(e, n),
         NEW s, NEW t, NEW cc, Flushed(e, k, c, EndOf(e, n), s, t, cc)
  PROVE  cc <= EndOf(e, n)
<1>0. N[e] \in Nat /\ n \in Nat /\ n <= N[e]
  BY Cut
<1>1. EndOf(e, n) \in Nat
  BY <1>0, CutMonotone DEF EndOf
<1>. QED
  BY <1>1 DEF Flushed

\* A flush of e over the wire after, from frame c of its n messages, keeps every link.
KeepsLinks(e, n, c, s, t, cc) ==
  /\ cc <= EndOf(e, n)
  /\ \A x \in Nat : Linked(s, c, x) => Linked(t, cc, x)

LEMMA FlushOn ==
  ASSUME NEW e \in Ends, NEW n \in 0 .. N[e], NEW k \in Nat,
         NEW c \in Nat, 1 <= c, c <= EndOf(e, n),
         NEW after \in Wires, cursor \in Cursors,
         Flush(e, n, k, c, after)
  PROVE  /\ cursor'[Peer[e]] = cursor[Peer[e]] /\ wire'[Peer[e]] = after[Peer[e]]
         /\ KeepsLinks(e, n, c, after[e], wire'[e], cursor'[e])
<1>0. N[e] \in Nat /\ n \in Nat
  BY Cut
<1>1. /\ cursor'[Peer[e]] = cursor[Peer[e]] /\ wire'[Peer[e]] = after[Peer[e]]
      /\ Flushed(e, k, c, EndOf(e, n), after[e], wire'[e], cursor'[e])
  BY <1>0, FlushWire
<1>2. after[e] \in Seq(Packets)
  BY DEF Wires
<1>3. cursor'[e] <= EndOf(e, n)
  BY <1>1, FlushReach
<1>4. ASSUME NEW x \in Nat, Linked(after[e], c, x)
      PROVE  Linked(wire'[e], cursor'[e], x)
  BY <1>1, <1>2, <1>4, FlushLinks
<1>. QED
  BY <1>1, <1>3, <1>4 DEF KeepsLinks

-----------------------------------------------------------------------------
(* The invariant.                                                           *)

\* A sender's next frame is one of a reserved message.
CursorInReach == \A e \in Ends : cursor[e] <= First[e][reserved[e] + 1]

\* What is being assembled is a proper part of a message.
PartOfMessage == \A e \in Ends : Usable(e) /\ staged[e] # <<>> =>
  /\ Len(delivered[e]) < N[Peer[e]]
  /\ expected[e] < First[Peer[e]][Len(delivered[e]) + 2]

Chain(e) == Usable(Peer[e]) => Linked(wire[e], cursor[e], expected[Peer[e]])

Contiguous == losses = 0 => \A e \in Ends : fault[e] # "gap" /\ Chain(e)

GapInv == Inv /\ CursorInReach /\ PartOfMessage /\ Contiguous

\* The types used below.
LEMMA Types ==
  ASSUME GapInv
  PROVE  /\ reserved \in [Ends -> Nat] /\ cursor \in [Ends -> Nat \ {0}]
         /\ expected \in [Ends -> Nat \ {0}] /\ fault \in [Ends -> Faults \cup {"none"}]
         /\ wire \in [Ends -> Seq(Packets)] /\ acked \in [Ends -> Nat] /\ losses \in Nat
         /\ staged \in [Ends -> Seq(Nat)] /\ delivered \in [Ends -> Seq(Seq(Nat))]
<1>1. TypeOK /\ MaxLosses \in Nat
  BY BoundsAreNatural DEF GapInv, Inv
<1>. QED
  BY <1>1 DEF TypeOK

LEMMA DegradeLinks ==
  ASSUME GapInv, NEW e \in Ends, NEW why \in {"gap", "other"}, Degrade(e, why),
         why = "gap" => losses # 0, wire'[e] = wire[e], losses' = losses
  PROVE  CursorInReach' /\ PartOfMessage' /\ Contiguous'
<1>0. /\ Peer[e] \in Ends /\ Peer[e] # e /\ Peer[Peer[e]] = e /\ \A x \in Ends : x = e \/ x = Peer[e]
      /\ reserved[e] \in Nat /\ reserved[e] <= N[e]
  BY PeerFacts, Counters DEF GapInv
<1>1. /\ fault' = [fault EXCEPT ![e] = why] /\ staged' = [staged EXCEPT ![e] = <<>>]
      /\ cursor' = [cursor EXCEPT ![e] = 1] /\ UNCHANGED <<reserved, expected, delivered>>
  BY DEF Degrade
<1>2. /\ fault'[e] = why /\ fault'[Peer[e]] = fault[Peer[e]] /\ staged'[Peer[e]] = staged[Peer[e]]
      /\ cursor'[e] = 1 /\ cursor'[Peer[e]] = cursor[Peer[e]] /\ staged'[e] = <<>>
  BY <1>0, <1>1, Types
<1>3. CursorInReach'
  <2>1. 1 <= First[e][reserved[e] + 1]
    BY <1>0, CutMonotone
  <2>. QED
    BY <1>0, <1>1, <1>2, <2>1 DEF GapInv, CursorInReach
<1>4. PartOfMessage'
  BY <1>0, <1>1, <1>2 DEF GapInv, PartOfMessage, Usable
<1>5. ASSUME losses = 0 PROVE \A x \in Ends : fault'[x] # "gap" /\ Chain(x)'
  <2>1. fault[e] # "gap" /\ fault[Peer[e]] # "gap" /\ Chain(e)
    BY <1>0, <1>5 DEF GapInv, Contiguous
  <2>2. fault'[e] # "gap" /\ fault'[Peer[e]] # "gap"
    BY <1>2, <1>5, <2>1
  <2>3. Chain(e)'
    <3>1. 1 <= expected[Peer[e]]
      <4>1. expected[Peer[e]] \in Nat \ {0}
        BY <1>0, Types
      <4>. QED
        BY <4>1
    <3>. QED
      BY <1>1, <1>2, <2>1, <3>1 DEF Chain, Linked, Usable
  <2>4. Chain(Peer[e])'
    BY <1>0, <1>2 DEF Chain, Usable
  <2>. QED
    BY <1>0, <2>2, <2>3, <2>4
<1>6. Contiguous'
  BY <1>5 DEF Contiguous
<1>. QED
  BY <1>3, <1>4, <1>6

\* An end that sends on from a linked frame.
LEMMA SendLinks ==
  ASSUME GapInv, NEW e \in Ends, NEW n \in Nat, n <= N[e],
         reserved'[e] = n, reserved'[Peer[e]] = reserved[Peer[e]],
         UNCHANGED <<receiverVars, fault, losses>>,
         NEW k \in Nat, NEW c \in Nat, 1 <= c, c <= First[e][n + 1], Flush(e, n, k, c, wire),
         losses = 0 /\ Usable(Peer[e]) => Linked(wire[e], c, expected[Peer[e]])
  PROVE  CursorInReach' /\ PartOfMessage' /\ Contiguous'
<1>0. /\ Peer[e] \in Ends /\ Peer[e] # e /\ Peer[Peer[e]] = e /\ \A x \in Ends : x = e \/ x = Peer[e]
      /\ N[e] \in Nat /\ n \in 0 .. N[e]
  BY PeerFacts, Cut
<1>1. /\ cursor'[e] <= First[e][n + 1] /\ cursor'[Peer[e]] = cursor[Peer[e]]
      /\ wire'[Peer[e]] = wire[Peer[e]]
      /\ \A x \in Nat : Linked(wire[e], c, x) => Linked(wire'[e], cursor'[e], x)
  <2>1. wire \in Wires /\ cursor \in Cursors
    BY Types DEF Wires, Cursors
  <2>. QED
    <3>1. c <= EndOf(e, n)
      BY DEF EndOf
    <3>2. /\ cursor'[Peer[e]] = cursor[Peer[e]] /\ wire'[Peer[e]] = wire[Peer[e]]
          /\ KeepsLinks(e, n, c, wire[e], wire'[e], cursor'[e])
      BY <1>0, <2>1, <3>1, FlushOn
    <3>. QED
      BY <3>2 DEF KeepsLinks, EndOf
<1>2. UNCHANGED <<expected, staged, delivered, fault, losses>>
  BY DEF receiverVars
<1>3. CursorInReach'
  BY <1>0, <1>1 DEF GapInv, CursorInReach
<1>4. PartOfMessage'
  BY <1>2 DEF GapInv, PartOfMessage, Usable
<1>5. ASSUME losses = 0 PROVE \A x \in Ends : fault'[x] # "gap" /\ Chain(x)'
  <2>1. expected[Peer[e]] \in Nat
    BY <1>0, Types
  <2>2. Chain(e)'
    BY <1>1, <1>2, <1>5, <2>1 DEF Chain, Usable
  <2>3. Chain(Peer[e])'
    BY <1>0, <1>1, <1>2, <1>5 DEF GapInv, Contiguous, Chain, Usable
  <2>. QED
    BY <1>0, <1>2, <1>5, <2>2, <2>3 DEF GapInv, Contiguous
<1>6. Contiguous'
  BY <1>2, <1>5 DEF Contiguous
<1>. QED
  BY <1>3, <1>4, <1>6

LEMMA ReserveLinks ==
  ASSUME GapInv, NEW e \in Ends, Reserve(e)
  PROVE  CursorInReach' /\ PartOfMessage' /\ Contiguous'
<1>1. CASE Degrade(e, "other") /\ UNCHANGED wire
  BY <1>1, DegradeLinks DEF Reserve, linkVars
<1>2. CASE ~(Degrade(e, "other") /\ UNCHANGED wire)
  <2>. DEFINE n == reserved[e] + 1
  <2>1. /\ n <= N[e] /\ reserved' = [reserved EXCEPT ![e] = n]
        /\ Flush(e, n, pendingAck[e], cursor[e], wire)
        /\ UNCHANGED <<receiverVars, fault, losses>>
    BY <1>2 DEF Reserve, linkVars
  <2>2. /\ reserved[e] \in Nat /\ pendingAck[e] \in Nat /\ cursor[e] \in Nat /\ 1 <= cursor[e]
        /\ n \in Nat /\ reserved[e] <= n
    BY Counters DEF GapInv
  <2>3. reserved'[e] = n /\ reserved'[Peer[e]] = reserved[Peer[e]]
    BY <2>1, Types, PeerFacts
  <2>4. cursor[e] <= First[e][n + 1]
    <3>1. /\ First[e][reserved[e] + 1] \in Nat /\ First[e][n + 1] \in Nat
          /\ First[e][reserved[e] + 1] <= First[e][n + 1]
      BY <2>1, <2>2, CutMonotone
    <3>2. cursor[e] <= First[e][reserved[e] + 1]
      BY DEF GapInv, CursorInReach
    <3>. HIDE DEF n
    <3>. QED
      BY <2>2, <3>1, <3>2
  <2>5. losses = 0 /\ Usable(Peer[e]) => Linked(wire[e], cursor[e], expected[Peer[e]])
    BY DEF GapInv, Contiguous, Chain
  <2>. HIDE DEF n
  <2>. QED
    BY <2>1, <2>2, <2>3, <2>4, <2>5, SendLinks
<1>. QED
  BY <1>1, <1>2

\* What is replayed was not expected later.
LEMMA DeliveredBeforeExpected ==
  ASSUME GapInv, NEW e \in Ends, NEW k \in Nat, k <= Len(delivered[Peer[e]])
  PROVE  /\ First[e][k + 1] \in Nat /\ 1 <= First[e][k + 1]
         /\ First[e][k + 1] <= First[e][reserved[e] + 1]
         /\ Usable(Peer[e]) => First[e][k + 1] <= expected[Peer[e]]
<1>1. /\ Len(delivered[Peer[e]]) \in Nat /\ reserved[e] \in Nat /\ N[e] \in Nat /\ fullySent[e] \in Nat
      /\ Len(delivered[Peer[e]]) <= fullySent[e] /\ fullySent[e] <= reserved[e] /\ reserved[e] <= N[e]
  BY Counters DEF GapInv
<1>2. k <= reserved[e] /\ Len(delivered[Peer[e]]) <= N[e]
  BY <1>1
<1>3. /\ First[e][k + 1] \in Nat /\ 1 <= First[e][k + 1]
      /\ First[e][k + 1] <= First[e][reserved[e] + 1]
  BY <1>1, <1>2, CutMonotone
<1>4. /\ First[e][Len(delivered[Peer[e]]) + 1] \in Nat
      /\ First[e][k + 1] <= First[e][Len(delivered[Peer[e]]) + 1]
  BY <1>1, <1>2, CutMonotone
<1>5. ASSUME Usable(Peer[e]) PROVE First[e][k + 1] <= expected[Peer[e]]
  <2>1. /\ Peer[e] \in Ends /\ Peer[Peer[e]] = e /\ staged[Peer[e]] \in Seq(Nat)
    BY PeerFacts, Types
  <2>2. Len(staged[Peer[e]]) \in Nat
    BY <2>1, LenProperties
  <2>3. expected[Peer[e]] = First[e][Len(delivered[Peer[e]]) + 1] + Len(staged[Peer[e]])
    BY <1>5, <2>1 DEF GapInv, Inv, Assembly
  <2>. QED
    BY <1>3, <1>4, <2>2, <2>3
<1>. QED
  BY <1>3, <1>5

LEMMA ReplayLinks ==
  ASSUME GapInv, NEW e \in Ends, Replay(e), losses' = losses
  PROVE  CursorInReach' /\ PartOfMessage' /\ Contiguous'
<1>1. /\ reserved[e] \in Nat /\ reserved[e] <= N[e] /\ pendingAck[e] \in Nat
      /\ acked[e] \in Nat /\ acked[e] <= Len(delivered[Peer[e]])
  BY Counters DEF GapInv
<1>2. /\ ReplayFrom(e) \in Nat /\ 1 <= ReplayFrom(e)
      /\ ReplayFrom(e) <= First[e][reserved[e] + 1]
      /\ Usable(Peer[e]) => ReplayFrom(e) <= expected[Peer[e]]
  BY <1>1, DeliveredBeforeExpected DEF ReplayFrom
<1>3. losses = 0 /\ Usable(Peer[e]) => Linked(wire[e], ReplayFrom(e), expected[Peer[e]])
  BY <1>2 DEF GapInv, Contiguous, Chain, Linked
<1>4. /\ Flush(e, reserved[e], pendingAck[e], ReplayFrom(e), wire)
      /\ UNCHANGED <<reserved, receiverVars, fault>>
  BY DEF Replay
<1>. QED
  BY <1>1, <1>2, <1>3, <1>4, SendLinks
\* The chain into e once it has taken the oldest packet.
LEMMA TakeLinks ==
  ASSUME GapInv, NEW e \in Ends, Usable(e), wire[Peer[e]] # <<>>, losses = 0,
         NEW xx \in Nat, expected[e] <= xx,
         IsFrame(Head(wire[Peer[e]])) => Head(wire[Peer[e]]).seq + 1 <= xx
  PROVE  Linked(Tail(wire[Peer[e]]), cursor[Peer[e]], xx)
<1>1. Peer[e] \in Ends /\ Peer[Peer[e]] = e
  BY PeerFacts
<1>2. wire[Peer[e]] \in Seq(Packets) /\ cursor[Peer[e]] \in Nat /\ expected[e] \in Nat
  BY <1>1, Types
<1>3. Linked(wire[Peer[e]], cursor[Peer[e]], expected[e])
  BY <1>1 DEF GapInv, Contiguous, Chain
<1>. QED
  BY <1>2, <1>3, LinkedTail

\* Taking a frame that was expected, or before, and perhaps sending on.
LEMMA FrameLinks ==
  ASSUME GapInv, NEW e \in Ends, Usable(e), wire[Peer[e]] # <<>>,
         NEW xx \in Nat, expected[e] <= xx, Head(wire[Peer[e]]).seq + 1 <= xx,
         expected'[e] = xx, expected'[Peer[e]] = expected[Peer[e]],
         UNCHANGED <<reserved, fault, losses>>,
         NEW after \in Wires, after[e] = wire[e], after[Peer[e]] = Tail(wire[Peer[e]]),
         \/ wire' = after /\ cursor' = cursor
         \/ \E k \in Nat : Flush(e, reserved[e], k, cursor[e], after)
  PROVE  CursorInReach' /\ Contiguous'
<1>0. /\ Peer[e] \in Ends /\ Peer[e] # e /\ Peer[Peer[e]] = e /\ \A x \in Ends : x = e \/ x = Peer[e]
      /\ reserved[e] \in 0 .. N[e] /\ cursor[e] \in Nat /\ 1 <= cursor[e]
  BY PeerFacts, Counters DEF GapInv
<1>t. /\ wire \in [Ends -> Seq(Packets)] /\ cursor \in [Ends -> Nat \ {0}]
      /\ expected[Peer[e]] \in Nat
  BY <1>0, Types
<1>2. cursor[e] <= First[e][reserved[e] + 1]
  BY DEF GapInv, CursorInReach
<1>3. /\ cursor'[e] <= First[e][reserved[e] + 1] /\ cursor'[Peer[e]] = cursor[Peer[e]]
      /\ wire'[Peer[e]] = Tail(wire[Peer[e]])
      /\ \A x \in Nat : Linked(wire[e], cursor[e], x) => Linked(wire'[e], cursor'[e], x)
  <2>1. CASE wire' = after /\ cursor' = cursor
    BY <1>2, <2>1
  <2>2. CASE \E k \in Nat : Flush(e, reserved[e], k, cursor[e], after)
    <3>1. PICK k \in Nat : Flush(e, reserved[e], k, cursor[e], after)
      BY <2>2
    <3>2. /\ cursor'[e] <= First[e][reserved[e] + 1] /\ cursor'[Peer[e]] = cursor[Peer[e]]
          /\ wire'[Peer[e]] = after[Peer[e]]
          /\ \A x \in Nat : Linked(after[e], cursor[e], x) => Linked(wire'[e], cursor'[e], x)
      <4>1. cursor[e] <= EndOf(e, reserved[e])
        BY <1>2 DEF EndOf
      <4>2. /\ cursor'[Peer[e]] = cursor[Peer[e]] /\ wire'[Peer[e]] = after[Peer[e]]
            /\ KeepsLinks(e, reserved[e], cursor[e], after[e], wire'[e], cursor'[e])
        <5>1. after \in Wires /\ cursor \in Cursors
          BY <1>t DEF Wires, Cursors
        <5>. QED
          BY <1>0, <3>1, <4>1, <5>1, FlushOn
      <4>. QED
        BY <4>2 DEF KeepsLinks, EndOf
    <3>. QED
      BY <3>2
  <2>. QED
    BY <2>1, <2>2
<1>4. CursorInReach'
  BY <1>0, <1>3 DEF GapInv, CursorInReach
<1>5. ASSUME losses = 0 PROVE \A x \in Ends : fault'[x] # "gap" /\ Chain(x)'
  <2>1. Chain(e)'
    <3>1. Usable(Peer[e]) => Linked(wire[e], cursor[e], expected[Peer[e]])
      BY <1>5 DEF GapInv, Contiguous, Chain
    <3>2. Usable(Peer[e]) => Linked(wire'[e], cursor'[e], expected'[Peer[e]])
      BY <1>t, <1>3, <3>1
    <3>. QED
      BY <3>2 DEF Chain, Usable
  <2>2. Chain(Peer[e])'
    <3>1. Linked(Tail(wire[Peer[e]]), cursor[Peer[e]], xx)
      BY <1>5, TakeLinks
    <3>. QED
      BY <1>0, <1>3, <3>1 DEF Chain
  <2>. QED
    BY <1>0, <1>5, <2>1, <2>2 DEF GapInv, Contiguous
<1>6. Contiguous'
  BY <1>5 DEF Contiguous
<1>. QED
  BY <1>4, <1>6

\* Before the relay loses anything, what arrives is expected or a duplicate.
LEMMA NoGapBeforeLoss ==
  ASSUME GapInv, NEW e \in Ends, Usable(e), wire[Peer[e]] # <<>>, losses = 0,
         Head(wire[Peer[e]]).type = "frame", Head(wire[Peer[e]]).seq >= expected[e]
  PROVE  InSequence(e, Head(wire[Peer[e]]))
<1>. DEFINE f == Head(wire[Peer[e]])
            from == Peer[e]
            d == Len(delivered[e])
<1>0. from \in Ends /\ Peer[from] = e /\ d \in Nat /\ N[from] \in Nat
  BY PeerFacts, Counters, Cut DEF GapInv
<1>1. /\ f \in PacketsOf(from, fullySent[from], Len(delivered[from]))
      /\ wire[from] \in Seq(Packets) /\ expected[e] \in Nat /\ staged[e] \in Seq(Nat)
  BY <1>0, TakePacket, Types DEF GapInv
<1>2. f.seq = expected[e]
  <2>1. Linked(wire[from], cursor[from], expected[e])
    BY <1>0 DEF GapInv, Contiguous, Chain
  <2>2. f = wire[from][1] /\ 1 \in 1 .. Len(wire[from])
    BY <1>1, HeadTailProperties, LenProperties, EmptySeq
  <2>3. f.seq <= expected[e] \/ \E j \in 1 .. 1 - 1 : IsFrame(wire[from][j])
    BY <2>1, <2>2 DEF Linked, IsFrame
  <2>4. f.seq \in Nat
    BY <1>1 DEF PacketsOf, Packets
  <2>. QED
    BY <1>1, <2>3, <2>4
<1>3. /\ f.msg \in 1 .. fullySent[from] /\ First[from][f.msg] <= f.seq
      /\ f.seq < First[from][f.msg + 1]
  BY <1>1 DEF PacketsOf
<1>4. /\ fullySent[from] \in Nat /\ fullySent[from] <= N[from] /\ reserved[from] \in Nat
      /\ d <= N[from] /\ Len(staged[e]) \in Nat
  <2>1. /\ fullySent[from] \in Nat /\ reserved[from] \in Nat /\ Len(delivered[e]) <= fullySent[from]
        /\ fullySent[from] <= reserved[from] /\ reserved[from] <= N[from]
    BY <1>0, Counters DEF GapInv
  <2>2. Len(staged[e]) \in Nat
    BY <1>1, LenProperties
  <2>. QED
    BY <1>0, <2>1, <2>2
<1>5. expected[e] = First[from][d + 1] + Len(staged[e])
  BY DEF GapInv, Inv, Assembly
<1>6. f.msg = d + 1
  <2>. DEFINE m == f.msg
  <2>0. m \in Nat /\ 1 <= m /\ m <= N[from]
    BY <1>3, <1>4, <1>0
  <2>t. First[from][d + 1] \in Nat
    BY <1>0, <1>4, CutMonotone
  <2>1. ASSUME m <= d PROVE FALSE
    <3>1. First[from][m + 1] \in Nat /\ First[from][m + 1] <= First[from][d + 1]
      BY <1>0, <1>4, <2>0, <2>1, CutMonotone
    <3>. DEFINE a == First[from][m + 1]
                b == First[from][d + 1]
                x == expected[e]
                y == Len(staged[e])
    <3>2. a \in Nat /\ b \in Nat /\ x \in Nat /\ y \in Nat
      BY <1>1, <1>4, <2>t, <3>1, Zenon
    <3>3. a <= b /\ x < a /\ x = b + y
      BY <1>2, <1>3, <1>5, <3>1, Zenon
    <3>. HIDE DEF a, b, x, y
    <3>. QED
      BY <3>2, <3>3
  <2>2. ASSUME d + 1 < m PROVE FALSE
    <3>. DEFINE m1 == m - 1
    <3>1. m1 \in Nat /\ d + 1 <= m1 /\ m1 <= N[from] /\ m1 + 1 = m /\ d < N[from] /\ d + 1 \in Nat
      <4>1. d \in Nat /\ N[from] \in Nat
        BY <1>0
      <4>. HIDE DEF d, m
      <4>. QED
        BY <2>0, <2>2, <4>1
    <3>. HIDE DEF m1
    <3>2. /\ First[from][m1 + 1] \in Nat /\ First[from][(d + 1) + 1] \in Nat
          /\ First[from][(d + 1) + 1] <= First[from][m1 + 1]
      BY <1>0, <3>1, CutMonotone
    <3>3. First[from][d + 1] < First[from][(d + 1) + 1]
      BY <1>0, <3>1, CutMonotone
    <3>4. (d + 1) + 1 = d + 2
      BY <1>0
    <3>5. expected[e] < First[from][d + 2]
      <4>1. CASE staged[e] = <<>>
        <5>1. Len(staged[e]) = 0
          BY <4>1
        <5>. QED
          BY <1>5, <2>t, <3>3, <3>4, <5>1
      <4>2. CASE staged[e] # <<>>
        BY <4>2 DEF GapInv, PartOfMessage
      <4>. QED
        BY <4>1, <4>2
    <3>6. First[from][m] <= expected[e]
      BY <1>2, <1>3
    <3>7. expected[e] \in Nat /\ First[from][m1 + 1] = First[from][m]
          /\ First[from][(d + 1) + 1] = First[from][d + 2]
      BY <1>1, <3>1, <3>4
    <3>8. First[from][m] \in Nat /\ First[from][d + 2] \in Nat
          /\ First[from][d + 2] <= First[from][m]
      BY <3>2, <3>7
    <3>. QED
      BY <3>5, <3>6, <3>7, <3>8
  <2>. HIDE DEF m
  <2>3. m = d + 1
    BY <1>0, <2>0, <2>1, <2>2
  <2>. QED
    BY <2>3 DEF m
<1>7. f.seq - First[from][f.msg] = Len(staged[e])
  <2>1. First[from][d + 1] \in Nat
    BY <1>0, <1>4, CutMonotone
  <2>. QED
    BY <1>2, <1>4, <1>5, <1>6, <2>1
<1>. QED
  BY <1>2, <1>6, <1>7 DEF InSequence
\* An acknowledgement moves the next frame to one that was expected at the latest.
LEMMA AckLinks ==
  ASSUME GapInv, NEW e \in Ends, Usable(e), wire[Peer[e]] # <<>>,
         Head(wire[Peer[e]]).type = "ack", ProcessAck(e, Head(wire[Peer[e]]).msg),
         wire' = [wire EXCEPT ![Peer[e]] = Tail(@)], losses' = losses
  PROVE  CursorInReach' /\ PartOfMessage' /\ Contiguous'
<1>. DEFINE from == Peer[e]
            k == Head(wire[from]).msg
<1>0. /\ from \in Ends /\ from # e /\ Peer[from] = e /\ \A x \in Ends : x = e \/ x = from
      /\ wire \in [Ends -> Seq(Packets)] /\ cursor \in [Ends -> Nat \ {0}]
      /\ expected \in [Ends -> Nat \ {0}]
  BY PeerFacts, Types
<1>1. Head(wire[from]) \in PacketsOf(from, fullySent[from], Len(delivered[from]))
  BY TakePacket DEF GapInv
<1>2. k \in 1 .. Len(delivered[from])
  BY <1>1 DEF PacketsOf
<1>3. /\ fullySent[e] \in Nat /\ Len(delivered[from]) \in Nat /\ Len(delivered[from]) <= fullySent[e]
  BY Counters DEF GapInv
<1>. HIDE DEF k
<1>4. /\ k \in Nat /\ k <= Len(delivered[from]) /\ ~(fullySent[e] < k)
  BY <1>2, <1>3
<1>5. /\ First[e][k + 1] \in Nat /\ 1 <= First[e][k + 1]
      /\ First[e][k + 1] <= First[e][reserved[e] + 1]
      /\ Usable(from) => First[e][k + 1] <= expected[from]
  BY <1>4, DeliveredBeforeExpected
<1>6. /\ UNCHANGED <<reserved, expected, staged, delivered, fault>>
      /\ \/ cursor' = cursor
         \/ cursor' = [cursor EXCEPT ![e] = Greater(cursor[e], First[e][k + 1])]
  BY <1>4 DEF ProcessAck, senderVars, receiverVars, outVars, k
<1>7. /\ wire'[e] = wire[e] /\ wire'[from] = Tail(wire[from])
      /\ cursor'[from] = cursor[from]
      /\ cursor'[e] = cursor[e] \/ cursor'[e] = First[e][k + 1]
  <2>1. /\ wire'[e] = wire[e] /\ wire'[from] = Tail(wire[from])
    BY <1>0
  <2>2. CASE cursor' = cursor
    BY <2>1, <2>2
  <2>3. CASE cursor' = [cursor EXCEPT ![e] = Greater(cursor[e], First[e][k + 1])]
    BY <1>0, <2>1, <2>3 DEF Greater
  <2>. QED
    BY <1>6, <2>2, <2>3
<1>8. CursorInReach'
  <2>1. cursor'[e] <= First[e][reserved[e] + 1]
    <3>1. cursor[e] <= First[e][reserved[e] + 1]
      BY DEF GapInv, CursorInReach
    <3>. QED
      BY <1>5, <1>7, <3>1
  <2>2. cursor'[from] <= First[from][reserved[from] + 1]
    BY <1>0, <1>7 DEF GapInv, CursorInReach
  <2>. QED
    BY <1>0, <1>6, <2>1, <2>2 DEF CursorInReach
<1>9. PartOfMessage'
  BY <1>6 DEF GapInv, PartOfMessage, Usable
<1>10. ASSUME losses = 0 PROVE \A x \in Ends : fault'[x] # "gap" /\ Chain(x)'
  <2>1. Chain(e)'
    <3>1. Usable(from) => Linked(wire[e], cursor[e], expected[from])
      BY <1>10 DEF GapInv, Contiguous, Chain
    <3>2. Usable(from) => Linked(wire[e], cursor'[e], expected[from])
      BY <1>5, <1>7, <3>1 DEF Linked
    <3>. QED
      BY <1>6, <1>7, <3>2 DEF Chain, Usable
  <2>2. Chain(from)'
    <3>1. ~IsFrame(Head(wire[from])) /\ expected[e] \in Nat /\ expected[e] <= expected[e]
      BY <1>0 DEF IsFrame
    <3>2. Linked(Tail(wire[from]), cursor[from], expected[e])
      BY <1>10, <3>1, TakeLinks
    <3>. QED
      BY <1>0, <1>6, <1>7, <3>2 DEF Chain
  <2>. QED
    BY <1>0, <1>6, <1>10, <2>1, <2>2 DEF GapInv, Contiguous
<1>11. Contiguous'
  BY <1>10 DEF Contiguous
<1>. QED
  BY <1>8, <1>9, <1>11

LEMMA ReceiveLinks ==
  ASSUME GapInv, NEW e \in Ends, Receive(e)
  PROVE  CursorInReach' /\ PartOfMessage' /\ Contiguous'
<1>. DEFINE from == Peer[e]
            after == [wire EXCEPT ![from] = Tail(@)]
            f == Head(wire[from])
<1>0. /\ from \in Ends /\ from # e /\ Peer[from] = e /\ \A x \in Ends : x = e \/ x = from
      /\ wire[from] # <<>> /\ losses' = losses
  BY PeerFacts DEF Receive, linkVars
<1>1. f \in PacketsOf(from, fullySent[from], Len(delivered[from])) /\ after \in Wires
  BY <1>0, TakePacket DEF GapInv, Wires
<1>2. after[e] = wire[e] /\ after[from] = Tail(wire[from])
  BY <1>0, Types
<1>t. /\ expected \in [Ends -> Nat \ {0}] /\ staged \in [Ends -> Seq(Nat)]
      /\ cursor[e] \in Nat
  BY Types
<1>3. CASE ~Usable(e) /\ wire' = after /\ UNCHANGED <<senderVars, receiverVars, outVars, fault>>
  <2>1. UNCHANGED <<reserved, cursor, expected, staged, delivered, fault>>
    BY <1>3 DEF senderVars, receiverVars, outVars
  <2>2. CursorInReach' /\ PartOfMessage'
    BY <2>1 DEF GapInv, CursorInReach, PartOfMessage, Usable
  <2>3. wire'[e] = wire[e]
    BY <1>2, <1>3
  <2>4. ASSUME losses = 0 PROVE \A x \in Ends : fault'[x] # "gap" /\ Chain(x)'
    <3>1. Chain(e)'
      BY <1>0, <2>1, <2>3, <2>4 DEF GapInv, Contiguous, Chain, Usable
    <3>2. Chain(from)'
      BY <1>0, <1>3, <2>1 DEF Chain, Usable
    <3>. QED
      BY <1>0, <2>1, <2>4, <3>1, <3>2 DEF GapInv, Contiguous
  <2>. QED
    BY <1>0, <2>2, <2>4 DEF Contiguous
<1>4. CASE Usable(e) /\ f.type = "ack" /\ ProcessAck(e, f.msg) /\ wire' = after
  BY <1>0, <1>4, AckLinks
<1>5. CASE Usable(e) /\ f.type = "frame" /\ Gap(e, f, after)
  <2>. HIDE DEF after
  <2>1. Degrade(e, "gap") /\ wire' = after /\ f.seq >= expected[e] /\ ~InSequence(e, f)
    BY <1>5 DEF Gap
  <2>2. losses # 0
    BY <1>0, <1>5, <2>1, NoGapBeforeLoss
  <2>. QED
    BY <1>0, <1>2, <2>1, <2>2, DegradeLinks
<1>6. CASE Usable(e) /\ f.type = "frame" /\ Duplicate(e, f, after)
  <2>. HIDE DEF after, f
  <2>1. /\ f.seq < expected[e]
        /\ \/ wire' = after /\ cursor' = cursor
           \/ Flush(e, reserved[e], Greater(pendingAck[e], Len(delivered[e])), cursor[e], after)
        /\ UNCHANGED <<reserved, expected, staged, delivered, fault>>
    BY <1>6 DEF Duplicate, QueueAck, Reack, outVars, receiverVars
  <2>2. Greater(pendingAck[e], Len(delivered[e])) \in Nat
    BY Counters DEF GapInv, Greater
  <2>3. expected[e] \in Nat /\ expected[e] <= expected[e] /\ f.seq + 1 <= expected[e]
    <3>1. f.seq \in Nat
      BY <1>1 DEF PacketsOf, Packets
    <3>2. expected[e] \in Nat
      BY <1>t
    <3>. QED
      BY <2>1, <3>1, <3>2
  <2>4. CursorInReach' /\ Contiguous'
    BY <1>0, <1>1, <1>2, <1>6, <2>1, <2>2, <2>3, FrameLinks DEF f
  <2>5. PartOfMessage'
    BY <2>1 DEF GapInv, PartOfMessage, Usable
  <2>. QED
    BY <2>4, <2>5
<1>7. CASE /\ Usable(e) /\ f.type = "frame"
           /\ Incomplete(e, f, after) \/ Complete(e, f, after)
  <2>. HIDE DEF after, f
  <2>0. InSequence(e, f)
    BY <1>7 DEF Incomplete, Complete
  <2>1. /\ f.msg = Len(delivered[e]) + 1 /\ f.msg \in 1 .. N[from] /\ f.seq = expected[e]
        /\ First[from][f.msg] \in Nat /\ Len(staged[e]) \in Nat
        /\ expected[e] = First[from][f.msg] + Len(staged[e])
    BY <1>1, <1>7, <2>0, NextFrame DEF GapInv, InSequence
  <2>2. /\ expected' = [expected EXCEPT ![e] = expected[e] + 1]
        /\ UNCHANGED <<reserved, fault>>
        /\ \/ wire' = after /\ cursor' = cursor
           \/ Flush(e, reserved[e], Greater(pendingAck[e], f.msg), cursor[e], after)
    BY <1>7 DEF Incomplete, Complete, QueueAck, senderVars, outVars
  <2>3. expected[e] \in Nat
    BY <1>t
  <2>4. /\ expected[e] + 1 \in Nat /\ expected[e] <= expected[e] + 1 /\ f.seq + 1 <= expected[e] + 1
    BY <2>1, <2>3
  <2>5. expected'[e] = expected[e] + 1 /\ expected'[from] = expected[from]
    BY <1>0, <1>t, <2>2
  <2>6. Greater(pendingAck[e], f.msg) \in Nat
    BY <2>1, Counters DEF GapInv, Greater
  <2>7. CursorInReach' /\ Contiguous'
    <3>. DEFINE xx == expected[e] + 1
    <3>1. xx \in Nat /\ expected[e] <= xx /\ f.seq + 1 <= xx /\ expected'[e] = xx
      BY <2>4, <2>5
    <3>. HIDE DEF xx
    <3>. QED
      BY <1>0, <1>1, <1>2, <1>7, <2>2, <2>5, <2>6, <3>1, FrameLinks DEF f
  <2>8. CASE Complete(e, f, after)
    <3>1. /\ staged' = [staged EXCEPT ![e] = <<>>] /\ fault' = fault
          /\ delivered' = [delivered EXCEPT ![e] = Append(delivered[e], Append(staged[e], f.seq))]
      BY <2>8 DEF Complete
    <3>2. /\ staged'[e] = <<>> /\ staged'[from] = staged[from] /\ delivered'[from] = delivered[from]
      BY <1>0, <1>t, <3>1, Types
    <3>3. PartOfMessage'
      BY <1>0, <2>5, <3>1, <3>2 DEF GapInv, PartOfMessage, Usable
    <3>. QED
      BY <2>7, <3>3
  <2>9. CASE Incomplete(e, f, after)
    <3>1. /\ Len(staged[e]) + 1 < First[from][f.msg + 1] - First[from][f.msg]
          /\ staged' = [staged EXCEPT ![e] = Append(staged[e], f.seq)]
          /\ UNCHANGED <<delivered, fault>>
      BY <2>9 DEF Incomplete, FragmentCount
    <3>2. staged'[from] = staged[from]
      BY <1>0, <1>t, <3>1
    <3>3. Len(delivered[e]) < N[from] /\ f.msg + 1 = Len(delivered[e]) + 2
      <4>1. Len(delivered[e]) \in Nat /\ N[from] \in Nat
        BY <1>0, Counters DEF GapInv
      <4>. QED
        BY <2>1, <4>1
    <3>4. First[from][f.msg + 1] \in Nat
      <4>1. f.msg \in Nat /\ f.msg <= N[from]
        BY <2>1
      <4>. QED
        BY <1>0, <4>1, CutMonotone
    <3>5. expected[e] + 1 < First[from][f.msg + 1]
      <4>. DEFINE a == expected[e]
                  x == Len(staged[e])
                  y == First[from][f.msg]
                  z == First[from][f.msg + 1]
      <4>1. a \in Nat /\ x \in Nat /\ y \in Nat /\ z \in Nat
        BY <2>1, <2>3, <3>4, Zenon
      <4>2. a = y + x /\ x + 1 < z - y
        BY <2>1, <3>1, Zenon
      <4>. HIDE DEF a, x, y, z
      <4>3. a + 1 < z
        BY <4>1, <4>2
      <4>. QED
        BY <4>3, Zenon DEF a, z
    <3>6. expected'[e] < First[from][Len(delivered[e]) + 2]
      BY <2>5, <3>3, <3>5
    <3>7. PartOfMessage'
      BY <1>0, <2>5, <3>1, <3>2, <3>3, <3>6 DEF GapInv, PartOfMessage, Usable
    <3>. QED
      BY <2>7, <3>7
  <2>. QED
    BY <1>7, <2>8, <2>9
<1>. QED
  BY <1>3, <1>4, <1>5, <1>6, <1>7 DEF Receive

LEMMA GapStep == GapInv /\ [Next]_vars => GapInv'
<1>. SUFFICES ASSUME GapInv, [Next]_vars
              PROVE  CursorInReach' /\ PartOfMessage' /\ Contiguous'
  BY NextKeepsInv DEF GapInv
<1>1. ASSUME UNCHANGED <<reserved, cursor, expected, staged, delivered, fault>>,
             (wire' = wire /\ losses' = losses) \/ losses' # 0
      PROVE  CursorInReach' /\ PartOfMessage' /\ Contiguous'
  BY <1>1 DEF GapInv, CursorInReach, PartOfMessage, Contiguous, Chain, Usable
<1>2. CASE UNCHANGED vars
  BY <1>1, <1>2 DEF vars, senderVars, receiverVars, outVars, linkVars
<1>3. ASSUME NEW e \in Ends, Reserve(e)
      PROVE  CursorInReach' /\ PartOfMessage' /\ Contiguous'
  BY <1>3, ReserveLinks
<1>4. ASSUME NEW e \in Ends, SendReady(e)
      PROVE  CursorInReach' /\ PartOfMessage' /\ Contiguous'
  BY <1>4, ReplayLinks DEF SendReady, linkVars
<1>5. ASSUME NEW e \in Ends, Receive(e)
      PROVE  CursorInReach' /\ PartOfMessage' /\ Contiguous'
  BY <1>5, ReceiveLinks
<1>6. ASSUME NEW e \in Ends, Expire(e) \/ AssemblyTimeout(e) \/ Fail(e) \/ Replaced(e)
      PROVE  CursorInReach' /\ PartOfMessage' /\ Contiguous'
  <2>1. Degrade(e, "other") /\ wire' = wire /\ losses' = losses
    BY <1>6 DEF Expire, AssemblyTimeout, Fail, Replaced, linkVars
  <2>. QED
    BY <2>1, DegradeLinks
<1>7. ASSUME NEW e \in Ends, Disconnect(e)
      PROVE  CursorInReach' /\ PartOfMessage' /\ Contiguous'
  BY <1>1, <1>7 DEF Disconnect, senderVars, receiverVars, outVars
<1>8. ASSUME NEW e \in Ends, Reconnect(e)
      PROVE  CursorInReach' /\ PartOfMessage' /\ Contiguous'
  <2>1. losses' = losses
    BY <1>8 DEF Reconnect
  <2>2. CASE Replay(e)
    BY <2>1, <2>2, ReplayLinks
  <2>3. CASE UNCHANGED <<senderVars, receiverVars, outVars, fault, wire>>
    BY <1>1, <2>1, <2>3 DEF senderVars, receiverVars, outVars
  <2>. QED
    BY <1>8, <2>2, <2>3 DEF Reconnect
<1>9. ASSUME NEW e \in Ends, Lose(e)
      PROVE  CursorInReach' /\ PartOfMessage' /\ Contiguous'
  <2>1. losses' # 0
    <3>1. losses \in Nat /\ losses' = losses + 1
      BY <1>9, Types DEF Lose
    <3>. QED
      BY <3>1
  <2>. QED
    BY <1>1, <1>9, <2>1 DEF Lose, senderVars, receiverVars, outVars
<1>. QED
  BY <1>2, <1>3, <1>4, <1>5, <1>6, <1>7, <1>8, <1>9 DEF Next

\* Neither a replay nor an interruption makes frames skip each other: a bridge breaks with
\* a gap only after the relay lost something.
THEOREM GapsNeedLosses == Spec => []GapOnlyAfterLoss
<1>1. Init => GapInv
  <2>. SUFFICES ASSUME Init PROVE CursorInReach /\ PartOfMessage /\ Contiguous
    BY InitInv DEF GapInv
  <2>1. /\ reserved = [e \in Ends |-> 0] /\ cursor = [e \in Ends |-> 1]
        /\ expected = [e \in Ends |-> 1] /\ staged = [e \in Ends |-> <<>>]
        /\ wire = [e \in Ends |-> <<>>] /\ fault = [e \in Ends |-> "none"]
    BY DEF Init
  <2>2. CursorInReach
    <3>1. \A e \in Ends : First[e][0 + 1] = 1
      BY Cut
    <3>. QED
      BY <2>1, <3>1 DEF CursorInReach
  <2>3. PartOfMessage
    BY <2>1 DEF PartOfMessage
  <2>4. Contiguous
    BY <2>1, PeerFacts DEF Contiguous, Chain, Linked
  <2>. QED
    BY <2>2, <2>3, <2>4
<1>2. GapInv => GapOnlyAfterLoss
  <2>1. GapInv => losses \in Nat
    BY Types
  <2>. QED
    BY <2>1 DEF GapInv, Contiguous, GapOnlyAfterLoss
<1>. QED
  BY <1>1, <1>2, GapStep, PTL DEF Spec
=============================================================================
