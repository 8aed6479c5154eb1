------------------------- MODULE AcknowledgedRelay -------------------------
(***************************************************************************)
(* The acknowledged relay protocol of the web remote control: one adapter  *)
(* on the desktop and one on the phone carry the RPC messages of a bridge  *)
(* through a relay service that may lose what is under way.  An adapter    *)
(* cuts a message into frames, keeps them until they are acknowledged,     *)
(* assembles the frames of the other end, and degrades for good on any     *)
(* fault; a degraded bridge is replaced by one with a new identity, and    *)
(* frames of another identity are ignored.  This module is one bridge.     *)
(*                                                                         *)
(* An action is one run of the adapter to completion: nothing in it waits, *)
(* and a packet that arrives during a send is queued until the send is     *)
(* over.  Whether the transport takes frames changes only between such     *)
(* runs, so a flush sends everything that is unsent, or nothing.           *)
(*                                                                         *)
(* Bytes are counted in frames.                                            *)
(***************************************************************************)
EXTENDS Integers, Sequences

CONSTANTS
  N,          \* N[e] bounds the messages e sends
  First,      \* First[e][m] is the physical number of the first frame of the
              \*   m-th message of e, and that of the first one not used yet
  Resumes,    \* ends whose owner replays when the transport is ready to send
  High, Low,  \* saturation water marks
  ReplayMax,  \* what may be kept for replay
  MaxWire,    \* bound on the packets under way when a heartbeat replays
  MaxDrops,   \* bound on the interruptions of a transport
  MaxLosses   \* bound on the losses in the relay

Ends == {"desktop", "mobile"}
Peer == [e \in Ends |-> IF e = "desktop" THEN "mobile" ELSE "desktop"]

ASSUME BoundsAreNatural ==
  {High, Low, ReplayMax, MaxWire, MaxDrops, MaxLosses} \subseteq Nat
ASSUME MessagesAreBounded == N \in [Ends -> Nat]
ASSUME CutsAreIncreasing ==
  /\ DOMAIN First = Ends
  /\ \A e \in Ends :
       /\ First[e] \in [1 .. N[e] + 1 -> Nat] /\ First[e][1] = 1
       /\ \A m, n \in 1 .. N[e] + 1 : m < n => First[e][m] < First[e][n]
ASSUME WaterMarks == Low <= High
ASSUME SomeResume == Resumes \subseteq Ends

VARIABLES
  reserved,    \* messages reserved so far: nextMessageSeq - 1
  cursor,      \* the next frame to send
  fullySent,   \* highestFullySentMessageSeq
  acked,       \* lastAckedMessageSeq; the batches after it are kept
  saturated,
  expected,    \* expectedPhysicalSeq of the assembler
  staged,      \* the frames of the active assembly
  delivered,   \* the messages given to the channel, each as its frames
  pendingAck,  \* pendingAckMessageSeq, 0 for null
  fault,       \* "none", or why this end is degraded
  up,          \* whether the transport of this end takes frames
  wire,        \* packets under way from this end, oldest first
  drops,       \* interruptions so far
  losses       \* losses so far

senderVars == <<reserved, fullySent, acked, saturated>>
receiverVars == <<expected, staged, delivered>>
outVars == <<cursor, pendingAck>>
linkVars == <<up, drops, losses>>
vars == <<senderVars, receiverVars, outVars, fault, wire, linkVars>>

Faults == {"gap", "futureAck", "other"}
Packets == [type : {"frame", "ack"}, msg : Nat, seq : Nat]

-----------------------------------------------------------------------------
\* Frames and packets.

Greater(a, b) == IF a < b THEN b ELSE a

\* The message a frame of e belongs to.
MessageAt(e, p) == CHOOSE m \in 1 .. N[e] : First[e][m] <= p /\ p < First[e][m + 1]

FragmentCount(e, m) == First[e][m + 1] - First[e][m]

FrameOf(e, p) == [type |-> "frame", msg |-> MessageAt(e, p), seq |-> p]
AckOf(k) == [type |-> "ack", msg |-> k, seq |-> 0]

\* What a flush hands to the transport: the pending acknowledgement, if any, then
\* the frames from p up to q.
Burst(e, k, p, q) ==
  (IF k = 0 THEN <<>> ELSE <<AckOf(k)>>) \o [i \in 1 .. q - p |-> FrameOf(e, p + i - 1)]

\* unacknowledgedByteCount, once n messages are reserved and k are acknowledged.
Backlog(e, n, k) == First[e][n + 1] - First[e][k + 1]

Usable(e) == fault[e] = "none"

-----------------------------------------------------------------------------
\* Parts of the handlers.

\* Mutant: the message being sent is not counted as sent.
FlushCountsLate(e, n, k, p, after) ==
  LET q == First[e][n + 1]
  IN IF up'[e]
       THEN /\ wire' = [after EXCEPT ![e] = @ \o Burst(e, k, p, q)]
            /\ cursor' = [cursor EXCEPT ![e] = q]
            /\ fullySent' = [fullySent EXCEPT ![e] = IF p < q THEN n - 1 ELSE @]
            /\ pendingAck' = [pendingAck EXCEPT ![e] = 0]
       ELSE /\ wire' = after
            /\ cursor' = [cursor EXCEPT ![e] = p]
            /\ pendingAck' = [pendingAck EXCEPT ![e] = k]
            /\ UNCHANGED fullySent

\* Mutant: the pending acknowledgement is cleared before the transport has taken it.
FlushForgetsAck(e, n, k, p, after) ==
  LET q == First[e][n + 1]
  IN IF up'[e]
       THEN /\ wire' = [after EXCEPT ![e] = @ \o Burst(e, k, p, q)]
            /\ cursor' = [cursor EXCEPT ![e] = q]
            /\ fullySent' = [fullySent EXCEPT ![e] = IF p < q THEN n ELSE @]
            /\ pendingAck' = [pendingAck EXCEPT ![e] = 0]
       ELSE /\ wire' = after
            /\ cursor' = [cursor EXCEPT ![e] = p]
            /\ pendingAck' = [pendingAck EXCEPT ![e] = 0]
            /\ UNCHANGED fullySent

\* flushPendingFrames, over the transport as the step leaves it: n messages are
\* reserved, acknowledgement k is pending and p is the next frame; after is the wire
\* without the packet being handled.
Flush(e, n, k, p, after) ==
  LET q == First[e][n + 1]
  IN IF up'[e]
       THEN /\ wire' = [after EXCEPT ![e] = @ \o Burst(e, k, p, q)]
            /\ cursor' = [cursor EXCEPT ![e] = q]
            /\ fullySent' = [fullySent EXCEPT ![e] = IF p < q THEN n ELSE @]
            /\ pendingAck' = [pendingAck EXCEPT ![e] = 0]
       ELSE /\ wire' = after
            /\ cursor' = [cursor EXCEPT ![e] = p]
            /\ pendingAck' = [pendingAck EXCEPT ![e] = k]
            /\ UNCHANGED fullySent

\* enterDegraded: what is kept, assembled or pending is dropped for good.
Degrade(e, why) ==
  /\ fault' = [fault EXCEPT ![e] = why]
  /\ staged' = [staged EXCEPT ![e] = <<>>]
  /\ pendingAck' = [pendingAck EXCEPT ![e] = 0]
  /\ saturated' = [saturated EXCEPT ![e] = FALSE]
  /\ cursor' = [cursor EXCEPT ![e] = 1]
  /\ UNCHANGED <<reserved, fullySent, acked, expected, delivered>>

\* Mutant: a duplicate is acknowledged with the message being assembled.
ReackOfExpected(e) == Len(delivered[e]) + 1

\* The number a duplicate is acknowledged with, 0 for none.
Reack(e) == Len(delivered[e])

\* Mutant: a replay sends only what was not sent.
ReplayUnsent(e) == cursor[e]

\* Mutant: a replay starts behind the oldest batch.
ReplayFromSecond(e) == IF acked[e] < reserved[e] THEN First[e][acked[e] + 2] ELSE First[e][acked[e] + 1]

\* resetReplay: the next frame to send is the first one kept.
ReplayFrom(e) == First[e][acked[e] + 1]

-----------------------------------------------------------------------------
\* The sending half.

\* reserveMessage, which is refused when the whole batch does not fit.
Reserve(e) ==
  LET n == reserved[e] + 1
  IN /\ Usable(e) /\ n <= N[e]
     /\ UNCHANGED linkVars
     /\ IF Backlog(e, n, acked[e]) > ReplayMax
          THEN Degrade(e, "other") /\ UNCHANGED wire
          ELSE /\ reserved' = [reserved EXCEPT ![e] = n]
               /\ saturated' = [saturated EXCEPT ![e] = @ \/ Backlog(e, n, acked[e]) > High]
               /\ Flush(e, n, pendingAck[e], cursor[e], wire)
               /\ UNCHANGED <<acked, receiverVars, fault>>

\* replayUnacknowledged.
Replay(e) ==
  /\ Flush(e, reserved[e], pendingAck[e], ReplayFrom(e), wire)
  /\ UNCHANGED <<reserved, acked, saturated, receiverVars, fault>>

\* The transport announces that it can send: on every heartbeat of a socket, to an
\* owner that replays.
SendReady(e) ==
  /\ e \in Resumes /\ up[e] /\ Usable(e)
  /\ Len(wire[e]) + Len(wire[Peer[e]]) < MaxWire
  /\ UNCHANGED linkVars
  /\ Replay(e)

\* Mutant: the host is told to go on below the low mark only.
BelowLow(e, k) == Backlog(e, reserved[e], k) < Low

\* onDrained: an acknowledgement through k brings the backlog down to the low mark.
Drained(e, k) == Backlog(e, reserved[e], k) <= Low

\* processAck: everything through k is released; an acknowledgement of what was
\* not sent is a fault.
ProcessAck(e, k) ==
  \/ /\ k <= acked[e]
     /\ UNCHANGED <<senderVars, receiverVars, outVars, fault>>
  \/ /\ acked[e] < k /\ fullySent[e] < k
     /\ Degrade(e, "futureAck")
  \/ /\ acked[e] < k /\ k <= fullySent[e]
     /\ acked' = [acked EXCEPT ![e] = k]
     /\ cursor' = [cursor EXCEPT ![e] = Greater(@, First[e][k + 1])]
     /\ saturated' = [saturated EXCEPT ![e] = @ /\ ~Drained(e, k)]
     /\ UNCHANGED <<reserved, fullySent, receiverVars, pendingAck, fault>>

-----------------------------------------------------------------------------
\* The receiving half.

\* queueAck keeps the largest pending number and flushes everything unsent.
QueueAck(e, k, after) ==
  Flush(e, reserved[e], Greater(pendingAck[e], k), cursor[e], after)

\* A frame the assembler has taken before; before any message is complete there
\* is nothing to acknowledge.
Duplicate(e, f, after) ==
  /\ f.seq < expected[e]
  /\ IF Reack(e) = 0
       THEN wire' = after /\ UNCHANGED <<outVars, fullySent>>
       ELSE QueueAck(e, Reack(e), after)
  /\ UNCHANGED <<reserved, acked, saturated, receiverVars, fault>>

\* Mutant: any later frame of the next message is taken for the next one.
InMessage(e, f) == f.seq >= expected[e] /\ f.msg = Len(delivered[e]) + 1

\* The next frame: of the next message, and the next fragment of it.
InSequence(e, f) ==
  /\ f.seq = expected[e]
  /\ f.msg = Len(delivered[e]) + 1
  /\ f.seq - First[Peer[e]][f.msg] = Len(staged[e])

\* A frame or a message was skipped.
Gap(e, f, after) ==
  /\ f.seq >= expected[e]
  /\ ~InSequence(e, f)
  /\ Degrade(e, "gap")
  /\ wire' = after

Incomplete(e, f, after) ==
  /\ InSequence(e, f)
  /\ Len(staged[e]) + 1 < FragmentCount(Peer[e], f.msg)
  /\ staged' = [staged EXCEPT ![e] = Append(@, f.seq)]
  /\ expected' = [expected EXCEPT ![e] = @ + 1]
  /\ wire' = after
  /\ UNCHANGED <<senderVars, outVars, delivered, fault>>

\* The last fragment: the message is delivered, then acknowledged.
Complete(e, f, after) ==
  /\ InSequence(e, f)
  /\ Len(staged[e]) + 1 = FragmentCount(Peer[e], f.msg)
  /\ delivered' = [delivered EXCEPT ![e] = Append(@, Append(staged[e], f.seq))]
  /\ staged' = [staged EXCEPT ![e] = <<>>]
  /\ expected' = [expected EXCEPT ![e] = @ + 1]
  /\ QueueAck(e, f.msg, after)
  /\ UNCHANGED <<reserved, acked, saturated, fault>>

\* acceptPayload; a degraded end ignores what arrives.
Receive(e) ==
  LET from == Peer[e]
      after == [wire EXCEPT ![from] = Tail(@)]
  IN /\ wire[from] # <<>>
     /\ UNCHANGED linkVars
     /\ LET p == Head(wire[from])
        IN \/ /\ ~Usable(e)
              /\ wire' = after
              /\ UNCHANGED <<senderVars, receiverVars, outVars, fault>>
           \/ /\ Usable(e) /\ p.type = "ack"
              /\ ProcessAck(e, p.msg)
              /\ wire' = after
           \/ /\ Usable(e) /\ p.type = "frame"
              /\ \/ Duplicate(e, p, after)
                 \/ Gap(e, p, after)
                 \/ Incomplete(e, p, after)
                 \/ Complete(e, p, after)

-----------------------------------------------------------------------------
\* Faults, deadlines and the relay.

\* The grace period of the oldest kept batch or of the pending acknowledgement.
Expire(e) ==
  /\ Usable(e)
  /\ acked[e] < reserved[e] \/ pendingAck[e] # 0
  /\ Degrade(e, "other")
  /\ UNCHANGED <<wire, linkVars>>

\* The first frame of an assembly is too old.
AssemblyTimeout(e) ==
  /\ Usable(e) /\ staged[e] # <<>>
  /\ Degrade(e, "other")
  /\ UNCHANGED <<wire, linkVars>>

\* Encoding, measuring, sending or delivering fails, or the owner gives up.
Fail(e) ==
  /\ Usable(e)
  /\ Degrade(e, "other")
  /\ UNCHANGED <<wire, linkVars>>

\* The bridge of a degraded peer is replaced, and this end disposed of with it.
Replaced(e) ==
  /\ Usable(e) /\ ~Usable(Peer[e])
  /\ Degrade(e, "other")
  /\ UNCHANGED <<wire, linkVars>>

\* The transport stops taking frames; those under way may still arrive.
Disconnect(e) ==
  /\ up[e] /\ drops < MaxDrops
  /\ up' = [up EXCEPT ![e] = FALSE]
  /\ drops' = drops + 1
  /\ UNCHANGED <<senderVars, receiverVars, outVars, fault, wire, losses>>

\* It takes frames again, and a new socket is send-ready in the same step.
Reconnect(e) ==
  /\ ~up[e]
  /\ up' = [up EXCEPT ![e] = TRUE]
  /\ IF e \in Resumes /\ Usable(e)
       THEN Replay(e)
       ELSE UNCHANGED <<senderVars, receiverVars, outVars, fault, wire>>
  /\ UNCHANGED <<drops, losses>>

\* The relay loses a run of packets, as when a socket dies with them.
Lose(e) ==
  /\ losses < MaxLosses
  /\ \E i \in 1 .. Len(wire[e]), j \in 1 .. Len(wire[e]) :
       /\ i <= j
       /\ wire' = [wire EXCEPT ![e] = SubSeq(@, 1, i - 1) \o SubSeq(@, j + 1, Len(@))]
  /\ losses' = losses + 1
  /\ UNCHANGED <<senderVars, receiverVars, outVars, fault, up, drops>>

Init ==
  /\ reserved = [e \in Ends |-> 0]
  /\ cursor = [e \in Ends |-> 1]
  /\ fullySent = [e \in Ends |-> 0]
  /\ acked = [e \in Ends |-> 0]
  /\ saturated = [e \in Ends |-> FALSE]
  /\ expected = [e \in Ends |-> 1]
  /\ staged = [e \in Ends |-> <<>>]
  /\ delivered = [e \in Ends |-> <<>>]
  /\ pendingAck = [e \in Ends |-> 0]
  /\ fault = [e \in Ends |-> "none"]
  /\ up = [e \in Ends |-> TRUE]
  /\ wire = [e \in Ends |-> <<>>]
  /\ drops = 0
  /\ losses = 0

Next == \E e \in Ends :
  \/ Reserve(e) \/ SendReady(e) \/ Receive(e)
  \/ Expire(e) \/ AssemblyTimeout(e) \/ Fail(e) \/ Replaced(e)
  \/ Disconnect(e) \/ Reconnect(e) \/ Lose(e)

Spec == Init /\ [][Next]_vars

\* Heartbeats come every ten seconds, a lost connection is retried for ever, and the
\* relay hands over what it does not lose.  The deadlines are not relied on.
Fairness == \A e \in Ends :
  WF_vars(SendReady(e)) /\ WF_vars(Receive(e)) /\ WF_vars(Reconnect(e))

FairSpec == Spec /\ Fairness

-----------------------------------------------------------------------------
\* Properties.

TypeOK ==
  /\ reserved \in [Ends -> Nat]
  /\ cursor \in [Ends -> Nat \ {0}]
  /\ fullySent \in [Ends -> Nat]
  /\ acked \in [Ends -> Nat]
  /\ saturated \in [Ends -> BOOLEAN]
  /\ expected \in [Ends -> Nat \ {0}]
  /\ staged \in [Ends -> Seq(Nat)]
  /\ delivered \in [Ends -> Seq(Seq(Nat))]
  /\ pendingAck \in [Ends -> Nat]
  /\ fault \in [Ends -> Faults \cup {"none"}]
  /\ up \in [Ends -> BOOLEAN]
  /\ wire \in [Ends -> Seq(Packets)]
  /\ drops \in 0 .. MaxDrops
  /\ losses \in 0 .. MaxLosses

\* The frames the m-th message of e is cut into.
Message == [e \in Ends |-> [m \in 1 .. N[e] |->
              [i \in 1 .. FragmentCount(e, m) |-> First[e][m] + i - 1]]]

Stream == INSTANCE ReliableStream WITH
  Other <- Peer, sent <- reserved, got <- delivered, confirmed <- acked,
  broken <- [e \in Ends |-> fault[e] # "none"]

\* However often frames are replayed, lost or assembled in part, the channel at each
\* end gets the messages of the other whole, in order and once each, and nothing
\* after the bridge is degraded (acceptPayload, WebRemoteControlRpcTransportAssembler).
ImplementsReliableStream == Stream!Spec

\* What a sender drops from its replay buffer was delivered to the channel at the
\* other end: no acknowledgement, pending, under way or processed, runs ahead of it.
AckedIsDelivered == \A e \in Ends :
  LET done == Len(delivered[Peer[e]])
  IN /\ acked[e] <= done
     /\ pendingAck[Peer[e]] <= done
     /\ \A i \in 1 .. Len(wire[Peer[e]]) :
          wire[Peer[e]][i].type = "ack" => wire[Peer[e]][i].msg <= done

\* The acknowledgement of the last message delivered reaches its sender, or is under
\* way, or is still to be sent: only the relay loses it, whatever was replayed and
\* whenever the transport was interrupted.  The phone replays nothing, so the frames
\* of its messages never come again to be acknowledged once more (queueAck,
\* flushPendingFrames).
AckIsKept == losses = 0 => \A e \in Ends :
  LET done == Len(delivered[Peer[e]])
  IN Usable(e) /\ Usable(Peer[e]) =>
       \/ acked[e] = done
       \/ pendingAck[Peer[e]] = done
       \/ \E i \in 1 .. Len(wire[Peer[e]]) : wire[Peer[e]][i] = AckOf(done)

\* The fault of an acknowledgement from the future is raised against a faulty peer
\* only: between two ends that run this code, with replays and interruptions in any
\* order, it never is (processAck).
NoFutureAck == \A e \in Ends : fault[e] # "futureAck"

\* A bridge breaks with a gap only when the relay lost something: neither a replay
\* nor an interruption makes frames skip each other (resetReplay, releaseThrough).
GapOnlyAfterLoss == (\E e \in Ends : fault[e] = "gap") => losses > 0

\* The host process that was told to pause is told to go on once the backlog is
\* small, and it is paused whenever the backlog is above the high mark
\* (updateSaturationAfterReserve, processAck).
FlowFollowsBacklog == \A e \in Ends : Usable(e) =>
  LET backlog == Backlog(e, reserved[e], acked[e])
  IN /\ saturated[e] => backlog > Low
     /\ ~saturated[e] => backlog <= High

\* A message of an end that replays is acknowledged in the end, whatever is lost on
\* the way and without the help of a deadline, unless the bridge breaks.
MessagesArrive == \A e \in Resumes : \A m \in 1 .. N[e] :
  reserved[e] >= m ~> acked[e] >= m \/ \E x \in Ends : fault[x] # "none"
=============================================================================
