--------------------------- MODULE ReliableStream ---------------------------
(***************************************************************************)
(* What a bridge of the web remote control promises to the RPC channels at *)
(* its two ends: each direction delivers the messages of its sender whole, *)
(* in order and once each, a sender discards a message only after it was   *)
(* delivered, and when an end breaks it stays broken and delivers no more. *)
(***************************************************************************)
EXTENDS Naturals, Sequences

CONSTANTS
  Ends,
  Other,    \* Other[e] is the end opposite e
  Message   \* Message[e][m] is the m-th message of e

VARIABLES
  sent,       \* how many messages each end has sent
  got,        \* the messages delivered at each end
  confirmed,  \* how many messages each end has discarded as delivered
  broken

Init ==
  /\ sent = [e \in Ends |-> 0]
  /\ got = [e \in Ends |-> <<>>]
  /\ confirmed = [e \in Ends |-> 0]
  /\ broken = [e \in Ends |-> FALSE]

Send(e) ==
  /\ ~broken[e]
  /\ sent' = [sent EXCEPT ![e] = @ + 1]
  /\ UNCHANGED <<got, confirmed, broken>>

Deliver(e) ==
  /\ ~broken[e]
  /\ Len(got[e]) < sent[Other[e]]
  /\ got' = [got EXCEPT ![e] = Append(@, Message[Other[e]][Len(@) + 1])]
  /\ UNCHANGED <<sent, confirmed, broken>>

Confirm(e) ==
  /\ ~broken[e]
  /\ \E k \in confirmed[e] + 1 .. Len(got[Other[e]]) :
       confirmed' = [confirmed EXCEPT ![e] = k]
  /\ UNCHANGED <<sent, got, broken>>

Break(e) ==
  /\ ~broken[e]
  /\ broken' = [broken EXCEPT ![e] = TRUE]
  /\ UNCHANGED <<sent, got, confirmed>>

Next == \E e \in Ends : Send(e) \/ Deliver(e) \/ Confirm(e) \/ Break(e)

Spec == Init /\ [][Next]_<<sent, got, confirmed, broken>>
=============================================================================
