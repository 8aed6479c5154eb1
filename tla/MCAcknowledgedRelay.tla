------------------------ MODULE MCAcknowledgedRelay ------------------------
(***************************************************************************)
(* Instances of AcknowledgedRelay: how messages are cut into frames.       *)
(***************************************************************************)
EXTENDS AcknowledgedRelay

\* The desktop sends a message of two frames and two of one, the phone one of two.
MCN == [e \in Ends |-> IF e = "desktop" THEN 3 ELSE 1]
MCFirst == [e \in Ends |-> IF e = "desktop" THEN <<1, 3, 4, 5>> ELSE <<1, 3>>]
=============================================================================
