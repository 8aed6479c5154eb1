----------------------------- MODULE MCFileLock -----------------------------
(***************************************************************************)
(* Three calls of three processes: two of them may exit, one after the     *)
(* other, and the rest race for what they have left.                       *)
(***************************************************************************)
EXTENDS FileLock

CONSTANTS c1, c2, c3, p1, p2, p3

MCCalls == {c1, c2, c3}
MCProcOf == [c \in MCCalls |-> CASE c = c1 -> p1 [] c = c2 -> p2 [] c = c3 -> p3]
=============================================================================
