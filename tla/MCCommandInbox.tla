--------------------------- MODULE MCCommandInbox ---------------------------
(***************************************************************************)
(* Instances of CommandInbox.  Requests are interchangeable, and so are    *)
(* the commands of one kind: nothing in the module orders them.            *)
(***************************************************************************)
EXTENDS CommandInbox, TLC

Symmetry == Permutations(Requests) \cup Permutations(Inputs)
            \cup Permutations(Compacts)
=============================================================================
