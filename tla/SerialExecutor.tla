--------------------------- MODULE SerialExecutor ---------------------------
(***************************************************************************)
(* What an AgentRuntime promises the callers of its command queue, without *)
(* queue, lease or turn: a command is accepted, executed at most once, and *)
(* settled once and for all, and executions never overlap.  An execution   *)
(* is begun by one command, or by several that may share it; while it goes *)
(* on, further commands may join it.                                       *)
(***************************************************************************)
CONSTANTS
  Cmds,
  Sharing,  \* commands that may begin an execution together
  Joining   \* commands that may join an execution under way

VARIABLE stage

Stages == {"outside", "waiting", "running", "settled"}
Forward ==
  { <<"outside", "waiting">>, <<"outside", "running">>, <<"outside", "settled">>,
    <<"waiting", "running">>, <<"waiting", "settled">>, <<"running", "settled">> }

running == {c \in Cmds : stage[c] = "running"}

Init == stage = [c \in Cmds |-> "outside"]

\* A step takes commands forward, never back.
Advance ==
  /\ stage' \in [Cmds -> Stages]
  /\ \A c \in Cmds : stage'[c] # stage[c] => <<stage[c], stage'[c]>> \in Forward

\* The idle executor begins an execution, if it begins one at all.
Begin ==
  /\ running = {}
  /\ Advance
  /\ running' \subseteq Sharing \/ \E c \in Cmds : running' = {c}

\* An execution ends, or goes on with the commands that joined it.
Continue ==
  /\ running # {}
  /\ Advance
  /\ running' = {} \/ running \cap running' # {}
  /\ running' \ running \subseteq Joining

Spec == Init /\ [][Begin \/ Continue]_stage
=============================================================================
