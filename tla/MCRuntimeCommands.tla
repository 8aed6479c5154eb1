------------------------- MODULE MCRuntimeCommands -------------------------
(* RuntimeCommands with the refinement mapping to SerialExecutor.          *)
EXTENDS RuntimeCommands, TLC

stage ==
  [c \in Cmds |-> IF where[c] = "new" THEN "outside"
                  ELSE IF where[c] = "queued" THEN "waiting"
                  ELSE IF where[c] \in {"running", "absorbing"} THEN "running" ELSE "settled"]

Executor == INSTANCE SerialExecutor WITH Sharing <- Notifications, Joining <- Wakes

\* The queue, its drain, the active loop and the promotion lease together behave
\* as one serial executor: no command runs twice, none runs after it settled, a
\* new execution begins only when the previous one is over, and only wakes share
\* or join an execution.
IsSerialExecutor == Executor!Spec

\* Only their arrival tells the notifications of one execution apart.
Interchangeable ==
  Permutations(Notifications \cap OffPeak) \cup Permutations(Notifications \ OffPeak)
=============================================================================
