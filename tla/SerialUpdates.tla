---------------------------- MODULE SerialUpdates ----------------------------
(***************************************************************************)
(* What withFileLock promises the callers that update a shared file, with- *)
(* out directory, owner files or reclaiming: the updates take effect one   *)
(* after the other, each made from the version that it replaces, by one    *)
(* caller that is inside; a caller that dies lets the next one in and has  *)
(* replaced the file or left it as it was.                                 *)
(***************************************************************************)
EXTENDS Naturals

CONSTANT Calls

VARIABLES
  stage,    \* how far each call is
  version,  \* how often the file was replaced
  base      \* the version a call has read

Inside(c) == stage[c] \in {"entered", "read", "updated"}

Goes(c, from, to) ==
  stage[c] = from /\ stage' = [stage EXCEPT ![c] = to]

Init ==
  /\ stage = [c \in Calls |-> "outside"]
  /\ version = 0
  /\ base = [c \in Calls |-> 0]

Enter(c) ==
  /\ \A d \in Calls : ~Inside(d)
  /\ Goes(c, "outside", "entered")
  /\ UNCHANGED <<version, base>>

Read(c) ==
  /\ Goes(c, "entered", "read")
  /\ base' = [base EXCEPT ![c] = version]
  /\ UNCHANGED version

\* The file is replaced by what was made from the version read, or kept.
Update(c) ==
  /\ Goes(c, "read", "updated")
  /\ base[c] = version
  /\ version' \in {version, base[c] + 1}
  /\ base' = [base EXCEPT ![c] = 0]

\* The call is over, whether it was inside or gave up.
Leave(c) ==
  /\ Goes(c, "updated", "over") \/ Goes(c, "outside", "over")
  /\ UNCHANGED <<version, base>>

\* The calls D die together, wherever they are.
Die(D) ==
  /\ stage' = [c \in Calls |-> IF c \in D THEN "over" ELSE stage[c]]
  /\ base' = [c \in Calls |-> IF c \in D THEN 0 ELSE base[c]]
  /\ UNCHANGED version

Next ==
  \/ \E c \in Calls : Enter(c) \/ Read(c) \/ Update(c) \/ Leave(c)
  \/ \E D \in SUBSET Calls : Die(D)

Spec == Init /\ [][Next]_<<stage, version, base>>
=============================================================================
