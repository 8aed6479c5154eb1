------------------------------ MODULE OnceOnly ------------------------------
(***************************************************************************)
(* What the gateway promises a client that repeats a command because it    *)
(* lost the answer, without gates, tables, index or ledger: a command is   *)
(* executed at most once, by one call at a time; that call is told         *)
(* "accepted", a repetition "duplicate"; and whatever a call is told agrees *)
(* with what became of the execution, even after the process has died.     *)
(***************************************************************************)
CONSTANTS
  Cmds,
  Durable,  \* commands whose execution is to be remembered
  Calls,
  None

VARIABLES
  fate,       \* what became of each durable command
  subject,    \* the command a call is about, None between two calls
  querying,   \* whether it only asks
  executing,  \* whether it has executed the command and not been answered
  answer      \* what it is told, None before

Fates == {"open", "running", "kept", "lost"}

calls == <<subject, querying, executing, answer>>

Init ==
  /\ fate = [c \in Cmds |-> "open"]
  /\ subject = [r \in Calls |-> None]
  /\ querying = [r \in Calls |-> FALSE]
  /\ executing = [r \in Calls |-> FALSE]
  /\ answer = [r \in Calls |-> None]

Pending(r) == subject[r] # None /\ answer[r] = None

Becomes(c, from, to) == fate[c] = from /\ fate' = [fate EXCEPT ![c] = to]

Ask(r, c, query) ==
  /\ subject[r] = None
  /\ subject' = [subject EXCEPT ![r] = c]
  /\ querying' = [querying EXCEPT ![r] = query]
  /\ UNCHANGED <<fate, executing, answer>>

\* Only a command without any effect so far is executed, and no other with it.
Begin(r) ==
  /\ Pending(r) /\ ~querying[r]
  /\ \A q \in Calls : ~executing[q]
  /\ executing' = [executing EXCEPT ![r] = TRUE]
  /\ \/ subject[r] \in Durable /\ Becomes(subject[r], "open", "running")
     \/ subject[r] \notin Durable /\ UNCHANGED fate
  /\ UNCHANGED <<subject, querying, answer>>

\* The execution leaves something behind for good, or ends without a trace.
End(c) ==
  /\ Becomes(c, "running", "kept") \/ Becomes(c, "running", "lost")
  /\ UNCHANGED calls

\* What each answer means for a durable command.
Agrees(a, f) ==
  CASE a \in {"unknown", "rejected"}    -> f = "open"
    [] a \in {"accepted", "duplicate"}  -> f # "open"
    [] a = "failed"                     -> f \in {"open", "lost"}
    [] a = "unavailable"                -> TRUE
    [] OTHER                            -> FALSE

\* To a query no answer says "duplicate"; of the others "accepted" is for the
\* call that executed.
Truthful(r, a) ==
  /\ subject[r] \in Durable => Agrees(a, fate[subject[r]])
  /\ IF querying[r] THEN a \notin {"duplicate", "rejected"}
     ELSE a # "unknown" /\ (executing[r] <=> a = "accepted")

\* The calls R are answered together.
Tell(R) ==
  /\ \A r \in R : /\ Pending(r)
                  /\ answer'[r] # None /\ Truthful(r, answer'[r])
  /\ answer' = [r \in Calls |-> IF r \in R THEN answer'[r] ELSE answer[r]]
  /\ executing' = [r \in Calls |-> executing[r] /\ r \notin R]
  /\ UNCHANGED <<fate, subject, querying>>

Return(r) ==
  /\ answer[r] # None
  /\ subject' = [subject EXCEPT ![r] = None]
  /\ querying' = [querying EXCEPT ![r] = FALSE]
  /\ answer' = [answer EXCEPT ![r] = None]
  /\ UNCHANGED <<fate, executing>>

\* The process dies, and with it every call and every execution under way.
Die ==
  /\ fate' = [c \in Cmds |-> IF fate[c] = "running" THEN "lost" ELSE fate[c]]
  /\ subject' = [r \in Calls |-> None]
  /\ querying' = [r \in Calls |-> FALSE]
  /\ executing' = [r \in Calls |-> FALSE]
  /\ answer' = [r \in Calls |-> None]

Next ==
  \/ \E r \in Calls, c \in Cmds, query \in BOOLEAN : Ask(r, c, query)
  \/ \E r \in Calls : Begin(r) \/ Return(r)
  \/ \E c \in Durable : End(c)
  \/ \E R \in SUBSET Calls : Tell(R)
  \/ Die

Spec == Init /\ [][Next]_<<fate, subject, querying, executing, answer>>
=============================================================================
