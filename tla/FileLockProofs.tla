--------------------------- MODULE FileLockProofs ---------------------------
(***************************************************************************)
(* Safety of FileLock for every number of calls, processes, crashes and    *)
(* inodes.  Types, and that a call leaves no owner file behind, need       *)
(* nothing else; that two live calls never hold the lock together needs    *)
(* that no call takes longer than the grace to write the owner file it has *)
(* created.                                                                *)
(***************************************************************************)
EXTENDS FileLock, TLAPS

-----------------------------------------------------------------------------
(* Types.                                                                   *)

LEMMA InitType == Init => TypeOK
<1>. SUFFICES ASSUME Init PROVE TypeOK
  OBVIOUS
<1>1. 0 \in Nat /\ {} \in SUBSET Calls /\ {} \subseteq Calls \cup {Lock}
  OBVIOUS
<1>. QED
  BY <1>1 DEF Init, TypeOK, Labels

\* What is on disk has its type, whatever a file system call does to it.
DiskOK ==
  /\ kind \in {"none", "dir", "exitedFile", "damagedFile"}
  /\ ino \in Inodes \cup {0}
  /\ owners \in [Calls -> {"absent", "empty", "written"}]
  /\ old \subseteq Calls \cup {Lock}

LEMMA DiskType ==
  ASSUME TypeOK, NEW S,
         \/ \E i \in Inodes : MakeDir(i)
         \/ RemoveFiles(S) \/ RemoveEmptyDir \/ UNCHANGED disk
  PROVE  DiskOK'
<1>0. DiskOK
  BY DEF TypeOK, DiskOK
<1>1. ASSUME NEW i \in Inodes, MakeDir(i) PROVE DiskOK'
  BY <1>0, <1>1 DEF MakeDir, DiskOK
<1>2. CASE RemoveFiles(S)
  BY <1>0, <1>2 DEF RemoveFiles, DiskOK
<1>3. CASE UNCHANGED disk
  BY <1>0, <1>3 DEF disk, DiskOK
<1>4. CASE RemoveEmptyDir
  <2>1. CASE kind = "dir" /\ Present = {}
    BY <1>0, <1>4, <2>1 DEF RemoveEmptyDir, DiskOK
  <2>2. CASE ~(kind = "dir" /\ Present = {})
    BY <1>3, <1>4, <2>2 DEF RemoveEmptyDir
  <2>. QED
    BY <2>1, <2>2
<1>. QED
  BY <1>1, <1>2, <1>3, <1>4

\* So does what a call remembers when it goes back to mkdir.
LEMMA RetryType ==
  ASSUME TypeOK, NEW c \in Calls, Retry(c)
  PROVE  /\ pc' \in [Calls -> Labels]
         /\ seen' \in [Calls -> Inodes \cup {0}]
         /\ aged' \in [Calls -> BOOLEAN]
         /\ found' \in [Calls -> SUBSET Calls] /\ todo' \in [Calls -> SUBSET Calls]
<1>0. {} \in SUBSET Calls /\ FALSE \in BOOLEAN
  OBVIOUS
<1>. QED
  BY <1>0 DEF TypeOK, Labels, Retry, To

LEMMA StepType ==
  ASSUME TypeOK, NEW c \in Calls, Step(c)
  PROVE  TypeOK'
<1>1. CASE Mkdir(c)
  <2>1. DiskOK'
    BY <1>1, DiskType DEF Mkdir
  <2>2. pc' \in [Calls -> Labels]
    BY <1>1 DEF TypeOK, Labels, Ended, Mkdir, To
  <2>. QED
    BY <1>1, <2>1, <2>2 DEF TypeOK, DiskOK, Mkdir, waiting, data
<1>2. CASE Stat(c)
  BY <1>2 DEF TypeOK, Labels, Stat, At, To, disk, data
<1>3. CASE Open(c)
  BY <1>3 DEF TypeOK, Labels, Open, At, To, disk, waiting, data
<1>4. CASE Write(c)
  BY <1>4 DEF TypeOK, Labels, Write, At, To, waiting, data
<1>5. CASE Check(c)
  BY <1>5 DEF TypeOK, Labels, Check, At, To, disk, waiting, data
<1>6. CASE List(c)
  BY <1>6 DEF TypeOK, Labels, List, At, To, disk, data
<1>7. CASE Undo(c)
  <2>1. DiskOK'
    BY <1>7, DiskType DEF Undo
  <2>. QED
    BY <1>7, <2>1 DEF TypeOK, DiskOK, Labels, Undo, At, To, data
<1>8. CASE UndoDir(c)
  <2>1. DiskOK'
    BY <1>8, DiskType DEF UndoDir
  <2>2. pc' \in [Calls -> Labels]
    BY <1>8 DEF TypeOK, Labels, Ended, UndoDir, To
  <2>. QED
    BY <1>8, <2>1, <2>2 DEF TypeOK, DiskOK, UndoDir, waiting, data
<1>9. CASE Read(c)
  BY <1>9 DEF TypeOK, Labels, Read, At, To, disk, waiting
<1>10. CASE Commit(c)
  BY <1>10 DEF TypeOK, Labels, Commit, At, To, disk, waiting
<1>11. CASE Release(c)
  <2>1. DiskOK'
    BY <1>11, DiskType DEF Release
  <2>. QED
    BY <1>11, <2>1 DEF TypeOK, DiskOK, Labels, Release, At, To, waiting, data
<1>12. CASE ReleaseDir(c)
  <2>1. DiskOK'
    BY <1>12, DiskType DEF ReleaseDir
  <2>. QED
    BY <1>12, <2>1 DEF TypeOK, DiskOK, Labels, Ended, ReleaseDir, At, To, waiting, data
<1>13. CASE Inspect(c)
  <2>0. UNCHANGED <<disk, data>>
    BY <1>13 DEF Inspect
  <2>1. CASE Retry(c)
    BY <2>0, <2>1, RetryType DEF TypeOK, disk, data
  <2>2. CASE /\ To(c, "entries")
             /\ \E b \in BOOLEAN : aged' = [aged EXCEPT ![c] = b]
             /\ UNCHANGED <<seen, found, todo>>
    BY <2>0, <2>2 DEF TypeOK, Labels, To, disk, data
  <2>3. CASE To(c, "legacy") /\ UNCHANGED waiting
    BY <2>0, <2>3 DEF TypeOK, Labels, To, disk, waiting, data
  <2>. QED
    BY <1>13, <2>1, <2>2, <2>3 DEF Inspect
<1>14. CASE Entries(c)
  <2>0. UNCHANGED <<disk, data>>
    BY <1>14 DEF Entries
  <2>1. CASE Retry(c)
    BY <2>0, <2>1, RetryType DEF TypeOK, disk, data
  <2>2. CASE /\ To(c, IF Present = {} THEN "removeDir" ELSE "owner")
             /\ found' = [found EXCEPT ![c] = Present]
             /\ todo' = [todo EXCEPT ![c] = Present]
             /\ UNCHANGED <<seen, aged>>
    <3>1. Present \in SUBSET Calls
      BY DEF Present
    <3>. QED
      BY <2>0, <2>2, <3>1 DEF TypeOK, Labels, To, disk, data
  <2>. QED
    BY <1>14, <2>1, <2>2 DEF Entries
<1>15. CASE Owner(c)
  <2>0. UNCHANGED <<disk, data>>
    BY <1>15 DEF Owner
  <2>1. CASE Retry(c)
    BY <2>0, <2>1, RetryType DEF TypeOK, disk, data
  <2>2. ASSUME NEW t \in todo[c],
               todo' = [todo EXCEPT ![c] = @ \ {t}],
               To(c, IF todo[c] = {t} THEN "remove" ELSE "owner"),
               UNCHANGED <<seen, aged, found>>
        PROVE  TypeOK'
    <3>1. todo[c] \ {t} \in SUBSET Calls
      BY DEF TypeOK
    <3>. QED
      BY <2>0, <2>2, <3>1 DEF TypeOK, Labels, To, disk, data
  <2>. QED
    BY <1>15, <2>1, <2>2 DEF Owner
<1>16. CASE Remove(c)
  <2>2. DiskOK'
    BY <1>16, DiskType DEF Remove
  <2>3. PICK t \in found[c] :
          /\ found' = [found EXCEPT ![c] = @ \ {t}]
          /\ To(c, IF found[c] = {t} THEN "removeDir" ELSE "remove")
    BY <1>16 DEF Remove
  <2>4. found[c] \ {t} \in SUBSET Calls
    BY DEF TypeOK
  <2>. QED
    BY <1>16, <2>2, <2>3, <2>4 DEF TypeOK, DiskOK, Labels, Remove, To, data
<1>17. CASE RemoveDir(c)
  <2>1. DiskOK'
    BY <1>17, DiskType DEF RemoveDir
  <2>. QED
    BY <1>17, <2>1, RetryType DEF TypeOK, DiskOK, RemoveDir, data
<1>18. CASE Legacy(c)
  BY <1>18 DEF TypeOK, Labels, Legacy, At, To, Retry, disk, waiting, data
<1>19. CASE LegacyRm(c)
  BY <1>19 DEF TypeOK, Labels, LegacyRm, At, To, Retry, disk, data
<1>. QED
  BY <1>1, <1>2, <1>3, <1>4, <1>5, <1>6, <1>7, <1>8, <1>9, <1>10, <1>11, <1>12,
     <1>13, <1>14, <1>15, <1>16, <1>17, <1>18, <1>19 DEF Step

LEMMA CrashType ==
  ASSUME TypeOK, NEW p \in Procs, Crash(p)
  PROVE  TypeOK'
BY DEF TypeOK, Labels, Ended, Crash, disk

LEMMA AgeType ==
  ASSUME TypeOK, NEW x \in Calls \cup {Lock}, Age(x)
  PROVE  TypeOK'
BY DEF TypeOK, Age, waiting, data

LEMMA NextType == TypeOK /\ [Next]_vars => TypeOK'
<1>. SUFFICES ASSUME TypeOK, [Next]_vars PROVE TypeOK'
  OBVIOUS
<1>1. CASE UNCHANGED vars
  BY <1>1 DEF TypeOK, vars, disk, waiting, data
<1>2. CASE Terminated
  BY <1>1, <1>2 DEF Terminated
<1>. QED
  BY <1>1, <1>2, StepType, CrashType, AgeType DEF Next

\* Every variable keeps its type: labels, inodes and listed owner files of every call.
THEOREM TypeCorrect == Spec => []TypeOK
<1>. QED
  BY InitType, NextType, PTL DEF Spec

-----------------------------------------------------------------------------
(* A live process leaves no owner file behind.                              *)

\* Where a call may have its owner file in the directory.
Attempting == {"write", "check", "list", "undo", "read", "commit", "release"}

LEMMA StepLeavesNoFile ==
  ASSUME TypeOK, NoFileIsLeft, NEW c \in Calls, Step(c)
  PROVE  NoFileIsLeft'
<1>1. \A d \in Calls \ {c} : pc'[d] = pc[d]
  BY DEF TypeOK, Step, Mkdir, Stat, Open, Write, Check, List, Undo, UndoDir, Read, Commit,
         Release, ReleaseDir, Inspect, Entries, Owner, Remove, RemoveDir, Legacy, LegacyRm,
         Retry, To
<1>2. \A d \in Calls \ {c} : owners'[d] # "absent" => owners[d] # "absent"
  BY DEF TypeOK, Step, Mkdir, Stat, Open, Write, Check, List, Undo, UndoDir, Read, Commit,
         Release, ReleaseDir, Inspect, Entries, Owner, Remove, RemoveDir, Legacy, LegacyRm,
         MakeDir, RemoveFiles, RemoveEmptyDir, disk
\* c goes on with its file, or has none: it is not there yet, or has just been removed.
<1>3. owners'[c] # "absent" => pc'[c] \in Attempting
  <2>. USE DEF TypeOK, NoFileIsLeft, Live, At, To, Attempting
  <2>1. CASE Undo(c) \/ Release(c)
    BY <2>1 DEF Undo, Release, RemoveFiles
  <2>2. CASE Open(c) \/ Write(c)
    BY <2>2 DEF Open, Write, disk
  <2>3. CASE Check(c) \/ List(c) \/ Read(c) \/ Commit(c)
    BY <2>3 DEF Check, List, Read, Commit
  <2>4. CASE \/ Mkdir(c) \/ Stat(c) \/ UndoDir(c) \/ ReleaseDir(c) \/ Inspect(c) \/ Entries(c)
             \/ Owner(c) \/ Remove(c) \/ RemoveDir(c) \/ Legacy(c) \/ LegacyRm(c)
    BY <2>4 DEF Mkdir, Stat, UndoDir, ReleaseDir, Inspect, Entries, Owner, Remove,
                RemoveDir, Legacy, LegacyRm, MakeDir, RemoveFiles, RemoveEmptyDir, disk
  <2>. QED
    BY <2>1, <2>2, <2>3, <2>4 DEF Step
<1>. QED
  BY <1>1, <1>2, <1>3 DEF NoFileIsLeft, Live, Attempting

\* A call that waits, has given up or is through has no owner file in the directory,
\* whoever replaced the directory under it: no live process blocks the others with a
\* file that nobody may reclaim (acquireFileLock).
THEOREM NoFileStays == Spec => []NoFileIsLeft
<1>1. Init => NoFileIsLeft
  BY DEF Init, NoFileIsLeft
<1>2. TypeOK /\ NoFileIsLeft /\ [Next]_vars => NoFileIsLeft'
  <2>. SUFFICES ASSUME TypeOK, NoFileIsLeft, [Next]_vars PROVE NoFileIsLeft'
    OBVIOUS
  <2>1. CASE \E p \in Procs : Crash(p)
    BY <2>1 DEF Crash, disk, NoFileIsLeft, Live
  <2>2. CASE \E x \in Calls \cup {Lock} : Age(x)
    BY <2>2 DEF Age, NoFileIsLeft, Live
  <2>3. CASE Terminated \/ UNCHANGED vars
    BY <2>3 DEF Terminated, vars, disk, NoFileIsLeft, Live
  <2>. QED
    BY <2>1, <2>2, <2>3, StepLeavesNoFile DEF Next
<1>. QED
  BY <1>1, <1>2, TypeCorrect, PTL DEF Spec

-----------------------------------------------------------------------------
(* The inductive invariant.                                                 *)

\* Owner files are in the lock directory.
FilesNeedADir == \A c \in Calls : owners[c] # "absent" => kind = "dir"

\* A live call that has created its owner file finds it there when it writes it, and
\* from then on until it removes it.
OwnerFileStays == \A c \in Calls :
  /\ pc[c] = "write" => owners[c] = "empty"
  /\ pc[c] \in {"check", "list", "read", "commit", "release"} => owners[c] = "written"

\* An empty owner file past the grace was left by a process that exited.
OldIsAbandoned == \A c \in Calls : owners[c] = "empty" /\ c \in old => ~Live(c)

\* The owner files a reclaiming call is through with belong to dead calls.
JudgedIsDead == \A c \in Calls :
  /\ pc[c] = "remove" => todo[c] = {}
  /\ \A t \in found[c] : t \notin todo[c] => ~Live(t)

IInv ==
  /\ TypeOK
  /\ FilesNeedADir
  /\ OwnerFileStays
  /\ OldIsAbandoned
  /\ JudgedIsDead
  /\ Exclusive
  /\ CommitIsFresh

LEMMA StepInv ==
  ASSUME ~SlowWrites, IInv, TypeOK', NEW c \in Calls, Step(c)
  PROVE  IInv'
<1>. USE DEF IInv, TypeOK, FilesNeedADir, OwnerFileStays, OldIsAbandoned, JudgedIsDead,
            Exclusive, CommitIsFresh, Holds, Live, At, To
<1>1. CASE Mkdir(c)
  BY <1>1 DEF Mkdir, MakeDir, disk, waiting, data
<1>2. CASE Stat(c)
  BY <1>2 DEF Stat, disk, data
<1>3. CASE Open(c)
  BY <1>3 DEF Open, disk, waiting, data
<1>4. CASE Write(c)
  BY <1>4 DEF Write, waiting, data
<1>5. CASE Check(c)
  BY <1>5 DEF Check, disk, waiting, data
<1>6. CASE List(c)
  \* Whoever holds the lock has its owner file there, and c saw none but its own.
  <2>1. ASSUME NEW d \in Calls, Holds(d), pc'[c] = "read"
        PROVE  d = c
    BY <1>6, <2>1 DEF List, Present
  <2>. QED
    BY <1>6, <2>1 DEF List, disk, data
<1>7. CASE Undo(c)
  BY <1>7 DEF Undo, RemoveFiles, Present, data
<1>8. CASE UndoDir(c)
  BY <1>8 DEF UndoDir, RemoveEmptyDir, Present, disk, waiting, data
<1>9. CASE Read(c)
  BY <1>9 DEF Read, disk, waiting
<1>10. CASE Commit(c)
  \* No other call is about to commit what it read before this one.
  <2>1. \A d \in Calls : pc[d] = "commit" => d = c
    BY <1>10 DEF Commit
  <2>. QED
    BY <1>10, <2>1 DEF Commit, disk, waiting
<1>11. CASE Release(c)
  BY <1>11 DEF Release, RemoveFiles, Present, waiting, data
<1>12. CASE ReleaseDir(c)
  BY <1>12 DEF ReleaseDir, RemoveEmptyDir, Present, disk, waiting, data
<1>13. CASE Inspect(c)
  BY <1>13 DEF Inspect, Retry, disk, waiting, data
<1>14. CASE Entries(c)
  BY <1>14 DEF Entries, Retry, Present, disk, data
<1>15. CASE Owner(c)
  \* What is reclaimable was written by a dead call, or not written in time by one.
  <2>1. \A t \in Calls : Reclaimable(t) => ~Live(t)
    BY DEF Reclaimable
  <2>. QED
    BY <1>15, <2>1 DEF Owner, Retry, disk, data
<1>16. CASE Remove(c)
  \* Every listed file has been judged by now.
  <2>1. \A t \in found[c] : ~Live(t)
    BY <1>16 DEF Remove
  <2>. QED
    BY <1>16, <2>1 DEF Remove, RemoveFiles, Present, data
<1>17. CASE RemoveDir(c)
  BY <1>17 DEF RemoveDir, Retry, RemoveEmptyDir, Present, disk, data
<1>18. CASE Legacy(c)
  BY <1>18 DEF Legacy, Retry, disk, waiting, data
<1>19. CASE LegacyRm(c)
  BY <1>19 DEF LegacyRm, Retry, disk, data
<1>. QED
  BY <1>1, <1>2, <1>3, <1>4, <1>5, <1>6, <1>7, <1>8, <1>9, <1>10, <1>11, <1>12, <1>13, <1>14, <1>15, <1>16, <1>17, <1>18, <1>19 DEF Step

LEMMA CrashInv ==
  ASSUME IInv, TypeOK', NEW p \in Procs, Crash(p)
  PROVE  IInv'
BY DEF IInv, TypeOK, FilesNeedADir, OwnerFileStays, OldIsAbandoned, JudgedIsDead,
       Exclusive, CommitIsFresh, Holds, Live, At, Crash, disk

LEMMA AgeInv ==
  ASSUME ~SlowWrites, IInv, TypeOK', NEW x \in Calls \cup {Lock}, Age(x)
  PROVE  IInv'
BY LockIsNotACall
   DEF IInv, TypeOK, FilesNeedADir, OwnerFileStays, OldIsAbandoned, JudgedIsDead,
       Exclusive, CommitIsFresh, Holds, Live, At, Age, waiting, data

LEMMA InitInv == Init => IInv
<1>. SUFFICES ASSUME Init PROVE IInv
  OBVIOUS
<1>. QED
  BY InitType DEF Init, IInv, FilesNeedADir, OwnerFileStays, OldIsAbandoned, JudgedIsDead,
                  Exclusive, CommitIsFresh, Holds, Live, At

LEMMA NextInv ==
  ASSUME ~SlowWrites, IInv, [Next]_vars
  PROVE  IInv'
<1>1. TypeOK'
  BY NextType DEF IInv
<1>2. CASE UNCHANGED vars
  BY <1>1, <1>2 DEF IInv, FilesNeedADir, OwnerFileStays, OldIsAbandoned, JudgedIsDead,
                    Exclusive, CommitIsFresh, Holds, Live, At, vars, disk, waiting, data
<1>3. CASE Terminated
  BY <1>2, <1>3 DEF Terminated
<1>. QED
  BY <1>1, <1>2, <1>3, StepInv, CrashInv, AgeInv DEF Next

\* The files of live calls stay whatever the dead leave behind: the inductive
\* invariant of the lock.
THEOREM Invariance ==
  ASSUME ~SlowWrites
  PROVE  Spec => []IInv
<1>1. IInv /\ [Next]_vars => IInv'
  BY NextInv
<1>. QED
  BY <1>1, InitInv, PTL DEF Spec

-----------------------------------------------------------------------------
(* What follows from it.                                                    *)

\* No two live calls hold the lock, however many processes die and whoever reclaims
\* what they left, in acquireFileLock and removeAbandonedLock.
THEOREM MutualExclusion ==
  ASSUME ~SlowWrites
  PROVE  Spec => []Exclusive
<1>1. IInv => Exclusive
  BY DEF IInv
<1>. QED
  BY <1>1, Invariance, PTL

\* No update of the protected file is lost: what is written was derived from the
\* version it replaces.
THEOREM NoLostUpdate ==
  ASSUME ~SlowWrites
  PROVE  Spec => []CommitIsFresh
<1>1. IInv => CommitIsFresh
  BY DEF IInv
<1>. QED
  BY <1>1, Invariance, PTL

\* The owner file of a holder stays in the lock directory as long as it holds.
THEOREM LockStays ==
  ASSUME ~SlowWrites
  PROVE  Spec => []HolderKeepsLock
<1>1. IInv => HolderKeepsLock
  BY DEF IInv, FilesNeedADir, OwnerFileStays, HolderKeepsLock, Holds
<1>. QED
  BY <1>1, Invariance, PTL

\* Only the call itself removes the owner file of a live call.
OwnRemoval ==
  \A c \in Calls :
    owners[c] # "absent" /\ owners'[c] = "absent" /\ Live(c)
      => pc[c] \in {"undo", "release"}

LEMMA StepSpares ==
  ASSUME IInv, NEW d \in Calls, Step(d)
  PROVE  OwnRemoval
<1>. USE DEF OwnRemoval, IInv, TypeOK, At
<1>1. CASE Undo(d)
  BY <1>1 DEF Undo, RemoveFiles
<1>2. CASE Release(d)
  BY <1>2 DEF Release, RemoveFiles
<1>3. CASE Remove(d)
  <2>1. \A t \in found[d] : ~Live(t)
    BY <1>3 DEF Remove, JudgedIsDead
  <2>. QED
    BY <1>3, <2>1 DEF Remove, RemoveFiles
<1>4. CASE Open(d) \/ Write(d)
  BY <1>4 DEF Open, Write, disk
<1>5. CASE UNCHANGED owners
  BY <1>5
<1>6. \/ Undo(d) \/ Release(d) \/ Remove(d) \/ Open(d) \/ Write(d)
      \/ UNCHANGED owners
  BY DEF Step, Mkdir, Stat, Check, List, UndoDir, Read, Commit, ReleaseDir, Inspect,
         Entries, Owner, RemoveDir, Legacy, LegacyRm, MakeDir, RemoveEmptyDir, disk
<1>. QED
  BY <1>1, <1>2, <1>3, <1>4, <1>5, <1>6

\* A reclaiming call never reaches the file of a live one, even when the directory it
\* judged has been replaced since.
THEOREM LiveOwnersAreSpared ==
  ASSUME ~SlowWrites
  PROVE  Spec => LiveOwnerIsSpared
<1>1. IInv /\ [Next]_vars => [OwnRemoval]_vars
  <2>. SUFFICES ASSUME IInv, Next PROVE OwnRemoval
    OBVIOUS
  <2>1. CASE \E p \in Procs : Crash(p)
    BY <2>1 DEF Crash, disk, OwnRemoval
  <2>2. CASE \E x \in Calls \cup {Lock} : Age(x)
    BY <2>2 DEF Age, OwnRemoval
  <2>3. CASE Terminated
    BY <2>3 DEF Terminated, vars, disk, OwnRemoval
  <2>. QED
    BY <2>1, <2>2, <2>3, StepSpares DEF Next
<1>. QED
  BY <1>1, Invariance, PTL DEF Spec, LiveOwnerIsSpared, OwnRemoval

-----------------------------------------------------------------------------
(* The updates under the lock are serial.                                   *)

updateVars == <<stage, version, base>>

\* What a label stands for to the caller.
LEMMA LabelStages ==
  /\ StageAt("read") = "entered"
  /\ StageAt("commit") = "read"
  /\ StageAt("release") = "updated"
  /\ \A l \in Ended \cup {"releaseDir"} : StageAt(l) = "over"
  /\ \A l \in Labels \ (Ended \cup {"read", "commit", "release", "releaseDir"}) :
       StageAt(l) = "outside"
BY DEF StageAt, Ended, Labels

\* A step of a call moves that call alone.
LEMMA StageMoves ==
  ASSUME TypeOK, NEW c \in Calls, NEW l \in Labels, To(c, l)
  PROVE  stage' = [stage EXCEPT ![c] = StageAt(l)]
BY DEF TypeOK, To, stage

\* Inside is who holds the lock.
LEMMA InsideHolds ==
  ASSUME TypeOK, NEW c \in Calls
  PROVE  Updates!Inside(c) <=> Holds(c)
BY LabelStages DEF TypeOK, Updates!Inside, Holds, stage, Labels

\* A step that leads from one label outside of the lock to another is none to the
\* caller, unless the call gives up.
LEMMA OutsideSteps ==
  ASSUME TypeOK, NEW c \in Calls,
         NEW l \in Labels \ (Ended \cup {"read", "commit", "release", "releaseDir"}),
         pc[c] = l, data' = data,
         NEW m \in Labels, To(c, m), StageAt(m) \in {"outside", "over"}
  PROVE  Updates!Next \/ UNCHANGED updateVars
<1>1. stage' = [stage EXCEPT ![c] = StageAt(m)] /\ stage[c] = "outside"
  BY StageMoves, LabelStages DEF stage
<1>2. CASE StageAt(m) = "outside"
  BY <1>1, <1>2 DEF updateVars, data, stage
<1>3. CASE StageAt(m) = "over"
  BY <1>1, <1>3 DEF Updates!Next, Updates!Leave, Updates!Goes, data
<1>. QED
  BY <1>2, <1>3

LEMMA StepRefines ==
  ASSUME IInv, NEW c \in Calls, Step(c)
  PROVE  Updates!Next \/ UNCHANGED updateVars
<1>. USE DEF At
<1>0. TypeOK
  BY DEF IInv
<1>1. CASE List(c)
  \* Whoever is inside has its owner file there, and c saw none but its own.
  <2>1. CASE To(c, "read")
    <3>1. \A d \in Calls : ~Holds(d)
      BY <1>1, <2>1 DEF List, IInv, TypeOK, OwnerFileStays, Present, Holds, To, Labels
    <3>2. stage[c] = "outside"
      BY <1>1, LabelStages DEF List, stage, Labels, Ended
    <3>3. stage' = [stage EXCEPT ![c] = "entered"]
      BY <1>0, <2>1, StageMoves, LabelStages DEF Labels
    <3>. QED
      BY <1>0, <1>1, <3>1, <3>2, <3>3, InsideHolds
         DEF List, Updates!Next, Updates!Enter, Updates!Goes, data
  <2>2. CASE To(c, "undo")
    BY <1>0, <1>1, <2>2, OutsideSteps, LabelStages DEF List, Labels, Ended
  <2>. QED
    BY <1>1, <2>1, <2>2 DEF List
<1>2. CASE Read(c)
  <2>1. stage' = [stage EXCEPT ![c] = "read"] /\ stage[c] = "entered"
    BY <1>0, <1>2, StageMoves, LabelStages DEF Read, stage, Labels
  <2>. QED
    BY <1>2, <2>1 DEF Read, Updates!Next, Updates!Read, Updates!Goes
<1>3. CASE Commit(c)
  <2>1. stage' = [stage EXCEPT ![c] = "updated"] /\ stage[c] = "read"
    BY <1>0, <1>3, StageMoves, LabelStages DEF Commit, stage, Labels
  <2>2. base[c] = version
    BY <1>3 DEF Commit, IInv, CommitIsFresh
  <2>. QED
    BY <1>3, <2>1, <2>2 DEF Commit, Updates!Next, Updates!Update, Updates!Goes
<1>4. CASE Release(c)
  <2>1. stage' = [stage EXCEPT ![c] = "over"] /\ stage[c] = "updated"
    BY <1>0, <1>4, StageMoves, LabelStages DEF Release, stage, Labels
  <2>. QED
    BY <1>4, <2>1 DEF Release, Updates!Next, Updates!Leave, Updates!Goes, data
<1>5. CASE ReleaseDir(c)
  <2>1. stage[c] = "over"
    BY <1>5, LabelStages DEF ReleaseDir, stage
  <2>2. stage' = [stage EXCEPT ![c] = "over"]
    <3>1. "done" \in Labels /\ StageAt("done") = "over" /\ To(c, "done")
      BY <1>5, LabelStages DEF ReleaseDir, Labels, Ended
    <3>. QED
      BY <1>0, <3>1, StageMoves
  <2>. QED
    BY <1>5, <2>1, <2>2 DEF ReleaseDir, updateVars, stage, data
\* Every other step is outside of the lock.
<1>6. CASE \/ Mkdir(c) \/ Stat(c) \/ Open(c) \/ Write(c) \/ Check(c) \/ Undo(c)
           \/ UndoDir(c) \/ Inspect(c) \/ Entries(c) \/ Owner(c) \/ Remove(c)
           \/ RemoveDir(c) \/ Legacy(c) \/ LegacyRm(c)
  <2>. DEFINE Out == Labels \ (Ended \cup {"read", "commit", "release", "releaseDir"})
  <2>1. pc[c] \in Out /\ data' = data
    BY <1>6 DEF Mkdir, Stat, Open, Write, Check, Undo, UndoDir, Inspect, Entries, Owner,
                Remove, RemoveDir, Legacy, LegacyRm, data, Labels, Ended
  <2>2. \E m \in Out \cup {"failed"} : To(c, m)
    BY <1>6 DEF Mkdir, Stat, Open, Write, Check, Undo, UndoDir, Inspect, Entries, Owner,
                Remove, RemoveDir, Legacy, LegacyRm, Retry, Labels, Ended
  <2>3. \A m \in Out \cup {"failed"} : m \in Labels /\ StageAt(m) \in {"outside", "over"}
    BY LabelStages DEF Labels, Ended
  <2>. QED
    BY <1>0, <2>1, <2>2, <2>3, OutsideSteps
<1>. QED
  BY <1>1, <1>2, <1>3, <1>4, <1>5, <1>6 DEF Step

LEMMA CrashRefines ==
  ASSUME IInv, NEW p \in Procs, Crash(p)
  PROVE  Updates!Next
<1>. DEFINE D == {c \in Calls : ProcOf[c] = p}
<1>1. stage' = [c \in Calls |-> IF c \in D THEN "over" ELSE stage[c]]
  BY LabelStages DEF Crash, stage, Ended
<1>2. base' = [c \in Calls |-> IF c \in D THEN 0 ELSE base[c]] /\ UNCHANGED version
  BY DEF Crash
<1>3. Updates!Die(D)
  BY <1>1, <1>2 DEF Updates!Die
<1>. QED
  BY <1>3 DEF Updates!Next

\* The lock makes the updates of all processes serial: nobody enters while another
\* is inside, each replaces the version it has read, none is made twice, and a death
\* inside opens the way for the next.
THEOREM Refinement ==
  ASSUME ~SlowWrites
  PROVE  Spec => ImplementsSerialUpdates
<1>1. Init => Updates!Init
  BY LabelStages DEF Init, Updates!Init, stage, Labels, Ended
<1>2. IInv /\ [Next]_vars => [Updates!Next]_updateVars
  <2>. SUFFICES ASSUME IInv, [Next]_vars PROVE Updates!Next \/ UNCHANGED updateVars
    OBVIOUS
  <2>1. CASE \E x \in Calls \cup {Lock} : Age(x)
    BY <2>1 DEF Age, updateVars, stage, data
  <2>2. CASE Terminated \/ UNCHANGED vars
    BY <2>2 DEF Terminated, vars, updateVars, stage, data
  <2>. QED
    BY <2>1, <2>2, StepRefines, CrashRefines DEF Next
<1>. QED
  BY <1>1, <1>2, Invariance, PTL
     DEF Spec, Updates!Spec, ImplementsSerialUpdates, updateVars
=============================================================================
