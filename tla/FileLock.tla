------------------------------ MODULE FileLock ------------------------------
(***************************************************************************)
(* The directory lock that serialises whole-file updates of a shared file  *)
(* (credentials, provider configuration, settings) between the desktop     *)
(* host, the CLI and their helpers.  The lock is a directory; its owner is *)
(* the call whose owner file is alone in it.  Whoever finds the directory  *)
(* there waits, and removes what a process that exited has left behind.    *)
(*                                                                         *)
(* A step is one file system call with the code up to the next one, so two *)
(* calls interleave between any two of them.  withFileLock lets the calls  *)
(* of one process compete one by one, withAtomicFileLock all together; the *)
(* model does the latter.  A process may exit at any point and comes back, *)
(* if at all, as another process with new calls.                           *)
(***************************************************************************)
EXTENDS Integers, FiniteSets

CONSTANTS
  Calls,       \* the calls for the lock; a call's token names its owner file
  ProcOf,      \* the process of each call
  MaxInode,    \* inode numbers; one that was freed may be used again
  Lock,        \* the lock path itself, for its age
  MaxCrashes,  \* bound on the processes that exit
  SlowWrites   \* whether writing an owner file may take longer than the grace

ASSUME CallsAreFinite == IsFiniteSet(Calls)
ASSUME LockIsNotACall == Lock \notin Calls
ASSUME CallsHaveAProcess == DOMAIN ProcOf = Calls
ASSUME LockBounds == MaxInode \in Nat \ {0} /\ MaxCrashes \in Nat /\ SlowWrites \in BOOLEAN

VARIABLES
  pc,       \* what each call does next, or "dead" with its process
  kind,     \* what is at the lock path; the two files are left by an old version
  ino,      \* inode of the lock directory
  owners,   \* the owner file of each call
  old,      \* files whose timestamp is past the grace
  seen,     \* createdLockStat.ino, 0 when not known
  aged,     \* whether the directory was past the grace when inspected
  found,    \* the owner files a reclaiming call has listed
  todo,     \* those of them it has not judged yet
  version,  \* how often the protected file was replaced
  base      \* the version a call has read

waiting == <<seen, aged, found, todo>>
disk == <<kind, ino, owners, old>>
data == <<version, base>>
vars == <<pc, disk, waiting, data>>

Procs == {ProcOf[c] : c \in Calls}
Inodes == 1 .. MaxInode
Ended == {"done", "failed", "dead"}
Labels == Ended \cup {"mkdir", "stat", "open", "write", "check", "list",
  "undo", "undoDir", "read", "commit", "release", "releaseDir",
  "inspect", "entries", "owner", "remove", "removeDir", "legacy", "legacyRm"}

Live(c) == pc[c] # "dead"
Present == {c \in Calls : owners[c] # "absent"}
Running(c) == pc[c] \notin Ended
Holds(c) == pc[c] \in {"read", "commit", "release"}

At(c, l) == pc[c] = l
To(c, l) == pc' = [pc EXCEPT ![c] = l]

Init ==
  /\ pc = [c \in Calls |-> "mkdir"]
  /\ kind \in {"none", "exitedFile", "damagedFile"}
  /\ ino = 0
  /\ owners = [c \in Calls |-> "absent"]
  /\ old = {}
  /\ seen = [c \in Calls |-> 0]
  /\ aged = [c \in Calls |-> FALSE]
  /\ found = [c \in Calls |-> {}]
  /\ todo = [c \in Calls |-> {}]
  /\ version = 0
  /\ base = [c \in Calls |-> 0]

-----------------------------------------------------------------------------
\* What a file system call does to the lock.

MakeDir(i) ==
  /\ kind' = "dir" /\ ino' = i
  /\ old' = old \ {Lock}
  /\ UNCHANGED owners

\* rm of owner files, with force; the directory's timestamp changes with it.
RemoveFiles(S) ==
  /\ owners' = [t \in Calls |-> IF t \in S THEN "absent" ELSE owners[t]]
  /\ old' = IF S \cap Present = {} THEN old ELSE (old \ S) \ {Lock}
  /\ UNCHANGED <<kind, ino>>

\* Mutant: rm with recursive instead of rmdir.
RemoveDirRecursively ==
  IF kind = "dir"
  THEN /\ kind' = "none" /\ ino' = 0 /\ old' = {}
       /\ owners' = [c \in Calls |-> "absent"]
  ELSE UNCHANGED disk

\* rmdir, which refuses a directory that is not empty.
RemoveEmptyDir ==
  IF kind = "dir" /\ Present = {}
  THEN kind' = "none" /\ ino' = 0 /\ old' = old \ {Lock} /\ UNCHANGED owners
  ELSE UNCHANGED disk

-----------------------------------------------------------------------------
\* Acquiring: make the directory, put the owner file in it, verify both.

Mkdir(c) ==
  /\ At(c, "mkdir")
  /\ IF kind = "none"
     THEN To(c, "stat") /\ \E i \in Inodes : MakeDir(i)
     ELSE (\E l \in {"inspect", "failed"} : To(c, l)) /\ UNCHANGED disk
  /\ UNCHANGED <<waiting, data>>

Stat(c) ==
  /\ At(c, "stat")
  /\ seen' = [seen EXCEPT ![c] = ino]
  /\ To(c, IF kind = "dir" THEN "open" ELSE "undo")
  /\ UNCHANGED <<disk, aged, found, todo, data>>

\* The owner file is opened, and written in a call of its own.
Open(c) ==
  /\ At(c, "open")
  /\ IF kind = "dir"
     THEN /\ To(c, "write")
          /\ owners' = [owners EXCEPT ![c] = "empty"]
          /\ old' = old \ {c, Lock}
          /\ UNCHANGED <<kind, ino>>
     ELSE To(c, "undo") /\ UNCHANGED disk
  /\ UNCHANGED <<waiting, data>>

Write(c) ==
  /\ At(c, "write")
  /\ owners' = [owners EXCEPT ![c] = IF @ = "empty" THEN "written" ELSE @]
  /\ old' = old \ {c}
  /\ To(c, "check")
  /\ UNCHANGED <<kind, ino, waiting, data>>

\* Mutant: a directory that is not the one it made is left alone.
CheckTouchesOwnOnly(c) ==
  /\ At(c, "check")
  /\ To(c, IF kind = "dir" /\ ino = seen[c] THEN "list" ELSE "inspect")
  /\ UNCHANGED <<disk, waiting, data>>

Check(c) ==
  /\ At(c, "check")
  /\ To(c, IF kind = "dir" /\ ino = seen[c] THEN "list" ELSE "undo")
  /\ UNCHANGED <<disk, waiting, data>>

\* Mutant: the owner file is looked for, others beside it are not.
ListOwnFile(c) ==
  /\ At(c, "list")
  /\ To(c, IF kind = "dir" /\ c \in Present THEN "read" ELSE "undo")
  /\ seen' = [seen EXCEPT ![c] = 0]
  /\ UNCHANGED <<disk, aged, found, todo, data>>

List(c) ==
  /\ At(c, "list")
  /\ To(c, IF kind = "dir" /\ Present = {c} THEN "read" ELSE "undo")
  /\ seen' = [seen EXCEPT ![c] = 0]
  /\ UNCHANGED <<disk, aged, found, todo, data>>

Undo(c) ==
  /\ At(c, "undo")
  /\ RemoveFiles({c})
  /\ seen' = [seen EXCEPT ![c] = 0]
  /\ To(c, "undoDir")
  /\ UNCHANGED <<aged, found, todo, data>>

\* After a miss a call past its longest wait gives up and reclaims nothing.
UndoDir(c) ==
  /\ At(c, "undoDir")
  /\ RemoveEmptyDir
  /\ \E l \in {"inspect", "failed"} : To(c, l)
  /\ UNCHANGED <<waiting, data>>

-----------------------------------------------------------------------------
\* The operation under the lock reads the file and replaces it; release.

Read(c) ==
  /\ At(c, "read")
  /\ base' = [base EXCEPT ![c] = version]
  /\ To(c, "commit")
  /\ UNCHANGED <<disk, waiting, version>>

\* An operation that fails before its rename leaves the file as it was.
Commit(c) ==
  /\ At(c, "commit")
  /\ version' \in {version, version + 1}
  /\ base' = [base EXCEPT ![c] = 0]
  /\ To(c, "release")
  /\ UNCHANGED <<disk, waiting>>

\* Mutant: a file beside its own is taken for a lock that was lost, and the call
\* starts over.
ReleaseStartsOver(c) ==
  /\ At(c, "release")
  /\ RemoveFiles({c})
  /\ To(c, IF Present = {c} THEN "releaseDir" ELSE "mkdir")
  /\ UNCHANGED <<waiting, data>>

\* Its own file goes first, then the directory.
Release(c) ==
  /\ At(c, "release")
  /\ RemoveFiles({c})
  /\ To(c, "releaseDir")
  /\ UNCHANGED <<waiting, data>>

ReleaseDir(c) ==
  /\ At(c, "releaseDir")
  /\ RemoveEmptyDir
  /\ To(c, "done")
  /\ UNCHANGED <<waiting, data>>

-----------------------------------------------------------------------------
\* Reclaiming what an exited process has left.

\* Back to mkdir, with the findings of this inspection dropped.
Retry(c) ==
  /\ To(c, "mkdir")
  /\ aged' = [aged EXCEPT ![c] = FALSE]
  /\ found' = [found EXCEPT ![c] = {}]
  /\ todo' = [todo EXCEPT ![c] = {}]
  /\ UNCHANGED seen

\* The directory's age is taken from this stat, and the time from after the
\* listing: the grace may pass in between.
Inspect(c) ==
  /\ At(c, "inspect")
  /\ \/ kind = "none" /\ Retry(c)
     \/ /\ kind = "dir"
        /\ To(c, "entries")
        /\ \E b \in BOOLEAN :
             (Lock \in old => b) /\ aged' = [aged EXCEPT ![c] = b]
        /\ UNCHANGED <<seen, found, todo>>
     \/ /\ kind \in {"exitedFile", "damagedFile"}
        /\ To(c, "legacy")
        /\ UNCHANGED waiting
  /\ UNCHANGED <<disk, data>>

\* Mutant: a directory with several owners is left to its owners.
EntriesOfOne(c) ==
  /\ At(c, "entries")
  /\ IF kind = "dir" /\ (Cardinality(Present) = 1 \/ (Present = {} /\ aged[c]))
     THEN /\ To(c, IF Present = {} THEN "removeDir" ELSE "owner")
          /\ found' = [found EXCEPT ![c] = Present]
          /\ todo' = [todo EXCEPT ![c] = Present]
          /\ UNCHANGED <<seen, aged>>
     ELSE Retry(c)
  /\ UNCHANGED <<disk, data>>

\* A single owner is judged by its file alone, any other number only once the
\* directory itself is past the grace.
Entries(c) ==
  /\ At(c, "entries")
  /\ IF kind = "dir" /\ (Cardinality(Present) = 1 \/ aged[c])
     THEN /\ To(c, IF Present = {} THEN "removeDir" ELSE "owner")
          /\ found' = [found EXCEPT ![c] = Present]
          /\ todo' = [todo EXCEPT ![c] = Present]
          /\ UNCHANGED <<seen, aged>>
     ELSE Retry(c)
  /\ UNCHANGED <<disk, data>>

\* Mutant: an owner file is judged by its age, whoever wrote it.
ReclaimableByAge(t) == owners[t] = "written" \/ t \in old

\* isOwnerFileReclaimable: the process in the file has exited, or there is no
\* process in it and its timestamp is past the grace.
Reclaimable(t) ==
  \/ owners[t] = "written" /\ ~Live(t)
  \/ owners[t] = "empty" /\ t \in old

\* One listed owner file is judged; the first that is not reclaimable ends it.
Owner(c) ==
  /\ At(c, "owner")
  /\ \E t \in todo[c] :
       IF Reclaimable(t)
       THEN /\ todo' = [todo EXCEPT ![c] = @ \ {t}]
            /\ To(c, IF todo[c] = {t} THEN "remove" ELSE "owner")
            /\ UNCHANGED <<seen, aged, found>>
       ELSE Retry(c)
  /\ UNCHANGED <<disk, data>>

\* Mutant: the directory is emptied of whatever is in it by now.
RemovePresent(c) ==
  /\ At(c, "remove")
  /\ RemoveFiles(Present)
  /\ found' = [found EXCEPT ![c] = {}]
  /\ To(c, "removeDir")
  /\ UNCHANGED <<seen, aged, todo, data>>

\* Only the files that were listed are removed, in any order.
Remove(c) ==
  /\ At(c, "remove")
  /\ \E t \in found[c] :
       /\ RemoveFiles({t})
       /\ found' = [found EXCEPT ![c] = @ \ {t}]
       /\ To(c, IF found[c] = {t} THEN "removeDir" ELSE "remove")
  /\ UNCHANGED <<seen, aged, todo, data>>

RemoveDir(c) ==
  /\ At(c, "removeDir")
  /\ RemoveEmptyDir
  /\ Retry(c)
  /\ UNCHANGED <<data>>

\* A lock file of the old version: reclaimable, and the same when read again.
Legacy(c) ==
  /\ At(c, "legacy")
  /\ IF kind = "exitedFile" \/ (kind = "damagedFile" /\ Lock \in old)
     THEN To(c, "legacyRm") /\ UNCHANGED waiting
     ELSE Retry(c)
  /\ UNCHANGED <<disk, data>>

\* rm without recursive does not remove a directory that took the file's place.
LegacyRm(c) ==
  /\ At(c, "legacyRm")
  /\ IF kind \in {"exitedFile", "damagedFile"}
     THEN kind' = "none" /\ old' = old \ {Lock} /\ UNCHANGED <<ino, owners>>
     ELSE UNCHANGED disk
  /\ Retry(c)
  /\ UNCHANGED <<data>>

-----------------------------------------------------------------------------
\* The environment.

\* The process is gone with what its calls remembered; its files stay.
Crash(p) ==
  LET Here(c) == ProcOf[c] = p
      Forget(f, v) == [c \in Calls |-> IF Here(c) THEN v ELSE f[c]]
  IN /\ \E c \in Calls : Here(c) /\ Live(c)
     /\ Cardinality({ProcOf[c] : c \in {d \in Calls : ~Live(d)}}) < MaxCrashes
     /\ pc' = Forget(pc, "dead")
     /\ seen' = Forget(seen, 0) /\ aged' = Forget(aged, FALSE)
     /\ found' = Forget(found, {}) /\ todo' = Forget(todo, {})
     /\ base' = Forget(base, 0)
     /\ UNCHANGED <<disk, version>>

\* A timestamp falls behind the grace.  The age of a written owner file is
\* never looked at: its process decides.
Age(x) ==
  /\ x \notin old
  /\ IF x = Lock
     THEN kind # "none"
     ELSE owners[x] = "empty" /\ (SlowWrites \/ ~Live(x))
  /\ old' = old \cup {x}
  /\ UNCHANGED <<pc, kind, ino, owners, waiting, data>>

\* All calls have ended or died.
Terminated ==
  /\ \A c \in Calls : ~Running(c)
  /\ UNCHANGED vars

Step(c) ==
  \/ Mkdir(c) \/ Stat(c) \/ Open(c) \/ Write(c) \/ Check(c) \/ List(c)
  \/ Undo(c) \/ UndoDir(c) \/ Read(c) \/ Commit(c) \/ Release(c) \/ ReleaseDir(c)
  \/ Inspect(c) \/ Entries(c) \/ Owner(c) \/ Remove(c) \/ RemoveDir(c)
  \/ Legacy(c) \/ LegacyRm(c)

Next ==
  \/ \E c \in Calls : Step(c)
  \/ \E p \in Procs : Crash(p)
  \/ \E x \in Calls \cup {Lock} : Age(x)
  \/ Terminated

Spec == Init /\ [][Next]_vars

\* A live process goes on, and time passes.
Fairness ==
  /\ \A c \in Calls : WF_vars(Step(c))
  /\ \A x \in Calls \cup {Lock} : WF_vars(Age(x))

FairSpec == Spec /\ Fairness

-----------------------------------------------------------------------------
\* Properties.

TypeOK ==
  /\ pc \in [Calls -> Labels]
  /\ kind \in {"none", "dir", "exitedFile", "damagedFile"}
  /\ ino \in Inodes \cup {0}
  /\ owners \in [Calls -> {"absent", "empty", "written"}]
  /\ old \subseteq Calls \cup {Lock}
  /\ seen \in [Calls -> Inodes \cup {0}]
  /\ aged \in [Calls -> BOOLEAN]
  /\ found \in [Calls -> SUBSET Calls] /\ todo \in [Calls -> SUBSET Calls]
  /\ version \in Nat
  /\ base \in [Calls -> Nat]

\* Two live calls never hold the lock together, whatever a third one reclaims
\* in the meantime (acquireFileLock, removeAbandonedLock).
Exclusive == \A c, d \in Calls : Holds(c) /\ Holds(d) => c = d

\* What an operation is about to write was derived from the file it replaces:
\* no update made since its read is lost (the read-modify-write of
\* credentialService under withFileLock).
CommitIsFresh == \A c \in Calls : At(c, "commit") => base[c] = version

\* While a call holds the lock its owner file stays in the lock directory, so
\* every later comer finds it there: nobody's clean-up, of its own attempt or of
\* an abandoned lock, takes the directory or the file away.
HolderKeepsLock == \A c \in Calls : Holds(c) => kind = "dir" /\ owners[c] = "written"

\* The owner file of a live call is removed by that call alone, when it undoes
\* its attempt or releases; a reclaiming call that judged an earlier lock and
\* removes files only now does not reach it (removeAbandonedLock).
LiveOwnerIsSpared ==
  [][\A c \in Calls :
       owners[c] # "absent" /\ owners'[c] = "absent" /\ Live(c)
         => pc[c] \in {"undo", "release"}]_vars

\* Nobody reclaims the owner file of a live process, so a call that waits, has
\* given up or is through leaves none behind: also when its directory was removed
\* and made again while it was acquiring, and its file is in another call's
\* (acquireFileLock).
NoFileIsLeft == \A c \in Calls :
  Live(c) /\ owners[c] # "absent" =>
    pc[c] \in {"write", "check", "list", "undo", "read", "commit", "release"}

\* How far a call is, to its caller: the release is over with the owner file.
StageAt(l) ==
  CASE l = "read"    -> "entered"
    [] l = "commit"  -> "read"
    [] l = "release" -> "updated"
    [] l \in Ended \cup {"releaseDir"} -> "over"
    [] OTHER         -> "outside"

stage == [c \in Calls |-> StageAt(pc[c])]

Updates == INSTANCE SerialUpdates

\* The updates made under the lock are serial, though every call is many file
\* system calls, processes die between any two of them, and others clean up:
\* nobody enters while another is inside, no update is lost or made twice, and a
\* dead owner shuts nobody out of the order of the rest.
ImplementsSerialUpdates == Updates!Spec

\* A call whose competitors have all ended or died does not wait for ever: it
\* ends, past whatever they and an old version left at the lock path.
Recovered ==
  \A c \in Calls :
    (<>[](\A d \in Calls \ {c} : ~Running(d))) => <>[](~Running(c))
=============================================================================
