--------------------------- MODULE BuildImageSet ---------------------------
(***************************************************************************)
(* bin/build-image-set, as many copies of it as cron and the operators     *)
(* start, and the locks they share under $CDIMAGE_ROOT:                    *)
(*                                                                         *)
(*   setLock   .lock-build-image-set-$PROJECT-$DIST-$IMAGE_TYPE, one per   *)
(*             image set, broken by lockfile after 7200 s;                 *)
(*   sem       the counting semaphore .sem-build-image-set, whose two      *)
(*             operations are atomic (SemaphoreProofs!Refinement);         *)
(*   syncLock  .lock-archive-sync, never broken;                           *)
(*   ftpLock   anonftpsync's own Archive-Update-in-Progress, broken after  *)
(*             43200 s, also taken by an operator's wait-for-package.      *)
(*                                                                         *)
(* A builder's commands are the values of its pc; CLEANUP is the script's  *)
(* cleanup stack.  The commands between the sync and the publication are   *)
(* one phase, "build", that reads the archive and may fail.                *)
(*                                                                         *)
(* Spec is the scripts left alone: builds may fail and lockfile may give   *)
(* up.  FaultSpec adds the kinds of fault named by Faults, each at most    *)
(* once, and at most MaxFaults in all.                                     *)
(***************************************************************************)
EXTENDS Integers, Sequences, FiniteSets

CONSTANTS
    Builders,   \* invocations of build-image-set
    Operator,   \* the operator, who runs wait-for-package
    Nobody,     \* the lock file does not exist
    ImageSets,  \* $PROJECT-$DIST-$IMAGE_TYPE
    SetOf,      \* SetOf[b]: the image set b builds
    NoSync,     \* the builders whose environment has CDIMAGE_NOSYNC
    Faults,     \* a subset of FaultKinds
    MaxFaults   \* bound of the model: faults in one behaviour, each of its own kind

FaultKinds == {"crash", "signal", "slow", "refuse"}

ASSUME BuildersAssumption ==
    /\ IsFiniteSet(Builders)
    /\ Operator \notin Builders
    /\ Nobody \notin Builders \cup {Operator}
ASSUME SetOfAssumption ==
    /\ SetOf \in [Builders -> ImageSets]
    /\ "ftp" \notin ImageSets
ASSUME NoSyncAssumption == NoSync \subseteq Builders
ASSUME FaultsAssumption == Faults \subseteq FaultKinds /\ MaxFaults \in Nat

VARIABLES
    setLock,    \* setLock[s]: who created the lock file of s, or Nobody
    sem,        \* the semaphore
    syncLock,   \* who created .lock-archive-sync, or Nobody
    ftpLock,    \* who created anonftpsync's lock file, or Nobody
    aged,       \* the lock files older than the -l they are tried with
    pc,         \* pc[x]: the next command of builder (or operator) x
    CLEANUP,    \* CLEANUP[b]: the cleanup stack
    first,      \* the builders whose SEM_STATE is 0
    exiting,    \* the builders whose trap on EXIT has begun
    faults      \* the kinds of fault so far

vars == <<setLock, sem, syncLock, ftpLock, aged, pc, CLEANUP, first, exiting,
          faults>>

locks == <<setLock, sem, syncLock, ftpLock, aged>>
mine  == <<CLEANUP, first, exiting>>

Syncers == Builders \cup {Operator}

\* anonftpsync: its lock file, its two rsync passes, the end of the script.
Rsyncing == {"pass1", "pass2"}
FtpPCs == {"ftplock", "ftpdone"} \cup Rsyncing

PCs == {"idle", "lockset", "pushset", "increment", "pushsem", "sync",
        "pushsync", "popsync", "poppedsync", "unlocksync", "build", "publish",
        "cleanup", "pop"} \cup FtpPCs

Stacks == {<< >>, <<"set">>, <<"set", "sem">>, <<"set", "sem", "sync">>}

TypeOK ==
    /\ setLock \in [ImageSets -> Builders \cup {Nobody}]
    /\ sem \in Nat
    /\ syncLock \in Builders \cup {Nobody}
    /\ ftpLock \in Syncers \cup {Nobody}
    /\ aged \subseteq ImageSets \cup {"ftp"}
    /\ pc \in [Syncers -> PCs]
    /\ CLEANUP \in [Builders -> Stacks]
    /\ first \subseteq Builders
    /\ exiting \subseteq Builders
    /\ faults \in SUBSET Faults

Init ==
    /\ setLock = [s \in ImageSets |-> Nobody]
    /\ sem = 0
    /\ syncLock = Nobody
    /\ ftpLock = Nobody
    /\ aged = {}
    /\ pc = [x \in Syncers |-> "idle"]
    /\ CLEANUP = [b \in Builders |-> << >>]
    /\ first = {}
    /\ exiting = {}
    /\ faults = {}

Goto(x, from, to) ==
    /\ pc[x] = from
    /\ pc' = [pc EXCEPT ![x] = to]

\* The script exits, with any status: the trap on EXIT runs cleanup.
ExitFrom(b, from) ==
    /\ Goto(b, from, "cleanup")
    /\ exiting' = exiting \cup {b}
    /\ UNCHANGED <<CLEANUP, first>>

\* The process is gone, and its shell variables with it.
Gone(b) ==
    /\ pc' = [pc EXCEPT ![b] = "idle"]
    /\ CLEANUP' = [CLEANUP EXCEPT ![b] = << >>]
    /\ first' = first \ {b}
    /\ exiting' = exiting \ {b}

push_cleanup(b, command) ==
    /\ CLEANUP' = [CLEANUP EXCEPT ![b] = Append(@, command)]
    /\ UNCHANGED <<first, exiting>>

Top(b) == CLEANUP[b][Len(CLEANUP[b])]

DropTop(b) ==
    /\ CLEANUP' = [CLEANUP EXCEPT ![b] = SubSeq(@, 1, Len(@) - 1)]
    /\ UNCHANGED <<first, exiting>>

\* rm -f of a lock file, whoever created it.
RemoveSetLock(s) ==
    /\ setLock' = [setLock EXCEPT ![s] = Nobody]
    /\ aged' = aged \ {s}
RemoveFtpLock ==
    /\ ftpLock' = Nobody
    /\ aged' = aged \ {"ftp"}
-----------------------------------------------------------------------------
(* The image set's lock and the semaphore. *)

Start(b) ==
    /\ Goto(b, "idle", "lockset")
    /\ UNCHANGED <<locks, mine, faults>>

LockSet(b) ==
    /\ Goto(b, "lockset", "pushset")
    /\ setLock[SetOf[b]] = Nobody
    /\ setLock' = [setLock EXCEPT ![SetOf[b]] = b]
    /\ UNCHANGED <<sem, syncLock, ftpLock, aged, mine, faults>>

\* Mutant: the lock file is broken whatever its age.
BreakYoungSetLock(b) ==
    /\ pc[b] = "lockset"
    /\ setLock[SetOf[b]] # Nobody
    /\ RemoveSetLock(SetOf[b])
    /\ UNCHANGED <<sem, syncLock, ftpLock, pc, mine, faults>>

\* Mutant: no -l.
BreakNoSetLock(b) ==
    /\ pc[b] = "lockset"
    /\ SetOf[b] \in aged
    /\ UNCHANGED vars

\* lockfile -l 7200 removes an old lock file, sleeps, and tries again.
BreakSetLock(b) ==
    /\ pc[b] = "lockset"
    /\ SetOf[b] \in aged
    /\ RemoveSetLock(SetOf[b])
    /\ UNCHANGED <<sem, syncLock, ftpLock, pc, mine, faults>>

\* "Another image set is already building!"
SetLocked(b) ==
    /\ setLock[SetOf[b]] # Nobody
    /\ SetOf[b] \notin aged
    /\ ExitFrom(b, "lockset")
    /\ UNCHANGED <<locks, faults>>

PushSet(b) ==
    /\ Goto(b, "pushset", "increment")
    /\ push_cleanup(b, "set")
    /\ UNCHANGED <<locks, faults>>

\* Mutant: test-increment prints the value after the addition.
IncrementTest(b) ==
    /\ Goto(b, "increment", "pushsem")
    /\ sem' = sem + 1
    /\ UNCHANGED <<setLock, syncLock, ftpLock, aged, mine, faults>>

Increment(b) ==
    /\ Goto(b, "increment", "pushsem")
    /\ first' = IF sem = 0 THEN first \cup {b} ELSE first
    /\ sem' = sem + 1
    /\ UNCHANGED <<setLock, syncLock, ftpLock, aged, CLEANUP, exiting, faults>>

PushSem(b) ==
    /\ \/ b \notin NoSync /\ Goto(b, "pushsem", "sync")
       \/ b \in NoSync /\ Goto(b, "pushsem", "build")
    /\ push_cleanup(b, "sem")
    /\ UNCHANGED <<locks, faults>>
-----------------------------------------------------------------------------
(* The archive sync. *)

\* SEM_STATE is 0: lockfile -r 4, then anonftpsync under the lock.
LockSync(b) ==
    /\ b \in first
    /\ Goto(b, "sync", "pushsync")
    /\ syncLock = Nobody
    /\ syncLock' = b
    /\ UNCHANGED <<setLock, sem, ftpLock, aged, mine, faults>>

\* Otherwise lockfile -8 -r 450, only to wait for the lock file to go away.
WaitForSync(b) ==
    /\ b \notin first
    /\ Goto(b, "sync", "unlocksync")
    /\ syncLock = Nobody
    /\ syncLock' = b
    /\ UNCHANGED <<setLock, sem, ftpLock, aged, mine, faults>>

\* Before that the log cannot be opened, or either lockfile runs out of retries.
StopBeforeSync(b) ==
    /\ ExitFrom(b, "sync")
    /\ UNCHANGED <<locks, faults>>

UnlockSync(b) ==
    /\ Goto(b, "unlocksync", "build")
    /\ syncLock' = Nobody
    /\ UNCHANGED <<setLock, sem, ftpLock, aged, mine, faults>>

PushSync(b) ==
    /\ Goto(b, "pushsync", "ftplock")
    /\ push_cleanup(b, "sync")
    /\ UNCHANGED <<locks, faults>>

\* pop_cleanup: the command is run first,
PopSync(b) ==
    /\ Goto(b, "popsync", "poppedsync")
    /\ syncLock' = Nobody
    /\ UNCHANGED <<setLock, sem, ftpLock, aged, mine, faults>>

\* and taken off the stack then.
PoppedSync(b) ==
    /\ Goto(b, "poppedsync", "build")
    /\ DropTop(b)
    /\ UNCHANGED <<locks, faults>>
-----------------------------------------------------------------------------
(* anonftpsync, run by a builder or by the operator's wait-for-package. *)

WaitForPackage ==
    /\ Goto(Operator, "idle", "ftplock")
    /\ UNCHANGED <<locks, mine, faults>>

\* Mutant: the sense of lockfile -! is turned round.
LockFtpAnyway(x) ==
    /\ Goto(x, "ftplock", "pass1")
    /\ ftpLock' = x
    /\ UNCHANGED <<setLock, sem, syncLock, aged, mine, faults>>

LockFtp(x) ==
    /\ Goto(x, "ftplock", "pass1")
    /\ ftpLock = Nobody
    /\ ftpLock' = x
    /\ UNCHANGED <<setLock, sem, syncLock, aged, mine, faults>>

\* lockfile -l 43200
BreakFtpLock(x) ==
    /\ pc[x] = "ftplock"
    /\ "ftp" \in aged
    /\ RemoveFtpLock
    /\ UNCHANGED <<setLock, sem, syncLock, pc, mine, faults>>

\* "unable to start rsync, lock file exists": both callers exit.
FtpLocked(x) ==
    /\ ftpLock # Nobody
    /\ "ftp" \notin aged
    /\ \/ x \in Builders /\ ExitFrom(x, "ftplock")
       \/ x = Operator /\ Goto(x, "ftplock", "idle") /\ UNCHANGED mine
    /\ UNCHANGED <<locks, faults>>

\* The pool first, the indices and the deletions then.
Rsync(x) ==
    /\ Goto(x, "pass1", "pass2") \/ Goto(x, "pass2", "ftpdone")
    /\ UNCHANGED <<locks, mine, faults>>

\* Mutant: anonftpsync has no trap on exit.
FtpDoneLocked(x) ==
    /\ Goto(x, "ftpdone", IF x = Operator THEN "idle" ELSE "popsync")
    /\ UNCHANGED <<locks, mine, faults>>

FtpDone(x) ==
    /\ Goto(x, "ftpdone", IF x = Operator THEN "idle" ELSE "popsync")
    /\ RemoveFtpLock
    /\ UNCHANGED <<setLock, sem, syncLock, mine, faults>>
-----------------------------------------------------------------------------
(* Building, publishing and the cleanup stack. *)

Build(b) ==
    /\ Goto(b, "build", "publish")
    /\ UNCHANGED <<locks, mine, faults>>

\* Under "set -e" any command may end the script.
BuildFails(b) ==
    /\ ExitFrom(b, "build")
    /\ UNCHANGED <<locks, faults>>

\* publish-daily and purge-old-images, which may fail, and the end.
Publish(b) ==
    /\ ExitFrom(b, "publish")
    /\ UNCHANGED <<locks, faults>>

\* pop_cleanup in cleanup: the command on top of the stack is run,
CleanSync(b) ==
    /\ CLEANUP[b] # << >> /\ Top(b) = "sync"
    /\ Goto(b, "cleanup", "pop")
    /\ syncLock' = Nobody
    /\ UNCHANGED <<setLock, sem, ftpLock, aged, mine, faults>>

\* Mutant: the decrement-test is lost.
CleanSemLost(b) ==
    /\ CLEANUP[b] # << >> /\ Top(b) = "sem"
    /\ Goto(b, "cleanup", "pop")
    /\ UNCHANGED <<locks, mine, faults>>

CleanSem(b) ==
    /\ CLEANUP[b] # << >> /\ Top(b) = "sem"
    /\ sem > 0
    /\ Goto(b, "cleanup", "pop")
    /\ sem' = sem - 1
    /\ UNCHANGED <<setLock, syncLock, ftpLock, aged, mine, faults>>

CleanSet(b) ==
    /\ CLEANUP[b] # << >> /\ Top(b) = "set"
    /\ Goto(b, "cleanup", "pop")
    /\ RemoveSetLock(SetOf[b])
    /\ UNCHANGED <<sem, syncLock, ftpLock, mine, faults>>

\* and taken off it.
Pop(b) ==
    /\ Goto(b, "pop", "cleanup")
    /\ DropTop(b)
    /\ UNCHANGED <<locks, faults>>

\* Mutant: a failed decrement-test only starts cleanup over.
DecrementRetried(b) ==
    /\ pc[b] = "cleanup"
    /\ CLEANUP[b] # << >> /\ Top(b) = "sem"
    /\ UNCHANGED <<pc, mine, locks>>

\* A decrement-test that fails ends the script at once under "set -e": from
\* a signal's trap the trap on EXIT cleans up again, from that trap nothing.
DecrementFails(b) ==
    /\ pc[b] = "cleanup"
    /\ CLEANUP[b] # << >> /\ Top(b) = "sem"
    /\ \/ b \in exiting /\ Gone(b)
       \/ b \notin exiting /\ ExitFrom(b, "cleanup")
    /\ UNCHANGED locks

DecrementAtZero(b) ==
    /\ sem = 0
    /\ DecrementFails(b)
    /\ UNCHANGED faults

Exit(b) ==
    /\ pc[b] = "cleanup"
    /\ CLEANUP[b] = << >>
    /\ Gone(b)
    /\ UNCHANGED <<locks, faults>>
-----------------------------------------------------------------------------
AnonFtpSync(x) ==
    \/ LockFtp(x) \/ BreakFtpLock(x) \/ FtpLocked(x) \/ Rsync(x) \/ FtpDone(x)

Step(b) ==
    \/ LockSet(b) \/ BreakSetLock(b) \/ SetLocked(b) \/ PushSet(b)
    \/ Increment(b) \/ PushSem(b)
    \/ LockSync(b) \/ WaitForSync(b) \/ StopBeforeSync(b) \/ UnlockSync(b)
    \/ PushSync(b) \/ AnonFtpSync(b) \/ PopSync(b) \/ PoppedSync(b)
    \/ Build(b) \/ BuildFails(b) \/ Publish(b)
    \/ CleanSync(b) \/ CleanSem(b) \/ CleanSet(b) \/ Pop(b)
    \/ DecrementAtZero(b) \/ Exit(b)

Next ==
    \/ \E b \in Builders : Start(b) \/ Step(b)
    \/ WaitForPackage
    \/ AnonFtpSync(Operator)

\* cron waits for nothing: a script that has been started runs to its end.
Fairness ==
    /\ \A b \in Builders : WF_vars(Step(b))
    /\ WF_vars(AnonFtpSync(Operator))

Spec == Init /\ [][Next]_vars
-----------------------------------------------------------------------------
(* Who holds what, as the scripts themselves know it. *)

OnStack(b, command) == \E i \in DOMAIN CLEANUP[b] : CLEANUP[b][i] = command

\* The command on top has been run and is about to be taken off.
HasRun(b, command) == pc[b] = "pop" /\ Top(b) = command

HoldsSet(b) ==
    pc[b] = "pushset" \/ (OnStack(b, "set") /\ ~HasRun(b, "set"))

Using(b) ==
    pc[b] = "pushsem" \/ (OnStack(b, "sem") /\ ~HasRun(b, "sem"))

HoldsSync(b) ==
    \/ pc[b] \in {"pushsync", "unlocksync"}
    \/ OnStack(b, "sync") /\ ~HasRun(b, "sync") /\ pc[b] # "poppedsync"

HoldsFtp(x) == pc[x] \in Rsyncing \cup {"ftpdone"}

SetOrphaned(s) ==
    setLock[s] # Nobody /\ ~\E b \in Builders : SetOf[b] = s /\ HoldsSet(b)

FtpOrphaned == ftpLock # Nobody /\ ~\E x \in Syncers : HoldsFtp(x)
-----------------------------------------------------------------------------
(* Faults. *)

Fault(kind) ==
    /\ kind \in Faults
    /\ kind \notin faults
    /\ Cardinality(faults) < MaxFaults
    /\ faults' = faults \cup {kind}

\* The machine goes down, or the script and all it runs are killed.
Crash(x) ==
    /\ Fault("crash")
    /\ pc[x] # "idle"
    /\ \/ x \in Builders /\ Gone(x)
       \/ x = Operator /\ Goto(x, pc[x], "idle") /\ UNCHANGED mine
    /\ UNCHANGED locks

\* HUP, INT, QUIT or TERM: after the running command the trap takes over, also
\* while cleanup itself is running.
Signal(b) ==
    /\ Fault("signal")
    /\ pc[b] \notin {"idle"} \cup FtpPCs
    /\ pc' = [pc EXCEPT ![b] = "cleanup"]
    /\ UNCHANGED <<locks, mine>>

\* anonftpsync traps no signal: it dies and its lock file stays.
KillFtp(x) ==
    /\ Fault("signal")
    /\ pc[x] \in FtpPCs
    /\ \/ x \in Builders /\ ExitFrom(x, pc[x])
       \/ x = Operator /\ Goto(x, pc[x], "idle") /\ UNCHANGED mine
    /\ UNCHANGED locks

\* A script takes longer than the -l of the lock it holds.
Slow ==
    /\ Fault("slow")
    /\ \/ \E s \in ImageSets :
             /\ setLock[s] # Nobody /\ ~SetOrphaned(s)
             /\ aged' = aged \cup {s}
       \/ /\ ftpLock # Nobody /\ ~FtpOrphaned
          /\ aged' = aged \cup {"ftp"}
    /\ UNCHANGED <<setLock, sem, syncLock, ftpLock, pc, mine>>

\* The semaphore script does not get its own lock file and exits 1.
Refuse(b) ==
    /\ Fault("refuse")
    /\ \/ ExitFrom(b, "increment") /\ UNCHANGED locks
       \/ DecrementFails(b)

\* Time passes, and nobody is left to remove the lock file.
Age ==
    /\ \/ \E s \in ImageSets : SetOrphaned(s) /\ aged' = aged \cup {s}
       \/ FtpOrphaned /\ aged' = aged \cup {"ftp"}
    /\ UNCHANGED <<setLock, sem, syncLock, ftpLock, pc, mine, faults>>

FaultNext ==
    \/ Next
    \/ \E x \in Syncers : Crash(x) \/ KillFtp(x)
    \/ \E b \in Builders : Signal(b) \/ Refuse(b)
    \/ Slow
    \/ Age

\* Time does pass, and cron starts the next build.
FaultSpec ==
    /\ Init
    /\ [][FaultNext]_vars
    /\ Fairness
    /\ WF_vars(Age)
    /\ \A b \in Builders : WF_vars(Start(b))
-----------------------------------------------------------------------------
(* Properties. *)

\* Two builds of one image set never run at the same time: from lockfile to the
\* cleanup that removes the lock file, the image set has one builder.
ImageSetExclusion ==
    \A b, c \in Builders :
        HoldsSet(b) /\ HoldsSet(c) /\ SetOf[b] = SetOf[c] => b = c

\* The semaphore counts the builds between test-increment and decrement-test.
SemaphoreCountsUsers == sem = Cardinality({b \in Builders : Using(b)})

\* The semaphore is a shared lock that only opens when all users have
\* unlocked (bin/semaphore, lines 5-8): at zero, nobody is using the archive.
OpensOnlyWhenUnused == sem = 0 => \A b \in Builders : ~Using(b)

\* The local mirror is never written by two rsyncs at once, whoever started
\* anonftpsync.
OneRsync ==
    \A x, y \in Syncers : pc[x] \in Rsyncing /\ pc[y] \in Rsyncing => x = y

\* Once every script has ended, however its builds went, no lock file is left
\* and the semaphore is back at zero.
NothingLeftBehind ==
    (\A x \in Syncers : pc[x] = "idle") =>
        /\ \A s \in ImageSets : setLock[s] = Nobody
        /\ sem = 0 /\ syncLock = Nobody /\ ftpLock = Nobody

\* "Acquire lock to allow parallel builds to ensure a consistent archive"
\* (lines 120-121): no build reads the archive while another one syncs it.
ConsistentArchive ==
    \A b, c \in Builders \ NoSync : pc[b] = "build" => pc[c] \notin Rsyncing

\* Every build that is started ends: no lock is waited for without end, no
\* cleanup loops.
BuildsEnd == \A b \in Builders : pc[b] # "idle" ~> pc[b] = "idle"

\* The lock file of an image set whose builder died does not stop later builds
\* of that image set for ever: the -l 7200 of line 48 breaks it.
OrphanSetLockIsBroken ==
    \A s \in ImageSets : SetOrphaned(s) ~> ~SetOrphaned(s)

\* .lock-archive-sync is there, and nobody has its removal ahead.
SyncOrphaned == syncLock # Nobody /\ ~\E b \in Builders : HoldsSync(b)

\* Nobody breaks .lock-archive-sync (line 122 has no -l): once the builder that
\* created it is gone, the file stays, no build gets past it, and nobody comes
\* to remove it.  Only the cleanup of a script that was sent a signal may do so
\* by mistake.
OrphanSyncLockIsForever ==
    [][ "signal" \notin faults' /\ SyncOrphaned
          => /\ syncLock' = syncLock
             /\ SyncOrphaned'
             /\ \A b \in Builders :
                    pc[b] = "sync" => pc'[b] \in {"sync", "cleanup", "idle"} ]_vars

\* What a dead build leaves behind: its image set's lock is broken, the lock of
\* the archive sync never is.
OrphanLocks == OrphanSetLockIsBroken /\ OrphanSyncLockIsForever
-----------------------------------------------------------------------------
(* Refinement: the builders share the archive as users of a SharedLock. *)

Shared == INSTANCE SharedLock WITH
    Users <- Builders,
    joined <- {b \in Builders : Using(b)},
    opener <- {b \in first : Using(b)}

SharedSpec == Shared!Spec
=============================================================================
