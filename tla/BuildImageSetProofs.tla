------------------------ MODULE BuildImageSetProofs ------------------------
(***************************************************************************)
(* Theorems about bin/build-image-set for every number of builders and     *)
(* image sets.                                                             *)
(***************************************************************************)
EXTENDS BuildImageSet, FiniteSetTheorems, SequenceTheorems, TLAPS

S0 == << >>
S1 == <<"set">>
S2 == <<"set", "sem">>
S3 == <<"set", "sem", "sync">>

Commands == {"set", "sem", "sync"}

LEMMA StackShapes ==
  /\ S0 \in Seq(Commands) /\ Len(S0) = 0
  /\ S1 \in Seq(Commands) /\ Len(S1) = 1 /\ S1[1] = "set"
  /\ S2 \in Seq(Commands) /\ Len(S2) = 2 /\ S2[1] = "set" /\ S2[2] = "sem"
  /\ S3 \in Seq(Commands) /\ Len(S3) = 3
  /\ S3[1] = "set" /\ S3[2] = "sem" /\ S3[3] = "sync"
  BY DEF S0, S1, S2, S3, Commands

\* What push_cleanup and pop_cleanup do to the stacks a builder can have.
LEMMA Pushes ==
  /\ Append(S0, "set") = S1 /\ Append(S1, "sem") = S2 /\ Append(S2, "sync") = S3
<1>1. ASSUME NEW s \in Seq(Commands), NEW c \in Commands, NEW t \in Seq(Commands),
             Len(t) = Len(s) + 1, t[Len(t)] = c,
             \A i \in 1..Len(s) : t[i] = s[i]
      PROVE  Append(s, c) = t
  <2>1. Append(s, c) \in Seq(Commands)
    OBVIOUS
  <2>2. Len(Append(s, c)) = Len(s) + 1
    OBVIOUS
  <2>3. \A i \in 1..Len(s) : Append(s, c)[i] = s[i]
    OBVIOUS
  <2>4. Append(s, c)[Len(s) + 1] = c
    OBVIOUS
  <2>5. Len(Append(s, c)) = Len(t)
    BY <1>1, <2>2
  <2>6. \A i \in 1..Len(t) : Append(s, c)[i] = t[i]
    BY <1>1, <2>2, <2>3, <2>4
  <2> QED
    BY <2>1, <2>5, <2>6, SeqEqual
<1>2. Append(S0, "set") = S1
  BY <1>1, StackShapes DEF Commands
<1>3. Append(S1, "sem") = S2
  <2>1. /\ Len(S2) = Len(S1) + 1 /\ S2[Len(S2)] = "sem"
        /\ \A i \in 1..Len(S1) : S2[i] = S1[i]
    BY StackShapes
  <2>2. "sem" \in Commands
    BY DEF Commands
  <2> QED
    BY <1>1, <2>1, <2>2, StackShapes
<1>4. Append(S2, "sync") = S3
  <2>1. /\ Len(S3) = Len(S2) + 1 /\ S3[Len(S3)] = "sync"
        /\ \A i \in 1..Len(S2) : S3[i] = S2[i]
    <3>1. \A i \in 1..2 : S3[i] = S2[i]
      BY StackShapes
    <3> QED
      BY <3>1, StackShapes
  <2>2. "sync" \in Commands
    BY DEF Commands
  <2> QED
    BY <1>1, <2>1, <2>2, StackShapes
<1> QED
  BY <1>2, <1>3, <1>4

LEMMA Tops ==
  /\ S1[Len(S1)] = "set" /\ S2[Len(S2)] = "sem" /\ S3[Len(S3)] = "sync"
  BY StackShapes

LEMMA Pops ==
  /\ SubSeq(S1, 1, Len(S1) - 1) = S0
  /\ SubSeq(S2, 1, Len(S2) - 1) = S1
  /\ SubSeq(S3, 1, Len(S3) - 1) = S2
<1>1. SubSeq(S1, 1, Len(S1) - 1) = S0
  BY StackShapes, SubSeqEmpty DEF S0
<1>2. SubSeq(S2, 1, Len(S2) - 1) = S1
  <2> DEFINE t == SubSeq(S2, 1, 1)
  <2>1. \A i \in 1..1 : S2[i] \in Commands
    BY StackShapes DEF Commands
  <2>2. t \in Seq(Commands) /\ Len(t) = 1 /\ t[1] = S2[1]
    BY <2>1, SubSeqProperties
  <2>3. t = S1
    BY <2>2, StackShapes, SeqEqual
  <2> QED
    BY <2>3, StackShapes
<1>3. SubSeq(S3, 1, Len(S3) - 1) = S2
  <2> DEFINE t == SubSeq(S3, 1, 2)
  <2>1. \A i \in 1..2 : S3[i] \in Commands
    BY StackShapes DEF Commands
  <2>2. t \in Seq(Commands) /\ Len(t) = 2 /\ t[1] = S3[1] /\ t[2] = S3[2]
    <3>1. /\ t \in Seq(Commands) /\ Len(t) = 2
          /\ \A i \in 1..2 : t[i] = S3[i]
      BY <2>1, SubSeqProperties
    <3> QED
      BY <3>1
  <2>3. t = S2
    BY <2>2, StackShapes, SeqEqual
  <2> QED
    BY <2>3, StackShapes
<1> QED
  BY <1>1, <1>2, <1>3

LEMMA StacksDiffer ==
  /\ S0 # S1 /\ S0 # S2 /\ S0 # S3 /\ S1 # S2 /\ S1 # S3 /\ S2 # S3
<1>1. S0 # S1 /\ S0 # S2 /\ S0 # S3
  <2>1. Len(S0) # 1 /\ Len(S0) # 2 /\ Len(S0) # 3
    BY StackShapes
  <2> QED
    BY <2>1, StackShapes, Zenon
<1>2. S1 # S2 /\ S1 # S3
  <2>1. Len(S1) # 2 /\ Len(S1) # 3
    BY StackShapes
  <2> QED
    BY <2>1, StackShapes, Zenon
<1>3. S2 # S3
  <2>1. Len(S2) # 3
    BY StackShapes
  <2> QED
    BY <2>1, StackShapes, Zenon
<1> QED
  BY <1>1, <1>2, <1>3, Zenon

LEMMA OnStacks ==
  ASSUME NEW b \in Builders, CLEANUP[b] \in {S0, S1, S2, S3}
  PROVE  /\ OnStack(b, "set") <=> CLEANUP[b] \in {S1, S2, S3}
         /\ OnStack(b, "sem") <=> CLEANUP[b] \in {S2, S3}
         /\ OnStack(b, "sync") <=> CLEANUP[b] = S3
<1>1. CASE CLEANUP[b] = S0
  BY <1>1, StacksDiffer DEF OnStack, S0
<1>2. CASE CLEANUP[b] = S1
  <2>1. DOMAIN S1 = {1} /\ S1[1] = "set"
    BY DEF S1
  <2> QED
    BY <1>2, <2>1, StacksDiffer DEF OnStack
<1>3. CASE CLEANUP[b] = S2
  <2>1. DOMAIN S2 = {1, 2} /\ S2[1] = "set" /\ S2[2] = "sem"
    BY DEF S2
  <2> QED
    BY <1>3, <2>1, StacksDiffer DEF OnStack
<1>4. CASE CLEANUP[b] = S3
  <2>1. DOMAIN S3 = {1, 2, 3} /\ S3[1] = "set" /\ S3[2] = "sem" /\ S3[3] = "sync"
    BY DEF S3
  <2> QED
    BY <1>4, <2>1, StacksDiffer DEF OnStack
<1> QED
  BY <1>1, <1>2, <1>3, <1>4

LEMMA TopCommand ==
  ASSUME NEW b \in Builders, CLEANUP[b] \in {S1, S2, S3}
  PROVE  /\ Top(b) = "set" <=> CLEANUP[b] = S1
         /\ Top(b) = "sem" <=> CLEANUP[b] = S2
         /\ Top(b) = "sync" <=> CLEANUP[b] = S3
  BY Tops, StacksDiffer DEF Top

LEMMA StacksAre == Stacks = {S0, S1, S2, S3} /\ << >> = S0
  BY DEF Stacks, S0, S1, S2, S3
-----------------------------------------------------------------------------
(* Types, and the cleanup stack at every command of the script. *)

USE BuildersAssumption, SetOfAssumption, NoSyncAssumption, FaultsAssumption

\* What is on b's cleanup stack when b is about to run a command.
StackInv ==
    \A b \in Builders :
        /\ pc[b] \in {"idle", "lockset", "pushset"} => CLEANUP[b] = S0
        /\ pc[b] \in {"increment", "pushsem"} => CLEANUP[b] = S1
        /\ pc[b] \in {"sync", "pushsync", "unlocksync", "build", "publish"}
              => CLEANUP[b] = S2
        /\ pc[b] \in FtpPCs \cup {"popsync", "poppedsync"} => CLEANUP[b] = S3
        /\ pc[b] = "pop" => CLEANUP[b] # S0

OperatorInv == pc[Operator] \in {"idle"} \cup FtpPCs

\* SEM_STATE is not set before the semaphore has been incremented.
FirstInv ==
    \A b \in Builders :
        pc[b] \in {"idle", "lockset", "pushset", "increment"} => b \notin first

TypeInv == TypeOK /\ StackInv /\ OperatorInv /\ FirstInv

LEMMA TypeInit == Init => TypeInv
  BY StacksAre DEF Init, TypeInv, TypeOK, StackInv, OperatorInv, FirstInv,
     FtpPCs, Rsyncing, PCs, Syncers

\* The steps of a builder up to the archive sync.
LEMMA TypeEntry ==
  ASSUME TypeInv, NEW b \in Builders,
         \/ Start(b) \/ LockSet(b) \/ BreakSetLock(b) \/ SetLocked(b)
         \/ PushSet(b) \/ Increment(b) \/ PushSem(b)
  PROVE  TypeInv'
<1> USE StacksAre, StacksDiffer, Pushes
        DEF TypeInv, TypeOK, StackInv, OperatorInv, FirstInv, FtpPCs, Rsyncing,
            PCs, Syncers, Goto, ExitFrom, push_cleanup, RemoveSetLock, locks, mine
<1>1. CASE Start(b)
  BY <1>1 DEF Start
<1>2. CASE LockSet(b)
  BY <1>2 DEF LockSet
<1>3. CASE BreakSetLock(b)
  BY <1>3 DEF BreakSetLock
<1>4. CASE SetLocked(b)
  BY <1>4 DEF SetLocked
<1>5. CASE PushSet(b)
  BY <1>5 DEF PushSet
<1>6. CASE Increment(b)
  <2>1. /\ pc' = [pc EXCEPT ![b] = "pushsem"] /\ pc[b] = "increment"
        /\ first' \in {first, first \cup {b}} /\ sem' = sem + 1
        /\ UNCHANGED <<setLock, syncLock, ftpLock, aged, CLEANUP, exiting, faults>>
    BY <1>6 DEF Increment
  <2>2. TypeOK'
    BY <2>1
  <2>3. StackInv' /\ OperatorInv'
    BY <2>1
  <2>4. FirstInv'
    BY <2>1
  <2> QED
    BY <2>2, <2>3, <2>4
<1>7. CASE PushSem(b)
  <2>1. PICK to \in {"sync", "build"} :
           pc[b] = "pushsem" /\ pc' = [pc EXCEPT ![b] = to]
    BY <1>7 DEF PushSem
  <2>2. /\ CLEANUP[b] = S1 /\ CLEANUP' = [CLEANUP EXCEPT ![b] = S2]
        /\ UNCHANGED <<setLock, sem, syncLock, ftpLock, aged, first, exiting,
                       faults>>
    BY <1>7, <2>1 DEF PushSem
  <2>3. TypeOK'
    BY <2>1, <2>2
  <2>4. StackInv' /\ OperatorInv' /\ FirstInv'
    BY <2>1, <2>2
  <2> QED
    BY <2>3, <2>4
<1> QED
  BY <1>1, <1>2, <1>3, <1>4, <1>5, <1>6, <1>7

\* The archive sync and anonftpsync, also when the operator runs it.
LEMMA TypeSync ==
  ASSUME TypeInv, NEW b \in Builders,
         \/ LockSync(b) \/ WaitForSync(b) \/ StopBeforeSync(b) \/ UnlockSync(b)
         \/ PushSync(b) \/ PopSync(b) \/ PoppedSync(b)
  PROVE  TypeInv'
<1> USE StacksAre, StacksDiffer, Pushes, Pops
        DEF TypeInv, TypeOK, StackInv, OperatorInv, FirstInv, FtpPCs, Rsyncing,
            PCs, Syncers, Goto, ExitFrom, push_cleanup, DropTop, locks, mine
<1>1. CASE LockSync(b)
  BY <1>1 DEF LockSync
<1>2. CASE WaitForSync(b)
  BY <1>2 DEF WaitForSync
<1>3. CASE StopBeforeSync(b)
  BY <1>3 DEF StopBeforeSync
<1>4. CASE UnlockSync(b)
  BY <1>4 DEF UnlockSync
<1>5. CASE PushSync(b)
  BY <1>5 DEF PushSync
<1>6. CASE PopSync(b)
  BY <1>6 DEF PopSync
<1>7. CASE PoppedSync(b)
  BY <1>7 DEF PoppedSync
<1> QED
  BY <1>1, <1>2, <1>3, <1>4, <1>5, <1>6, <1>7

LEMMA TypeFtp ==
  ASSUME TypeInv, NEW x \in Syncers, AnonFtpSync(x) \/ WaitForPackage
  PROVE  TypeInv'
<1> USE StacksAre
        DEF TypeInv, TypeOK, StackInv, OperatorInv, FirstInv, FtpPCs, Rsyncing,
            PCs, Syncers, Goto, ExitFrom, RemoveFtpLock, locks, mine
<1>1. CASE LockFtp(x)
  BY <1>1 DEF LockFtp
<1>2. CASE BreakFtpLock(x)
  BY <1>2 DEF BreakFtpLock
<1>3. CASE FtpLocked(x)
  BY <1>3 DEF FtpLocked
<1>4. CASE Rsync(x)
  BY <1>4 DEF Rsync
<1>5. CASE FtpDone(x)
  BY <1>5 DEF FtpDone
<1>6. CASE WaitForPackage
  BY <1>6 DEF WaitForPackage
<1> QED
  BY <1>1, <1>2, <1>3, <1>4, <1>5, <1>6 DEF AnonFtpSync

\* Building, publishing and cleaning up.
LEMMA TypeEnd ==
  ASSUME TypeInv, NEW b \in Builders,
         \/ Build(b) \/ BuildFails(b) \/ Publish(b)
         \/ CleanSync(b) \/ CleanSem(b) \/ CleanSet(b) \/ Pop(b)
         \/ DecrementAtZero(b) \/ Exit(b)
  PROVE  TypeInv'
<1> USE StacksAre, StacksDiffer
        DEF TypeInv, TypeOK, StackInv, OperatorInv, FirstInv, FtpPCs, Rsyncing,
            PCs, Syncers, Goto, ExitFrom, Gone, RemoveSetLock, locks, mine
<1>1. CASE Build(b)
  BY <1>1 DEF Build
<1>2. CASE BuildFails(b)
  BY <1>2 DEF BuildFails
<1>3. CASE Publish(b)
  BY <1>3 DEF Publish
<1>4. CASE CleanSync(b)
  BY <1>4 DEF CleanSync
<1>5. CASE CleanSem(b)
  BY <1>5 DEF CleanSem
<1>6. CASE CleanSet(b)
  BY <1>6 DEF CleanSet
<1>7. CASE Pop(b)
  <2>1. /\ pc[b] = "pop" /\ pc' = [pc EXCEPT ![b] = "cleanup"]
        /\ CLEANUP' = [CLEANUP EXCEPT ![b] = SubSeq(CLEANUP[b], 1, Len(CLEANUP[b]) - 1)]
        /\ UNCHANGED <<setLock, sem, syncLock, ftpLock, aged, first, exiting, faults>>
    BY <1>7 DEF Pop, DropTop
  <2>2. CLEANUP[b] \in {S1, S2, S3}
    BY <2>1
  <2>3. SubSeq(CLEANUP[b], 1, Len(CLEANUP[b]) - 1) \in {S0, S1, S2}
    BY <2>2, Pops
  <2>4. PICK s \in {S0, S1, S2} : CLEANUP' = [CLEANUP EXCEPT ![b] = s]
    BY <2>1, <2>3
  <2>5. TypeOK'
    BY <2>1, <2>4
  <2>6. StackInv' /\ OperatorInv' /\ FirstInv'
    BY <2>1, <2>4
  <2> QED
    BY <2>5, <2>6
<1>8. CASE DecrementAtZero(b)
  BY <1>8 DEF DecrementAtZero, DecrementFails
<1>9. CASE Exit(b)
  BY <1>9 DEF Exit
<1> QED
  BY <1>1, <1>2, <1>3, <1>4, <1>5, <1>6, <1>7, <1>8, <1>9

LEMMA TypeFault ==
  ASSUME TypeInv,
         \/ \E x \in Syncers : Crash(x) \/ KillFtp(x)
         \/ \E b \in Builders : Signal(b) \/ Refuse(b)
         \/ Slow
         \/ Age
  PROVE  TypeInv'
<1> USE StacksAre
        DEF TypeInv, TypeOK, StackInv, OperatorInv, FirstInv, FtpPCs, Rsyncing,
            PCs, Syncers, Goto, ExitFrom, Gone, Fault, locks, mine
<1>1. ASSUME NEW x \in Syncers, Crash(x) PROVE TypeInv'
  BY <1>1 DEF Crash
<1>2. ASSUME NEW x \in Syncers, KillFtp(x) PROVE TypeInv'
  BY <1>2 DEF KillFtp
<1>3. ASSUME NEW b \in Builders, Signal(b) PROVE TypeInv'
  BY <1>3 DEF Signal
<1>4. ASSUME NEW b \in Builders, Refuse(b) PROVE TypeInv'
  BY <1>4 DEF Refuse, DecrementFails
<1>5. CASE Slow
  BY <1>5 DEF Slow
<1>6. CASE Age
  BY <1>6 DEF Age
<1> QED
  BY <1>1, <1>2, <1>3, <1>4, <1>5, <1>6

LEMMA TypeNext == TypeInv /\ [FaultNext]_vars => TypeInv'
<1> SUFFICES ASSUME TypeInv, [FaultNext]_vars PROVE TypeInv'
  OBVIOUS
<1>1. CASE FaultNext
  BY <1>1, TypeEntry, TypeSync, TypeFtp, TypeEnd, TypeFault
     DEF FaultNext, Next, Step, Syncers
<1>2. CASE UNCHANGED vars
  BY <1>2 DEF vars, TypeInv, TypeOK, StackInv, OperatorInv, FirstInv
<1> QED
  BY <1>1, <1>2

LEMMA TypeInvariance == FaultSpec => []TypeInv
<1> QED
  BY TypeInit, TypeNext, PTL DEF FaultSpec

\* Type correctness under every kind and number of faults: in particular the
\* cleanup stack of a builder is always one of four.
THEOREM TypeCorrect == FaultSpec => []TypeOK
<1>1. TypeInv => TypeOK
  BY DEF TypeInv
<1> QED
  BY <1>1, TypeInvariance, PTL
-----------------------------------------------------------------------------
(* Who holds the image sets' locks and who uses the semaphore, read off the  *)
(* command and the cleanup stack.                                           *)

Holding == {b \in Builders : HoldsSet(b)}
Users   == {b \in Builders : Using(b)}

HoldsIn(p, s) == p = "pushset" \/ s \in {S2, S3} \/ (s = S1 /\ p # "pop")
UsesIn(p, s)  == p = "pushsem" \/ s = S3 \/ (s = S2 /\ p # "pop")

ByStack ==
  /\ Holding = {b \in Builders : HoldsIn(pc[b], CLEANUP[b])}
  /\ Users = {b \in Builders : UsesIn(pc[b], CLEANUP[b])}

LEMMA HoldersByStack == TypeInv => ByStack
<1> SUFFICES ASSUME TypeInv, NEW b \in Builders
             PROVE  /\ HoldsSet(b) <=> HoldsIn(pc[b], CLEANUP[b])
                    /\ Using(b) <=> UsesIn(pc[b], CLEANUP[b])
  BY DEF ByStack, Holding, Users
<1>1. CLEANUP[b] \in {S0, S1, S2, S3}
  BY StacksAre DEF TypeInv, TypeOK
<1>2. pc[b] = "pop" => CLEANUP[b] # S0
  BY DEF TypeInv, StackInv
<1> QED
  BY <1>1, <1>2, OnStacks, Tops, StacksDiffer
     DEF HoldsSet, Using, HasRun, Top, HoldsIn, UsesIn

LEMMA HoldersByStackNext == TypeInv' => ByStack'
  BY HoldersByStack, PTL

OthersStay(b) ==
  \A c \in Builders \ {b} : pc'[c] = pc[c] /\ CLEANUP'[c] = CLEANUP[c]

\* A step of b leaves the others what they hold.
LEMMA OneMoves ==
  ASSUME TypeInv, TypeInv', NEW b \in Builders, OthersStay(b)
  PROVE  /\ Holding' = IF HoldsIn(pc'[b], CLEANUP'[b]) THEN Holding \cup {b}
                                                      ELSE Holding \ {b}
         /\ Users' = IF UsesIn(pc'[b], CLEANUP'[b]) THEN Users \cup {b}
                                                   ELSE Users \ {b}
<1>1. /\ Holding' = {c \in Builders : HoldsIn(pc'[c], CLEANUP'[c])}
      /\ Users' = {c \in Builders : UsesIn(pc'[c], CLEANUP'[c])}
  BY HoldersByStackNext DEF ByStack
<1>2. /\ Holding = {c \in Builders : HoldsIn(pc[c], CLEANUP[c])}
      /\ Users = {c \in Builders : UsesIn(pc[c], CLEANUP[c])}
  BY HoldersByStack DEF ByStack
<1>3. Holding' = IF HoldsIn(pc'[b], CLEANUP'[b]) THEN Holding \cup {b}
                                                ELSE Holding \ {b}
  BY <1>1, <1>2 DEF OthersStay
<1>4. Users' = IF UsesIn(pc'[b], CLEANUP'[b]) THEN Users \cup {b}
                                             ELSE Users \ {b}
  BY <1>1, <1>2 DEF OthersStay
<1> QED
  BY <1>3, <1>4

\* The openers of SharedLock: those whose test-increment printed 0.
Opener == first \cap Users

\* A step that leaves the image sets' locks and the semaphore alone.
Quiet ==
  /\ Holding' = Holding /\ Users' = Users /\ Opener' = Opener
  /\ setLock' = setLock /\ sem' = sem /\ aged' \cap ImageSets = aged \cap ImageSets

\* Most commands of a builder are quiet.
KeepsHolding(b) ==
  /\ OthersStay(b)
  /\ HoldsIn(pc'[b], CLEANUP'[b]) <=> HoldsIn(pc[b], CLEANUP[b])
  /\ UsesIn(pc'[b], CLEANUP'[b]) <=> UsesIn(pc[b], CLEANUP[b])

LEMMA QuietKeeps ==
  ASSUME TypeInv, TypeInv', NEW b \in Builders, KeepsHolding(b)
  PROVE  Holding' = Holding /\ Users' = Users
<1>1. OthersStay(b)
  BY DEF KeepsHolding
<1>2. /\ Holding = {c \in Builders : HoldsIn(pc[c], CLEANUP[c])}
      /\ Users = {c \in Builders : UsesIn(pc[c], CLEANUP[c])}
  BY HoldersByStack DEF ByStack
<1> QED
  BY <1>1, <1>2, OneMoves DEF KeepsHolding

LEMMA QuietEntry ==
  ASSUME TypeInv, TypeInv', NEW b \in Builders,
         Start(b) \/ SetLocked(b) \/ PushSet(b) \/ PushSem(b)
  PROVE  Quiet
<1> USE StacksAre, StacksDiffer DEF TypeInv, TypeOK, StackInv, FtpPCs, Rsyncing,
        Syncers, Goto, ExitFrom, push_cleanup, locks, mine, OthersStay,
        KeepsHolding, HoldsIn, UsesIn
<1>1. CASE Start(b)
  <2>1. KeepsHolding(b)
    BY <1>1 DEF Start
  <2> QED
    BY <1>1, <2>1, QuietKeeps DEF Start, Quiet, Opener
<1>2. CASE SetLocked(b)
  <2>1. KeepsHolding(b)
    BY <1>2 DEF SetLocked
  <2> QED
    BY <1>2, <2>1, QuietKeeps DEF SetLocked, Quiet, Opener
<1>3. CASE PushSet(b)
  <2>1. KeepsHolding(b)
    BY <1>3 DEF PushSet
  <2> QED
    BY <1>3, <2>1, QuietKeeps DEF PushSet, Quiet, Opener
<1>4. CASE PushSem(b)
  <2>1. KeepsHolding(b)
    BY <1>4 DEF PushSem
  <2> QED
    BY <1>4, <2>1, QuietKeeps DEF PushSem, Quiet, Opener
<1> QED
  BY <1>1, <1>2, <1>3, <1>4

LEMMA QuietSync ==
  ASSUME TypeInv, TypeInv', NEW b \in Builders,
         LockSync(b) \/ WaitForSync(b) \/ StopBeforeSync(b) \/
         UnlockSync(b) \/ PushSync(b) \/ PopSync(b) \/ PoppedSync(b)
  PROVE  Quiet
<1> USE StacksAre, StacksDiffer DEF TypeInv, TypeOK, StackInv, FtpPCs, Rsyncing,
        Syncers, Goto, ExitFrom, push_cleanup, DropTop, locks, mine, OthersStay,
        KeepsHolding, HoldsIn, UsesIn
<1>1. CASE LockSync(b)
  <2>1. KeepsHolding(b)
    BY <1>1 DEF LockSync
  <2> QED
    BY <1>1, <2>1, QuietKeeps DEF LockSync, Quiet, Opener
<1>2. CASE WaitForSync(b)
  <2>1. KeepsHolding(b)
    BY <1>2 DEF WaitForSync
  <2> QED
    BY <1>2, <2>1, QuietKeeps DEF WaitForSync, Quiet, Opener
<1>3. CASE StopBeforeSync(b)
  <2>1. KeepsHolding(b)
    BY <1>3 DEF StopBeforeSync
  <2> QED
    BY <1>3, <2>1, QuietKeeps DEF StopBeforeSync, Quiet, Opener
<1>4. CASE UnlockSync(b)
  <2>1. KeepsHolding(b)
    BY <1>4 DEF UnlockSync
  <2> QED
    BY <1>4, <2>1, QuietKeeps DEF UnlockSync, Quiet, Opener
<1>5. CASE PushSync(b)
  <2>1. KeepsHolding(b)
    BY <1>5, Pushes DEF PushSync
  <2> QED
    BY <1>5, <2>1, QuietKeeps DEF PushSync, Quiet, Opener
<1>6. CASE PopSync(b)
  <2>1. KeepsHolding(b)
    BY <1>6 DEF PopSync
  <2> QED
    BY <1>6, <2>1, QuietKeeps DEF PopSync, Quiet, Opener
<1>7. CASE PoppedSync(b)
  <2>1. KeepsHolding(b)
    BY <1>7, Pops DEF PoppedSync
  <2> QED
    BY <1>7, <2>1, QuietKeeps DEF PoppedSync, Quiet, Opener
<1> QED
  BY <1>1, <1>2, <1>3, <1>4, <1>5, <1>6, <1>7

LEMMA QuietFtp ==
  ASSUME TypeInv, TypeInv', NEW x \in Syncers, AnonFtpSync(x) \/ WaitForPackage
  PROVE  Quiet
<1> USE StacksAre, StacksDiffer DEF TypeInv, TypeOK, StackInv, FtpPCs, Rsyncing,
        Syncers, Goto, ExitFrom, RemoveFtpLock, locks, mine
<1>1. /\ CLEANUP' = CLEANUP /\ first' = first /\ setLock' = setLock /\ sem' = sem
      /\ aged' \cap ImageSets = aged \cap ImageSets
  BY DEF AnonFtpSync, LockFtp, BreakFtpLock, FtpLocked, Rsync, FtpDone,
         WaitForPackage
<1>2. /\ \A y \in Syncers \ {x, Operator} : pc'[y] = pc[y]
      /\ x \in Builders =>
            \/ pc'[x] = pc[x] 
            \/ pc[x] \in FtpPCs /\ pc'[x] \in FtpPCs \cup {"popsync", "cleanup"}
  BY DEF AnonFtpSync, LockFtp, BreakFtpLock, FtpLocked, Rsync, FtpDone,
         WaitForPackage
<1>3. CASE x \in Builders
  <2>1. KeepsHolding(x)
    BY <1>1, <1>2, <1>3 DEF OthersStay, KeepsHolding, HoldsIn, UsesIn
  <2> QED
    BY <1>1, <1>3, <2>1, QuietKeeps DEF Quiet, Opener
<1>4. CASE x = Operator
  <2>1. \A c \in Builders : KeepsHolding(c)
    BY <1>1, <1>2, <1>4 DEF OthersStay, KeepsHolding, HoldsIn, UsesIn
  <2>2. Holding' = Holding /\ Users' = Users
    <3>1. CASE Builders = {}
      BY <3>1 DEF Holding, Users
    <3>2. CASE Builders # {}
      BY <2>1, <3>2, QuietKeeps
    <3> QED
      BY <3>1, <3>2
  <2> QED
    BY <1>1, <2>2 DEF Quiet, Opener
<1> QED
  BY <1>3, <1>4 DEF Syncers

LEMMA QuietEnd ==
  ASSUME TypeInv, TypeInv', NEW b \in Builders,
         Build(b) \/ BuildFails(b) \/ Publish(b) \/ CleanSync(b) \/ Pop(b)
  PROVE  Quiet
<1> USE StacksAre, StacksDiffer DEF TypeInv, TypeOK, StackInv, FtpPCs, Rsyncing,
        Syncers, Goto, ExitFrom, push_cleanup, DropTop, locks, mine, OthersStay,
        KeepsHolding, HoldsIn, UsesIn
<1>1. CASE Build(b)
  <2>1. KeepsHolding(b)
    BY <1>1 DEF Build
  <2> QED
    BY <1>1, <2>1, QuietKeeps DEF Build, Quiet, Opener
<1>2. CASE BuildFails(b)
  <2>1. KeepsHolding(b)
    BY <1>2 DEF BuildFails
  <2> QED
    BY <1>2, <2>1, QuietKeeps DEF BuildFails, Quiet, Opener
<1>3. CASE Publish(b)
  <2>1. KeepsHolding(b)
    BY <1>3 DEF Publish
  <2> QED
    BY <1>3, <2>1, QuietKeeps DEF Publish, Quiet, Opener
<1>4. CASE CleanSync(b)
  <2>1. CLEANUP[b] = S3 /\ CLEANUP' = CLEANUP
    BY <1>4, TopCommand DEF CleanSync
  <2>2. KeepsHolding(b)
    BY <1>4, <2>1 DEF CleanSync
  <2> QED
    BY <1>4, <2>2, QuietKeeps DEF CleanSync, Quiet, Opener
<1>5. CASE Pop(b)
  <2>1. KeepsHolding(b)
    BY <1>5, Pops DEF Pop
  <2> QED
    BY <1>5, <2>1, QuietKeeps DEF Pop, Quiet, Opener
<1> QED
  BY <1>1, <1>2, <1>3, <1>4, <1>5
-----------------------------------------------------------------------------
(* Every step of FaultNext, as what it does to the image sets' locks and to  *)
(* the semaphore.                                                           *)

SetSame == Holding' = Holding /\ setLock' = setLock
           /\ aged' \cap ImageSets = aged \cap ImageSets
SemSame == Users' = Users /\ Opener' = Opener /\ sem' = sem

SetTaken(b) ==
  /\ setLock[SetOf[b]] = Nobody
  /\ setLock' = [setLock EXCEPT ![SetOf[b]] = b]
  /\ Holding' = Holding \cup {b} /\ aged' = aged

SetBroken(b) ==
  /\ SetOf[b] \in aged
  /\ setLock' = [setLock EXCEPT ![SetOf[b]] = Nobody]
  /\ Holding' = Holding /\ aged' = aged \ {SetOf[b]}

SetReleased(b) ==
  /\ b \in Holding
  /\ setLock' = [setLock EXCEPT ![SetOf[b]] = Nobody]
  /\ Holding' = Holding \ {b} /\ aged' = aged \ {SetOf[b]}

SemTaken(b) ==
  /\ b \notin Users /\ Users' = Users \cup {b}
  /\ b \notin Opener /\ Opener' = IF sem = 0 THEN Opener \cup {b} ELSE Opener
  /\ sem' = sem + 1

SemReleased(b) ==
  /\ b \in Users /\ Users' = Users \ {b} /\ Opener' = Opener \ {b}
  /\ sem > 0 /\ sem' = sem - 1

LEMMA LockSetTakes ==
  ASSUME TypeInv, TypeInv', NEW b \in Builders, LockSet(b)
  PROVE  SetTaken(b) /\ SemSame
<1>1. OthersStay(b) /\ CLEANUP[b] = S0 /\ CLEANUP'[b] = S0 /\ first' = first
      /\ pc[b] = "lockset" /\ pc'[b] = "pushset"
  BY DEF LockSet, Goto, mine, OthersStay, TypeInv, TypeOK, StackInv, Syncers
<1>2. /\ HoldsIn(pc'[b], CLEANUP'[b])
      /\ ~UsesIn(pc'[b], CLEANUP'[b]) /\ ~UsesIn(pc[b], CLEANUP[b])
  BY <1>1, StacksDiffer DEF HoldsIn, UsesIn
<1>3. b \notin Users
  BY <1>2, HoldersByStack DEF ByStack
<1>4. Holding' = Holding \cup {b} /\ Users' = Users
  BY <1>1, <1>2, <1>3, OneMoves
<1> QED
  BY <1>1, <1>4 DEF LockSet, SetTaken, SemSame, Opener

LEMMA BreakSetLockBreaks ==
  ASSUME TypeInv, TypeInv', NEW b \in Builders, BreakSetLock(b)
  PROVE  SetBroken(b) /\ SemSame
<1>1. pc' = pc /\ CLEANUP' = CLEANUP /\ first' = first
  BY DEF BreakSetLock, mine
<1>2. KeepsHolding(b)
  BY <1>1 DEF KeepsHolding, OthersStay
<1> QED
  BY <1>1, <1>2, QuietKeeps
     DEF BreakSetLock, RemoveSetLock, SetBroken, SemSame, Opener

LEMMA CleanSetReleases ==
  ASSUME TypeInv, TypeInv', NEW b \in Builders, CleanSet(b)
  PROVE  SetReleased(b) /\ SemSame
<1>1. CLEANUP[b] \in {S1, S2, S3}
  BY StacksAre DEF CleanSet, TypeInv, TypeOK
<1>2. OthersStay(b) /\ CLEANUP[b] = S1 /\ CLEANUP'[b] = S1 /\ first' = first
      /\ pc[b] = "cleanup" /\ pc'[b] = "pop"
  BY <1>1, TopCommand
     DEF CleanSet, Goto, mine, OthersStay, TypeInv, TypeOK, Syncers
<1>3. /\ HoldsIn(pc[b], CLEANUP[b]) /\ ~HoldsIn(pc'[b], CLEANUP'[b])
      /\ ~UsesIn(pc'[b], CLEANUP'[b]) /\ ~UsesIn(pc[b], CLEANUP[b])
  BY <1>2, StacksDiffer DEF HoldsIn, UsesIn
<1>4. b \in Holding /\ b \notin Users
  BY <1>3, HoldersByStack DEF ByStack
<1>5. Holding' = Holding \ {b} /\ Users' = Users
  BY <1>2, <1>3, <1>4, OneMoves
<1> QED
  BY <1>2, <1>4, <1>5 DEF CleanSet, RemoveSetLock, SetReleased, SemSame, Opener

LEMMA IncrementTakes ==
  ASSUME TypeInv, TypeInv', NEW b \in Builders, Increment(b)
  PROVE  SetSame /\ SemTaken(b)
<1>1. OthersStay(b) /\ CLEANUP[b] = S1 /\ CLEANUP'[b] = S1
      /\ pc[b] = "increment" /\ pc'[b] = "pushsem" /\ b \notin first
  BY DEF Increment, Goto, OthersStay, TypeInv, TypeOK, StackInv, FirstInv, Syncers
<1>2. /\ HoldsIn(pc[b], CLEANUP[b]) /\ HoldsIn(pc'[b], CLEANUP'[b])
      /\ UsesIn(pc'[b], CLEANUP'[b]) /\ ~UsesIn(pc[b], CLEANUP[b])
  BY <1>1, StacksDiffer DEF HoldsIn, UsesIn
<1>3. b \in Holding /\ b \notin Users
  BY <1>2, HoldersByStack DEF ByStack
<1>4. Holding' = Holding /\ Users' = Users \cup {b}
  BY <1>1, <1>2, <1>3, OneMoves
<1>5. first' = IF sem = 0 THEN first \cup {b} ELSE first
  BY DEF Increment
<1>6. Opener' = IF sem = 0 THEN Opener \cup {b} ELSE Opener
  BY <1>1, <1>4, <1>5 DEF Opener
<1> QED
  BY <1>3, <1>4, <1>6 DEF Increment, SetSame, SemTaken, Opener

LEMMA CleanSemReleases ==
  ASSUME TypeInv, TypeInv', NEW b \in Builders, CleanSem(b)
  PROVE  SetSame /\ SemReleased(b)
<1>1. CLEANUP[b] \in {S1, S2, S3}
  BY StacksAre DEF CleanSem, TypeInv, TypeOK
<1>2. OthersStay(b) /\ CLEANUP[b] = S2 /\ CLEANUP'[b] = S2 /\ first' = first
      /\ pc[b] = "cleanup" /\ pc'[b] = "pop"
  BY <1>1, TopCommand
     DEF CleanSem, Goto, mine, OthersStay, TypeInv, TypeOK, Syncers
<1>3. /\ HoldsIn(pc[b], CLEANUP[b]) /\ HoldsIn(pc'[b], CLEANUP'[b])
      /\ ~UsesIn(pc'[b], CLEANUP'[b]) /\ UsesIn(pc[b], CLEANUP[b])
  BY <1>2, StacksDiffer DEF HoldsIn, UsesIn
<1>4. b \in Holding /\ b \in Users
  BY <1>3, HoldersByStack DEF ByStack
<1>5. Holding' = Holding /\ Users' = Users \ {b}
  BY <1>2, <1>3, <1>4, OneMoves
<1> QED
  BY <1>2, <1>4, <1>5 DEF CleanSem, SetSame, SemReleased, Opener

\* What a builder that dies leaves behind.
Abandoned ==
  /\ Holding' \subseteq Holding /\ Users' \subseteq Users
  /\ setLock' = setLock /\ sem' = sem /\ aged' = aged

LEMMA GoneAbandons ==
  ASSUME TypeInv, TypeInv', NEW b \in Builders, Gone(b), UNCHANGED locks
  PROVE  Abandoned /\ Holding' = Holding \ {b} /\ Users' = Users \ {b}
<1>1. OthersStay(b) /\ CLEANUP'[b] = S0 /\ pc'[b] = "idle"
  BY StacksAre DEF Gone, OthersStay, TypeInv, TypeOK, Syncers
<1>2. ~HoldsIn(pc'[b], CLEANUP'[b]) /\ ~UsesIn(pc'[b], CLEANUP'[b])
  BY <1>1, StacksDiffer DEF HoldsIn, UsesIn
<1> QED
  BY <1>1, <1>2, OneMoves DEF Abandoned, locks

LEMMA ExitFromIsQuiet ==
  ASSUME TypeInv, TypeInv', NEW b \in Builders, NEW from,
         ExitFrom(b, from), from # "pushset", from # "pushsem", from # "pop",
         UNCHANGED locks
  PROVE  Quiet /\ Abandoned
<1>1. KeepsHolding(b)
  BY DEF ExitFrom, Goto, KeepsHolding, OthersStay, HoldsIn, UsesIn,
         TypeInv, TypeOK, Syncers
<1> QED
  BY <1>1, QuietKeeps DEF ExitFrom, locks, Quiet, Abandoned, Opener

LEMMA ExitIsQuiet ==
  ASSUME TypeInv, TypeInv', NEW b \in Builders, Exit(b)
  PROVE  Quiet
<1>1. Gone(b) /\ UNCHANGED locks /\ CLEANUP[b] = S0 /\ pc[b] = "cleanup"
  BY StacksAre DEF Exit
<1>2. ~HoldsIn(pc[b], CLEANUP[b]) /\ ~UsesIn(pc[b], CLEANUP[b])
  BY <1>1, StacksDiffer DEF HoldsIn, UsesIn
<1>3. b \notin Holding /\ b \notin Users
  BY <1>2, HoldersByStack DEF ByStack
<1>4. Holding' = Holding /\ Users' = Users
  BY <1>1, <1>3, GoneAbandons
<1>5. first' = first \ {b}
  BY <1>1 DEF Gone
<1> QED
  BY <1>1, <1>3, <1>4, <1>5 DEF Quiet, Opener, locks

\* Only a user decrements, so only a user can fail to.
LEMMA DecrementFailsAbandons ==
  ASSUME TypeInv, TypeInv', NEW b \in Builders, DecrementFails(b)
  PROVE  Abandoned /\ b \in Users
<1>1. CLEANUP[b] \in {S1, S2, S3}
  BY StacksAre DEF DecrementFails, TypeInv, TypeOK
<1>2. CLEANUP[b] = S2 /\ pc[b] = "cleanup"
  BY <1>1, TopCommand DEF DecrementFails
<1>3. UsesIn(pc[b], CLEANUP[b])
  BY <1>2 DEF UsesIn
<1>4. b \in Users
  BY <1>3, HoldersByStack DEF ByStack
<1>5. CASE Gone(b) /\ UNCHANGED locks
  BY <1>4, <1>5, GoneAbandons
<1>6. CASE ExitFrom(b, "cleanup") /\ UNCHANGED locks
  BY <1>4, <1>6, ExitFromIsQuiet
<1> QED
  BY <1>5, <1>6 DEF DecrementFails

\* The steps of the scripts left alone.
LEMMA NextEffects ==
  ASSUME TypeInv, TypeInv', Next
  PROVE  \/ Quiet
         \/ \E b \in Builders :
               \/ (SetTaken(b) \/ SetBroken(b) \/ SetReleased(b)) /\ SemSame
               \/ SetSame /\ (SemTaken(b) \/ SemReleased(b))
               \/ Abandoned /\ b \in Users /\ sem = 0
<1>1. ASSUME NEW b \in Builders, DecrementAtZero(b)
      PROVE  Abandoned /\ b \in Users /\ sem = 0
  BY <1>1, DecrementFailsAbandons DEF DecrementAtZero
<1>2. ASSUME NEW b \in Builders, AnonFtpSync(b) PROVE Quiet
  BY <1>2, QuietFtp DEF Syncers
<1>3. ASSUME AnonFtpSync(Operator) \/ WaitForPackage PROVE Quiet
  BY <1>3, QuietFtp DEF Syncers
<1>4. ASSUME NEW b \in Builders, Start(b) \/ Step(b)
      PROVE  \/ Quiet
             \/ (SetTaken(b) \/ SetBroken(b) \/ SetReleased(b)) /\ SemSame
             \/ SetSame /\ (SemTaken(b) \/ SemReleased(b))
             \/ Abandoned /\ b \in Users /\ sem = 0
  BY <1>1, <1>2, <1>4, QuietEntry, QuietSync, QuietEnd, ExitIsQuiet,
     LockSetTakes, BreakSetLockBreaks, CleanSetReleases, IncrementTakes,
     CleanSemReleases DEF Step
<1> QED
  BY <1>3, <1>4 DEF Next

\* The faults other than signals and slow builds.
LEMMA FaultEffects ==
  ASSUME TypeInv, TypeInv', "signal" \notin Faults,
         \/ \E x \in Syncers : Crash(x) \/ KillFtp(x)
         \/ \E b \in Builders : Signal(b) \/ Refuse(b)
  PROVE  Abandoned
<1>1. ASSUME NEW x \in Builders, Crash(x) PROVE Abandoned
  BY <1>1, GoneAbandons DEF Crash
<1>2. ASSUME Crash(Operator) PROVE Abandoned
  <2>1. CLEANUP' = CLEANUP /\ \A b \in Builders : pc'[b] = pc[b]
    BY <1>2 DEF Crash, Goto, mine, TypeInv, TypeOK, Syncers
  <2>2. Holding' = Holding /\ Users' = Users
    BY <2>1 DEF Holding, Users, HoldsSet, Using, HasRun, OnStack, Top
  <2> QED
    BY <1>2, <2>2 DEF Crash, Abandoned, locks
<1>3. ASSUME NEW b \in Builders, Refuse(b) PROVE Abandoned
  BY <1>3, ExitFromIsQuiet, DecrementFailsAbandons DEF Refuse
<1>4. ASSUME NEW x \in Syncers, KillFtp(x) PROVE FALSE
  BY <1>4 DEF KillFtp, Fault
<1>5. ASSUME NEW b \in Builders, Signal(b) PROVE FALSE
  BY <1>5 DEF Signal, Fault
<1> QED
  BY <1>1, <1>2, <1>3, <1>4, <1>5 DEF Syncers

\* Time changes nobody's locks: a lock file that ages on its own is orphaned.
LEMMA AgeEffects ==
  ASSUME TypeInv, TypeInv', Slow \/ Age
  PROVE  /\ Holding' = Holding /\ Users' = Users /\ setLock' = setLock
         /\ sem' = sem /\ Opener' = Opener
         /\ Age => \A s \in ImageSets :
               s \in aged' => s \in aged \/ SetOrphaned(s)
<1>1. UNCHANGED <<setLock, sem, pc, CLEANUP, first>>
  BY DEF Slow, Age, mine
<1>2. Holding' = Holding /\ Users' = Users
  BY <1>1 DEF Holding, Users, HoldsSet, Using, HasRun, OnStack, Top
<1>3. Age => \A s \in ImageSets : s \in aged' => s \in aged \/ SetOrphaned(s)
  BY DEF Age
<1> QED
  BY <1>1, <1>2, <1>3 DEF Opener
-----------------------------------------------------------------------------
(* Image set exclusion: who holds the lock of an image set owns its lock     *)
(* file, and the file is younger than lockfile's -l.                        *)

OwnsSet == \A b \in Holding : setLock[SetOf[b]] = b /\ SetOf[b] \notin aged
AgedExist == \A s \in aged \cap ImageSets : setLock[s] # Nobody
SetInv == OwnsSet /\ AgedExist

LEMMA NobodyHolds == Init => Holding = {} /\ Users = {}
<1> SUFFICES ASSUME Init PROVE Holding = {} /\ Users = {}
  OBVIOUS
<1>1. ByStack
  BY TypeInit, HoldersByStack
<1>2. \A b \in Builders : pc[b] = "idle" /\ CLEANUP[b] = S0
  BY DEF Init, S0, Syncers
<1>3. \A b \in Builders :
         ~HoldsIn(pc[b], CLEANUP[b]) /\ ~UsesIn(pc[b], CLEANUP[b])
  BY <1>2, StacksDiffer DEF HoldsIn, UsesIn
<1> QED
  BY <1>1, <1>3 DEF ByStack

LEMMA SetInit == Init => SetInv
  BY NobodyHolds DEF Init, SetInv, OwnsSet, AgedExist

LEMMA SetNext ==
  ASSUME TypeInv, TypeInv', SetInv, Next
  PROVE  SetInv'
<1> USE DEF SetInv, OwnsSet, AgedExist, TypeInv, TypeOK
<1>1. Holding \subseteq Builders
  BY DEF Holding
<1>2. CASE SetSame \/ Quiet
  BY <1>1, <1>2 DEF SetSame, Quiet
<1>3. CASE Abandoned
  BY <1>1, <1>3 DEF Abandoned
<1>4. ASSUME NEW b \in Builders, SetTaken(b) PROVE SetInv'
  BY <1>1, <1>4 DEF SetTaken
<1>5. ASSUME NEW b \in Builders, SetBroken(b) PROVE SetInv'
  BY <1>1, <1>5 DEF SetBroken
<1>6. ASSUME NEW b \in Builders, SetReleased(b) PROVE SetInv'
  BY <1>1, <1>6 DEF SetReleased
<1> QED
  BY <1>2, <1>3, <1>4, <1>5, <1>6, NextEffects

LEMMA SetFault ==
  ASSUME TypeInv, TypeInv', SetInv, FaultNext,
         "signal" \notin Faults, "slow" \notin Faults
  PROVE  SetInv'
<1> USE DEF SetInv, OwnsSet, AgedExist, TypeInv, TypeOK
<1>1. Holding \subseteq Builders
  BY DEF Holding
<1>2. CASE Next
  BY <1>2, SetNext
<1>3. CASE \/ \E x \in Syncers : Crash(x) \/ KillFtp(x)
           \/ \E b \in Builders : Signal(b) \/ Refuse(b)
  <2>1. Abandoned
    BY <1>3, FaultEffects
  <2> QED
    BY <1>1, <2>1 DEF Abandoned
<1>4. CASE Slow
  BY <1>4 DEF Slow, Fault
<1>5. CASE Age
  <2>1. \A s \in ImageSets : s \in aged' => s \in aged \/ SetOrphaned(s)
    BY <1>5, AgeEffects
  <2>2. \A s \in ImageSets, b \in Holding : SetOrphaned(s) => s # SetOf[b]
    BY DEF SetOrphaned, Holding
  <2>3. Holding' = Holding /\ setLock' = setLock
    BY <1>5, AgeEffects
  <2>4. OwnsSet'
    BY <1>1, <2>1, <2>2, <2>3
  <2>5. \A s \in ImageSets : SetOrphaned(s) => setLock[s] # Nobody
    BY DEF SetOrphaned
  <2>6. AgedExist'
    BY <2>1, <2>3, <2>5
  <2> QED
    BY <2>4, <2>6
<1> QED
  BY <1>2, <1>3, <1>4, <1>5 DEF FaultNext

LEMMA SetInvExcludes == TypeInv /\ SetInv => ImageSetExclusion
  BY DEF SetInv, OwnsSet, Holding, ImageSetExclusion

LEMMA SetStutter == ASSUME SetInv, UNCHANGED vars PROVE SetInv'
<1>1. Holding' = Holding
  BY DEF vars, Holding, HoldsSet, OnStack, HasRun, Top
<1> QED
  BY <1>1 DEF vars, SetInv, OwnsSet, AgedExist

\* Two builds of one image set never run at the same time, whatever fails in
\* them and however many are started (bin/build-image-set, lines 48-52).
THEOREM Exclusion == Spec => []ImageSetExclusion
<1>1. Init => TypeInv /\ SetInv
  BY TypeInit, SetInit
<1>2. (TypeInv /\ SetInv) /\ [Next]_vars => (TypeInv /\ SetInv)'
  <2> SUFFICES ASSUME TypeInv, SetInv, [Next]_vars
               PROVE  TypeInv' /\ SetInv'
    OBVIOUS
  <2>1. TypeInv'
    BY TypeNext DEF FaultNext
  <2> QED
    BY <2>1, SetNext, SetStutter
<1> QED
  BY <1>1, <1>2, SetInvExcludes, PTL DEF Spec

\* They do not either when the machine crashes and restarts between any two
\* commands, as long as no script is signalled and none outlives the -l of its
\* lock file.
THEOREM CrashExclusion ==
  ASSUME "signal" \notin Faults, "slow" \notin Faults
  PROVE  FaultSpec => []ImageSetExclusion
<1>1. Init => TypeInv /\ SetInv
  BY TypeInit, SetInit
<1>2. (TypeInv /\ SetInv) /\ [FaultNext]_vars => (TypeInv /\ SetInv)'
  <2> SUFFICES ASSUME TypeInv, SetInv, [FaultNext]_vars
               PROVE  TypeInv' /\ SetInv'
    OBVIOUS
  <2>1. TypeInv'
    BY TypeNext
  <2> QED
    BY <2>1, SetFault, SetStutter
<1> QED
  BY <1>1, <1>2, SetInvExcludes, PTL DEF FaultSpec
-----------------------------------------------------------------------------
(* The semaphore counts its users. *)

LEMMA UsersFinite == IsFiniteSet(Users) /\ Cardinality(Users) \in Nat
  BY FS_Subset, FS_CardinalityType DEF Users

LEMMA UsersCount ==
  ASSUME NEW b
  PROVE  /\ b \notin Users =>
               Cardinality(Users \cup {b}) = Cardinality(Users) + 1
         /\ b \in Users =>
               Cardinality(Users \ {b}) = Cardinality(Users) - 1
  BY UsersFinite, FS_AddElement, FS_RemoveElement

\* A crash can leave the count too high, never too low.
CountsAll == Cardinality(Users) <= sem

CountsExactly == Cardinality(Users) = sem

LEMMA CountInit == Init => CountsExactly
  BY NobodyHolds, FS_EmptySet DEF Init, CountsExactly

LEMMA CountNext ==
  ASSUME TypeInv, TypeInv', Next
  PROVE  /\ CountsExactly => CountsExactly'
         /\ CountsAll => CountsAll'
<1> USE UsersFinite DEF CountsExactly, CountsAll, TypeInv, TypeOK
<1>1. CASE Quiet \/ SemSame
  BY <1>1 DEF Quiet, SemSame
<1>2. ASSUME NEW b \in Builders, SemTaken(b)
      PROVE  /\ CountsExactly => CountsExactly'
             /\ CountsAll => CountsAll'
  BY <1>2, UsersCount DEF SemTaken
<1>3. ASSUME NEW b \in Builders, SemReleased(b)
      PROVE  /\ CountsExactly => CountsExactly'
             /\ CountsAll => CountsAll'
  BY <1>3, UsersCount DEF SemReleased
<1>4. ASSUME NEW b \in Builders, b \in Users, sem = 0
      PROVE  ~CountsAll /\ ~CountsExactly
  BY <1>4, FS_EmptySet
<1> QED
  BY <1>1, <1>2, <1>3, <1>4, NextEffects

LEMMA CountAbandoned ==
  ASSUME TypeInv, TypeInv', CountsAll, Abandoned
  PROVE  CountsAll'
<1>1. Cardinality(Users') <= Cardinality(Users) /\ Cardinality(Users') \in Nat
  BY UsersFinite, FS_Subset, FS_CardinalityType DEF Abandoned
<1> QED
  BY <1>1, UsersFinite DEF CountsAll, Abandoned, TypeInv, TypeOK

LEMMA CountStutter ==
  ASSUME UNCHANGED vars
  PROVE  /\ Users' = Users /\ Opener' = Opener
         /\ CountsExactly => CountsExactly'
         /\ CountsAll => CountsAll'
<1>1. Users' = Users
  BY DEF vars, Users, Using, OnStack, HasRun, Top
<1> QED
  BY <1>1 DEF vars, Opener, CountsExactly, CountsAll

LEMMA NoUserAtZero ==
  ASSUME TypeInv, sem = 0, CountsAll \/ CountsExactly
  PROVE  Users = {}
  BY UsersFinite, FS_EmptySet DEF CountsAll, CountsExactly

LEMMA CountMeans ==
  /\ CountsExactly => SemaphoreCountsUsers
  /\ CountsAll => OpensOnlyWhenUnused
<1>1. CountsExactly => SemaphoreCountsUsers
  BY DEF CountsExactly, SemaphoreCountsUsers, Users
<1>2. ASSUME CountsAll, sem = 0 PROVE \A b \in Builders : ~Using(b)
  <2>1. Users = {}
    BY <1>2, UsersFinite, FS_EmptySet DEF CountsAll
  <2> QED
    BY <2>1 DEF Users
<1> QED
  BY <1>1, <1>2 DEF OpensOnlyWhenUnused

\* The semaphore counts exactly the builds between their test-increment and
\* their decrement-test (bin/build-image-set, lines 54-60 and 20-31), so no
\* decrement-test is ever refused at zero.
THEOREM Counting == Spec => []SemaphoreCountsUsers
<1>1. Init => TypeInv /\ CountsExactly
  BY TypeInit, CountInit
<1>2. (TypeInv /\ CountsExactly) /\ [Next]_vars => (TypeInv /\ CountsExactly)'
  <2> SUFFICES ASSUME TypeInv, CountsExactly, [Next]_vars
               PROVE  TypeInv' /\ CountsExactly'
    OBVIOUS
  <2>1. TypeInv'
    BY TypeNext DEF FaultNext
  <2> QED
    BY <2>1, CountNext, CountStutter
<1> QED
  BY <1>1, <1>2, CountMeans, PTL DEF Spec

\* Crashes and refused calls never make the semaphore read zero while a build
\* is using the archive: only signals can (bin/build-image-set, lines 23-24).
THEOREM OpensUnused ==
  ASSUME "signal" \notin Faults
  PROVE  FaultSpec => []OpensOnlyWhenUnused
<1>1. Init => TypeInv /\ CountsAll
  BY TypeInit, CountInit, UsersFinite DEF CountsExactly, CountsAll
<1>2. (TypeInv /\ CountsAll) /\ [FaultNext]_vars => (TypeInv /\ CountsAll)'
  <2> SUFFICES ASSUME TypeInv, CountsAll, [FaultNext]_vars
               PROVE  TypeInv' /\ CountsAll'
    OBVIOUS
  <2>1. TypeInv'
    BY TypeNext
  <2>2. CASE Next
    BY <2>1, <2>2, CountNext
  <2>3. CASE \/ \E x \in Syncers : Crash(x) \/ KillFtp(x)
             \/ \E b \in Builders : Signal(b) \/ Refuse(b)
    BY <2>1, <2>3, FaultEffects, CountAbandoned
  <2>4. CASE Slow \/ Age
    BY <2>1, <2>4, AgeEffects DEF CountsAll
  <2>5. CASE UNCHANGED vars
    BY <2>1, <2>5, CountStutter
  <2> QED
    BY <2>1, <2>2, <2>3, <2>4, <2>5 DEF FaultNext
<1> QED
  BY <1>1, <1>2, CountMeans, PTL DEF FaultSpec
-----------------------------------------------------------------------------
(* The builders share the archive as users of a SharedLock. *)

SharedOpener == {b \in first : Using(b)}

OpenersAgree == SharedOpener = Opener

LEMMA SharedOpenerNow == TypeInv => OpenersAgree
  BY DEF TypeInv, TypeOK, OpenersAgree, SharedOpener, Opener, Users

LEMMA SharedOpenerNext == TypeInv' => OpenersAgree'
  BY SharedOpenerNow, PTL

LEMMA SharedNext ==
  ASSUME TypeInv, TypeInv', CountsExactly, [Next]_vars
  PROVE  [Shared!Next]_(Shared!vars)
<1> USE SharedOpenerNow, SharedOpenerNext
        DEF OpenersAgree, Shared!vars, Users, SharedOpener
<1>1. Opener \subseteq Users
  BY DEF Opener
<1>2. CASE (Users' = Users /\ Opener' = Opener)
  BY <1>2
<1>3. ASSUME NEW b \in Builders, SemTaken(b) PROVE Shared!Next
  <2>1. sem = 0 <=> Users = {}
    BY UsersFinite, FS_EmptySet DEF CountsExactly
  <2>2. Users = {} => Opener \cup {b} = {b}
    BY <1>1
  <2>3. Opener' = IF Users = {} THEN {b} ELSE Opener
    BY <1>3, <2>1, <2>2 DEF SemTaken
  <2>4. Shared!Join(b)
    BY <1>3, <2>3 DEF Shared!Join, SemTaken
  <2> QED
    BY <2>4 DEF Shared!Next
<1>4. ASSUME NEW b \in Builders, SemReleased(b) PROVE Shared!Next
  <2>1. Shared!Leave(b)
    BY <1>4 DEF Shared!Leave, SemReleased
  <2> QED
    BY <2>1 DEF Shared!Next
<1>5. ASSUME NEW b \in Builders, b \in Users, sem = 0 PROVE FALSE
  BY <1>5, NoUserAtZero
<1>6. CASE UNCHANGED vars
  BY <1>2, <1>6, CountStutter
<1>7. CASE Quiet \/ SemSame
  BY <1>2, <1>7 DEF Quiet, SemSame
<1> QED
  BY <1>3, <1>4, <1>5, <1>6, <1>7, NextEffects

\* The builders, with the semaphore between them, share the archive as users of
\* a SharedLock (bin/semaphore, lines 5-8): whoever is told 0 by test-increment
\* came while nobody was in.
THEOREM Sharing == Spec => SharedSpec
<1>1. Init => TypeInv /\ CountsExactly
  BY TypeInit, CountInit
<1>2. (TypeInv /\ CountsExactly) /\ [Next]_vars => (TypeInv /\ CountsExactly)'
  <2> SUFFICES ASSUME TypeInv, CountsExactly, [Next]_vars
               PROVE  TypeInv' /\ CountsExactly'
    OBVIOUS
  <2>1. TypeInv'
    BY TypeNext DEF FaultNext
  <2> QED
    BY <2>1, CountNext, CountStutter
<1>3. Init => Shared!Init
  BY NobodyHolds DEF Init, Shared!Init, Users
<1>4. TypeInv /\ TypeInv' /\ CountsExactly /\ [Next]_vars
         => [Shared!Next]_(Shared!vars)
  BY SharedNext
<1> QED
  BY <1>1, <1>2, <1>3, <1>4, PTL DEF Spec, SharedSpec, Shared!Spec
-----------------------------------------------------------------------------
(* The local mirror: who runs rsync owns anonftpsync's lock file.            *)

FtpInv ==
  /\ \A x \in Syncers : HoldsFtp(x) => ftpLock = x /\ "ftp" \notin aged
  /\ "ftp" \in aged => ftpLock # Nobody

FtpSame ==
  /\ \A x \in Syncers : HoldsFtp(x)' => HoldsFtp(x)
  /\ ftpLock' = ftpLock
  /\ "ftp" \in aged' => "ftp" \in aged

LEMMA FtpSameKeeps ==
  ASSUME FtpInv, FtpSame
  PROVE  FtpInv'
  BY DEF FtpInv, FtpSame

LEMMA FtpEntry ==
  ASSUME TypeInv, NEW b \in Builders,
         \/ Start(b) \/ LockSet(b) \/ BreakSetLock(b) \/ SetLocked(b)
         \/ PushSet(b) \/ Increment(b) \/ PushSem(b)
  PROVE  FtpSame
<1>1. /\ \A x \in Syncers \ {b} : pc'[x] = pc[x]
      /\ pc'[b] \in {pc[b], "lockset", "pushset", "cleanup", "increment",
                    "pushsem", "sync", "build"}
  BY DEF TypeInv, TypeOK, Start, LockSet, BreakSetLock, SetLocked, PushSet,
         Increment, PushSem, Goto, ExitFrom
<1>2. ftpLock' = ftpLock /\ aged' \subseteq aged
  BY DEF Start, LockSet, BreakSetLock, SetLocked, PushSet, Increment, PushSem,
         RemoveSetLock, locks
<1> QED
  BY <1>1, <1>2 DEF FtpSame, HoldsFtp, Rsyncing

LEMMA FtpSync ==
  ASSUME TypeInv, NEW b \in Builders,
         \/ LockSync(b) \/ WaitForSync(b) \/ StopBeforeSync(b) \/ UnlockSync(b)
         \/ PushSync(b) \/ PopSync(b) \/ PoppedSync(b)
  PROVE  FtpSame
<1>1. /\ \A x \in Syncers \ {b} : pc'[x] = pc[x]
      /\ pc'[b] \in {"pushsync", "unlocksync", "cleanup", "build", "ftplock",
                    "poppedsync"}
  BY DEF TypeInv, TypeOK, Syncers, LockSync, WaitForSync, StopBeforeSync,
         UnlockSync, PushSync, PopSync, PoppedSync, Goto, ExitFrom
<1>2. ftpLock' = ftpLock /\ aged' = aged
  BY DEF LockSync, WaitForSync, StopBeforeSync, UnlockSync, PushSync, PopSync,
         PoppedSync, locks
<1> QED
  BY <1>1, <1>2 DEF FtpSame, HoldsFtp, Rsyncing

LEMMA FtpEnd ==
  ASSUME TypeInv, NEW b \in Builders,
         \/ Build(b) \/ BuildFails(b) \/ Publish(b)
         \/ CleanSync(b) \/ CleanSem(b) \/ CleanSet(b) \/ Pop(b)
         \/ DecrementFails(b) \/ Exit(b)
  PROVE  FtpSame
<1>1. /\ \A x \in Syncers \ {b} : pc'[x] = pc[x]
      /\ pc'[b] \in {"publish", "cleanup", "pop", "idle"}
  BY DEF TypeInv, TypeOK, Syncers, Build, BuildFails, Publish, CleanSync,
         CleanSem, CleanSet, Pop, DecrementFails, Exit, Gone, Goto, ExitFrom
<1>2. ftpLock' = ftpLock /\ aged' \subseteq aged
  BY DEF Build, BuildFails, Publish, CleanSync, CleanSem, CleanSet, Pop,
         DecrementFails, Exit, RemoveSetLock, locks
<1> QED
  BY <1>1, <1>2 DEF FtpSame, HoldsFtp, Rsyncing

LEMMA FtpFault ==
  ASSUME TypeInv,
         \/ \E x \in Syncers : Crash(x) \/ KillFtp(x)
         \/ \E b \in Builders : Signal(b) \/ Refuse(b)
  PROVE  FtpSame
<1>1. /\ \A x \in Syncers : pc'[x] \in {pc[x], "idle", "cleanup"}
      /\ ftpLock' = ftpLock /\ aged' = aged
  <2>1. ASSUME NEW x \in Syncers, Crash(x) \/ KillFtp(x) PROVE <1>1!:
    BY <2>1 DEF Crash, KillFtp, Gone, Goto, ExitFrom, locks, TypeInv, TypeOK
  <2>2. ASSUME NEW b \in Builders, Signal(b) \/ Refuse(b) PROVE <1>1!:
    BY <2>2 DEF Signal, Refuse, DecrementFails, Gone, Goto, ExitFrom, locks,
       TypeInv, TypeOK, Syncers
  <2> QED
    BY <2>1, <2>2
<1> QED
  BY <1>1 DEF FtpSame, HoldsFtp, Rsyncing

LEMMA FtpAnonFtpSync ==
  ASSUME TypeInv, FtpInv, NEW x \in Syncers, AnonFtpSync(x) \/ WaitForPackage
  PROVE  FtpInv'
<1> USE DEF TypeInv, TypeOK, FtpInv, HoldsFtp, Rsyncing, Goto, ExitFrom, locks
<1>1. CASE LockFtp(x)
  <2>1. \A y \in Syncers : ~HoldsFtp(y)
    BY <1>1 DEF LockFtp, Syncers
  <2> QED
    BY <1>1, <2>1 DEF LockFtp, Syncers
<1>2. CASE BreakFtpLock(x)
  BY <1>2 DEF BreakFtpLock, RemoveFtpLock
<1>3. CASE FtpLocked(x)
  BY <1>3 DEF FtpLocked
<1>4. CASE Rsync(x)
  BY <1>4 DEF Rsync
<1>5. CASE FtpDone(x)
  BY <1>5 DEF FtpDone, RemoveFtpLock
<1>6. CASE WaitForPackage
  BY <1>6 DEF WaitForPackage
<1> QED
  BY <1>1, <1>2, <1>3, <1>4, <1>5, <1>6 DEF AnonFtpSync

LEMMA FtpAge ==
  ASSUME TypeInv, FtpInv, Age
  PROVE  FtpInv'
<1>1. pc' = pc /\ ftpLock' = ftpLock
      /\ ("ftp" \in aged' => "ftp" \in aged \/ FtpOrphaned)
  BY SetOfAssumption DEF Age
<1> QED
  BY <1>1 DEF FtpInv, HoldsFtp, FtpOrphaned

LEMMA FtpNext ==
  ASSUME TypeInv, FtpInv, "slow" \notin Faults, [FaultNext]_vars
  PROVE  FtpInv'
<1>1. ASSUME NEW b \in Builders, Start(b) \/ Step(b) PROVE FtpInv'
  <2>1. CASE AnonFtpSync(b)
    BY <2>1, FtpAnonFtpSync DEF Syncers
  <2>2. CASE ~AnonFtpSync(b)
    BY <1>1, <2>2, FtpEntry, FtpSync, FtpEnd, FtpSameKeeps
       DEF Step, DecrementAtZero
  <2> QED
    BY <2>1, <2>2
<1>2. CASE WaitForPackage \/ AnonFtpSync(Operator)
  BY <1>2, FtpAnonFtpSync DEF Syncers
<1>3. CASE \/ \E x \in Syncers : Crash(x) \/ KillFtp(x)
           \/ \E b \in Builders : Signal(b) \/ Refuse(b)
  BY <1>3, FtpFault, FtpSameKeeps
<1>4. CASE Slow
  BY <1>4 DEF Slow, Fault
<1>5. CASE Age
  BY <1>5, FtpAge
<1>6. CASE UNCHANGED vars
  BY <1>6 DEF vars, FtpInv, HoldsFtp
<1> QED
  BY <1>1, <1>2, <1>3, <1>4, <1>5, <1>6 DEF FaultNext, Next

\* The local mirror is never written by two rsyncs at once, whatever is killed,
\* signalled or refused, as long as none runs for longer than lockfile's
\* -l 43200 (anonftpsync, lines 82-96).
THEOREM RsyncExclusion ==
  ASSUME "slow" \notin Faults
  PROVE  FaultSpec => []OneRsync
<1>1. Init => TypeInv /\ FtpInv
  BY TypeInit DEF Init, FtpInv, HoldsFtp, Rsyncing
<1>2. (TypeInv /\ FtpInv) /\ [FaultNext]_vars => (TypeInv /\ FtpInv)'
  BY TypeNext, FtpNext
<1>3. FtpInv => OneRsync
  BY DEF FtpInv, HoldsFtp, OneRsync
<1> QED
  BY <1>1, <1>2, <1>3, PTL DEF FaultSpec
-----------------------------------------------------------------------------
(* Nothing is left behind: without faults the process that a lock file names *)
(* is one that is still going to remove it.                                  *)

\* Where a builder has the sync lock's removal before it.
SyncIn(p, s) ==
  p \in {"pushsync", "unlocksync"} \/ (s = S3 /\ p \notin {"pop", "poppedsync"})

SetOwned ==
  \A s \in ImageSets :
      setLock[s] # Nobody => setLock[s] \in Holding /\ SetOf[setLock[s]] = s
SyncOwned ==
  syncLock # Nobody => SyncIn(pc[syncLock], CLEANUP[syncLock])
FtpOwned ==
  ftpLock # Nobody => HoldsFtp(ftpLock)

Owned == aged = {} /\ SetOwned /\ SyncOwned /\ FtpOwned

LEMMA OwnedInit == Init => Owned
  BY DEF Init, Owned, SetOwned, SyncOwned, FtpOwned

LEMMA SetOwnedNext ==
  ASSUME TypeInv, TypeInv', CountsExactly, aged = {}, SetOwned, Next
  PROVE  SetOwned'
<1> USE DEF SetOwned, TypeInv, TypeOK
<1>1. Holding \subseteq Builders
  BY DEF Holding
<1>2. CASE SetSame \/ Quiet
  BY <1>2 DEF SetSame, Quiet
<1>3. ASSUME NEW b \in Builders, SetTaken(b) PROVE SetOwned'
  BY <1>1, <1>3 DEF SetTaken
<1>4. ASSUME NEW b \in Builders, SetBroken(b) PROVE SetOwned'
  BY <1>4 DEF SetBroken
<1>5. ASSUME NEW b \in Builders, SetReleased(b) PROVE SetOwned'
  BY <1>1, <1>5 DEF SetReleased
<1>6. ASSUME NEW b \in Builders, b \in Users, sem = 0 PROVE FALSE
  BY <1>6, NoUserAtZero
<1> QED
  BY <1>2, <1>3, <1>4, <1>5, <1>6, NextEffects

\* Before the sync, and after it, a builder has nothing to do with either lock.
LEMMA OwnedEntry ==
  ASSUME TypeInv, Owned, NEW b \in Builders,
         \/ Start(b) \/ LockSet(b) \/ BreakSetLock(b) \/ SetLocked(b)
         \/ PushSet(b) \/ Increment(b) \/ PushSem(b)
  PROVE  aged' = {} /\ SyncOwned' /\ FtpOwned'
<1>1. /\ \A x \in Syncers \ {b} : pc'[x] = pc[x]
      /\ \A c \in Builders \ {b} : CLEANUP'[c] = CLEANUP[c]
      /\ pc[b] \in {"idle", "lockset", "pushset", "increment", "pushsem"}
  BY DEF TypeInv, TypeOK, Start, LockSet, BreakSetLock, SetLocked, PushSet,
         Increment, PushSem, Goto, ExitFrom, push_cleanup, mine
<1>2. ftpLock' = ftpLock /\ syncLock' = syncLock /\ aged' = {}
  BY DEF Owned, Start, LockSet, BreakSetLock, SetLocked, PushSet, Increment, PushSem,
         RemoveSetLock, locks
<1>3. CLEANUP[b] # S3
  BY <1>1, StacksDiffer DEF TypeInv, StackInv
<1>4. ftpLock # b /\ syncLock # b
  BY <1>1, <1>3 DEF Owned, SyncOwned, FtpOwned, SyncIn, HoldsFtp, Rsyncing
<1> QED
  BY <1>1, <1>2, <1>4 DEF Owned, SyncOwned, FtpOwned, HoldsFtp, TypeInv, TypeOK, Syncers

LEMMA OwnedSync ==
  ASSUME TypeInv, TypeInv', Owned, NEW b \in Builders,
         \/ LockSync(b) \/ WaitForSync(b) \/ StopBeforeSync(b) \/ UnlockSync(b)
         \/ PushSync(b) \/ PopSync(b) \/ PoppedSync(b)
  PROVE  aged' = {} /\ SyncOwned' /\ FtpOwned'
<1> USE DEF Syncers, Goto
<1>1. /\ \A x \in Syncers \ {b} : pc'[x] = pc[x]
      /\ \A c \in Builders \ {b} : CLEANUP'[c] = CLEANUP[c]
      /\ pc[b] \in {"sync", "unlocksync", "pushsync", "popsync", "poppedsync"}
  BY DEF TypeInv, TypeOK, LockSync, WaitForSync, StopBeforeSync, UnlockSync,
         PushSync, PopSync, PoppedSync, ExitFrom, push_cleanup, DropTop, mine
<1>2. ftpLock' = ftpLock /\ aged' = {}
  BY DEF Owned, LockSync, WaitForSync, StopBeforeSync, UnlockSync, PushSync,
         PopSync, PoppedSync, locks
<1>3. ftpLock # b
  BY <1>1 DEF Owned, FtpOwned, HoldsFtp, Rsyncing
<1>4. FtpOwned'
  BY <1>1, <1>2, <1>3 DEF Owned, FtpOwned, HoldsFtp, TypeInv, TypeOK
<1>5. CASE LockSync(b) \/ WaitForSync(b)
  BY <1>2, <1>4, <1>5 DEF LockSync, WaitForSync, SyncOwned, SyncIn, TypeInv, TypeOK
<1>6. CASE UnlockSync(b) \/ PopSync(b)
  BY <1>2, <1>4, <1>6 DEF UnlockSync, PopSync, SyncOwned
<1>7. CASE PushSync(b)
  <2>1. syncLock' = syncLock /\ pc'[b] = "ftplock"
    BY <1>7 DEF PushSync, locks, TypeInv, TypeOK
  <2>2. CLEANUP'[b] = S3
    BY <2>1 DEF TypeInv, StackInv, FtpPCs
  <2> QED
    BY <1>1, <1>2, <1>4, <2>1, <2>2 DEF Owned, SyncOwned, SyncIn, TypeInv, TypeOK
<1>8. CASE StopBeforeSync(b) \/ PoppedSync(b)
  <2>1. syncLock' = syncLock /\ pc[b] \in {"sync", "poppedsync"}
    BY <1>8 DEF StopBeforeSync, PoppedSync, ExitFrom, locks
  <2>2. ~SyncIn(pc[b], CLEANUP[b])
    BY <2>1, StacksDiffer DEF SyncIn, TypeInv, StackInv
  <2> QED
    BY <1>1, <1>2, <1>4, <2>1, <2>2 DEF Owned, SyncOwned, TypeInv, TypeOK
<1> QED
  BY <1>2, <1>4, <1>5, <1>6, <1>7, <1>8

LEMMA OwnedEnd ==
  ASSUME TypeInv, TypeInv', CountsExactly, Owned, NEW b \in Builders,
         \/ Build(b) \/ BuildFails(b) \/ Publish(b)
         \/ CleanSync(b) \/ CleanSem(b) \/ CleanSet(b) \/ Pop(b)
         \/ DecrementAtZero(b) \/ Exit(b)
  PROVE  aged' = {} /\ SyncOwned' /\ FtpOwned'
<1> USE DEF Syncers, Goto
<1>1. /\ \A x \in Syncers \ {b} : pc'[x] = pc[x]
      /\ \A c \in Builders \ {b} : CLEANUP'[c] = CLEANUP[c]
      /\ pc[b] \in {"build", "publish", "cleanup", "pop"}
  BY DEF TypeInv, TypeOK, Build, BuildFails, Publish, CleanSync, CleanSem, CleanSet,
         Pop, DecrementAtZero, DecrementFails, Exit, Gone, ExitFrom, DropTop, mine
<1>2. ftpLock' = ftpLock /\ aged' = {}
  BY DEF Owned, Build, BuildFails, Publish, CleanSync, CleanSem, CleanSet, Pop,
         DecrementAtZero, DecrementFails, Exit, RemoveSetLock, locks
<1>3. ftpLock # b
  BY <1>1 DEF Owned, FtpOwned, HoldsFtp, Rsyncing
<1>4. FtpOwned'
  BY <1>1, <1>2, <1>3 DEF Owned, FtpOwned, HoldsFtp, TypeInv, TypeOK
<1>5. CASE CleanSync(b)
  BY <1>2, <1>4, <1>5 DEF CleanSync, SyncOwned
<1>6. CASE ~CleanSync(b)
  <2>1. syncLock' = syncLock
    BY <1>6 DEF Build, BuildFails, Publish, CleanSem, CleanSet, Pop,
       DecrementAtZero, DecrementFails, Exit, RemoveSetLock, locks
  <2>2. pc[b] \in {"build", "publish"} => CLEANUP[b] # S3
    BY StacksDiffer DEF TypeInv, StackInv
  <2>3. pc[b] = "cleanup" => CLEANUP[b] # S3
    <3>1. CASE CleanSem(b) \/ CleanSet(b) \/ DecrementAtZero(b)
      <4>1. CLEANUP[b] \in {S1, S2, S3} /\ Top(b) \in {"sem", "set"}
        BY <3>1, StacksAre DEF CleanSem, CleanSet, DecrementAtZero, DecrementFails,
           TypeInv, TypeOK
      <4> QED
        BY <4>1, TopCommand, StacksDiffer
    <3>2. CASE Exit(b)
      BY <3>2, StacksAre, StacksDiffer DEF Exit
    <3>3. CASE Build(b) \/ BuildFails(b) \/ Publish(b) \/ Pop(b)
      BY <3>3 DEF Build, BuildFails, Publish, Pop, ExitFrom
    <3> QED
      BY <1>6, <3>1, <3>2, <3>3
  <2>4. ~SyncIn(pc[b], CLEANUP[b])
    BY <1>1, <2>2, <2>3 DEF SyncIn
  <2> QED
    BY <1>1, <1>2, <1>4, <2>1, <2>4 DEF Owned, SyncOwned, TypeInv, TypeOK
<1> QED
  BY <1>2, <1>4, <1>5, <1>6

\* anonftpsync leaves the sync lock to the builder that runs it.
LEMMA OwnedFtp ==
  ASSUME TypeInv, TypeInv', Owned, NEW x \in Syncers, AnonFtpSync(x)
  PROVE  aged' = {} /\ SyncOwned' /\ FtpOwned'
<1> USE DEF Goto
<1>1. /\ \A y \in Syncers \ {x} : pc'[y] = pc[y]
      /\ CLEANUP' = CLEANUP
      /\ pc[x] \in FtpPCs
      /\ pc'[x] \in FtpPCs \cup {"popsync", "cleanup", "idle"}
      /\ x \in Builders => pc'[x] # "idle"
  BY DEF TypeInv, TypeOK, AnonFtpSync, LockFtp, BreakFtpLock, FtpLocked, Rsync, FtpDone,
     ExitFrom, mine, FtpPCs, Rsyncing
<1>2. syncLock' = syncLock /\ aged' = {}
  BY DEF Owned, AnonFtpSync, LockFtp, BreakFtpLock, FtpLocked, Rsync, FtpDone,
     RemoveFtpLock, locks
<1>3. x \in Builders => SyncIn(pc'[x], CLEANUP'[x])
  <2>1. x \in Builders => CLEANUP[x] = S3
    BY <1>1 DEF TypeInv, StackInv
  <2> QED
    BY <1>1, <2>1 DEF SyncIn, FtpPCs, Rsyncing
<1>4. SyncOwned'
  BY <1>1, <1>2, <1>3 DEF Owned, SyncOwned, TypeInv, TypeOK, Syncers
<1>5. FtpOwned'
  <2>1. CASE LockFtp(x)
    BY <2>1 DEF LockFtp, FtpOwned, HoldsFtp, Rsyncing, TypeInv, TypeOK
  <2>2. CASE BreakFtpLock(x)
    BY <2>2 DEF BreakFtpLock, Owned
  <2>3. CASE FtpLocked(x)
    <3>1. ftpLock' = ftpLock /\ pc[x] = "ftplock"
      BY <2>3 DEF FtpLocked, ExitFrom, locks
    <3>2. ftpLock # x
      BY <3>1 DEF Owned, FtpOwned, HoldsFtp, Rsyncing, Syncers
    <3> QED
      BY <1>1, <3>1, <3>2 DEF Owned, FtpOwned, HoldsFtp, TypeInv, TypeOK
  <2>4. CASE Rsync(x)
    <3>1. ftpLock' = ftpLock /\ pc'[x] \in {"pass2", "ftpdone"}
      BY <2>4 DEF Rsync, locks, TypeInv, TypeOK
    <3> QED
      BY <1>1, <3>1 DEF Owned, FtpOwned, HoldsFtp, Rsyncing, TypeInv, TypeOK
  <2>5. CASE FtpDone(x)
    BY <2>5 DEF FtpDone, RemoveFtpLock, FtpOwned
  <2> QED
    BY <2>1, <2>2, <2>3, <2>4, <2>5 DEF AnonFtpSync
<1> QED
  BY <1>2, <1>4, <1>5

LEMMA OwnedWait ==
  ASSUME TypeInv, Owned, WaitForPackage
  PROVE  aged' = {} /\ SyncOwned' /\ FtpOwned'
<1>1. /\ UNCHANGED <<aged, syncLock, ftpLock, CLEANUP>> /\ pc[Operator] = "idle"
      /\ \A y \in Builders : pc'[y] = pc[y]
  BY DEF WaitForPackage, Goto, locks, mine, TypeInv, TypeOK, Syncers
<1>2. ftpLock # Operator
  BY <1>1 DEF Owned, FtpOwned, HoldsFtp, Rsyncing
<1> QED
  BY <1>1, <1>2 DEF Owned, SyncOwned, FtpOwned, HoldsFtp, TypeInv, TypeOK, Syncers

LEMMA OwnedNext ==
  ASSUME TypeInv, TypeInv', CountsExactly, Owned, Next
  PROVE  Owned'
<1>1. SetOwned'
  BY SetOwnedNext DEF Owned
<1>2. ASSUME NEW b \in Builders, Start(b) \/ Step(b)
      PROVE  aged' = {} /\ SyncOwned' /\ FtpOwned'
  BY <1>2, OwnedEntry, OwnedSync, OwnedEnd, OwnedFtp DEF Step, Syncers
<1>3. CASE WaitForPackage \/ AnonFtpSync(Operator)
  BY <1>1, <1>3, OwnedWait, OwnedFtp DEF Owned, Syncers
<1> QED
  BY <1>1, <1>2, <1>3 DEF Next, Owned

LEMMA OwnedStutter == ASSUME Owned, UNCHANGED vars PROVE Owned'
<1>1. Holding' = Holding
  BY DEF vars, Holding, HoldsSet, OnStack, HasRun, Top
<1> QED
  BY <1>1 DEF vars, Owned, SetOwned, SyncOwned, FtpOwned, HoldsFtp

LEMMA IdleOwnsNothing ==
  ASSUME TypeInv, CountsExactly, Owned
  PROVE  NothingLeftBehind
<1> SUFFICES ASSUME \A x \in Syncers : pc[x] = "idle"
             PROVE  /\ \A s \in ImageSets : setLock[s] = Nobody
                    /\ sem = 0 /\ syncLock = Nobody /\ ftpLock = Nobody
  BY DEF NothingLeftBehind
<1>1. \A b \in Builders : pc[b] = "idle" /\ CLEANUP[b] = S0
  BY DEF TypeInv, StackInv, Syncers
<1>2. /\ \A b \in Builders : /\ ~HoldsIn(pc[b], CLEANUP[b]) /\ ~UsesIn(pc[b], CLEANUP[b])
                             /\ ~SyncIn(pc[b], CLEANUP[b])
  BY <1>1, StacksDiffer DEF HoldsIn, UsesIn, SyncIn
<1>3. Holding = {} /\ Users = {}
  BY <1>2, HoldersByStack DEF ByStack
<1>4. sem = 0
  BY <1>3, FS_EmptySet DEF CountsExactly
<1>5. \A s \in ImageSets : setLock[s] = Nobody
  BY <1>3 DEF Owned, SetOwned
<1>6. syncLock = Nobody
  BY <1>2 DEF Owned, SyncOwned, TypeInv, TypeOK
<1>7. ftpLock = Nobody
  BY DEF Owned, FtpOwned, HoldsFtp, Rsyncing, TypeInv, TypeOK
<1> QED
  BY <1>4, <1>5, <1>6, <1>7

\* Wherever builds fail and however many run at once, when the last script has
\* ended there is no lock file and the semaphore is at zero (cleanup and its
\* trap, bin/build-image-set:13-31).
THEOREM CleanEnd == Spec => []NothingLeftBehind
<1> DEFINE I == TypeInv /\ CountsExactly /\ Owned
<1>1. Init => I
  BY TypeInit, CountInit, OwnedInit
<1>2. I /\ [Next]_vars => I'
  <2> SUFFICES ASSUME I, [Next]_vars PROVE I'
    OBVIOUS
  <2>1. TypeInv'
    BY TypeNext DEF FaultNext
  <2> QED
    BY <2>1, CountNext, CountStutter, OwnedNext, OwnedStutter
<1>3. I => NothingLeftBehind
  BY IdleOwnsNothing
<1> QED
  BY <1>1, <1>2, <1>3, PTL DEF Spec
-----------------------------------------------------------------------------
(* The sync lock of a dead build: whoever removes a lock file knows of it.   *)

HoldsSyncByStack ==
  \A b \in Builders : HoldsSync(b) <=> SyncIn(pc[b], CLEANUP[b])

LEMMA SyncByStackNow == TypeInv => HoldsSyncByStack
<1> SUFFICES ASSUME TypeInv, NEW b \in Builders
             PROVE  HoldsSync(b) <=> SyncIn(pc[b], CLEANUP[b])
  BY DEF HoldsSyncByStack
<1>1. CLEANUP[b] \in {S0, S1, S2, S3}
  BY StacksAre DEF TypeInv, TypeOK
<1>2. OnStack(b, "sync") <=> CLEANUP[b] = S3
  BY <1>1, OnStacks
<1>3. CLEANUP[b] = S3 => Top(b) = "sync"
  BY TopCommand
<1> QED
  BY <1>2, <1>3 DEF HoldsSync, HasRun, SyncIn

LEMMA SyncByStackNext == TypeInv' => HoldsSyncByStack'
  BY SyncByStackNow, PTL

\* No step of one process, but for what the lock's users do, touches the file
\* or makes that process one of them.
SyncKept(x) ==
  /\ syncLock' = syncLock
  /\ \A c \in Builders \ {x} : pc'[c] = pc[c] /\ CLEANUP'[c] = CLEANUP[c]
  /\ x \in Builders =>
       /\ ~SyncIn(pc'[x], CLEANUP'[x])
       /\ pc[x] = "sync" => pc'[x] \in {"sync", "cleanup", "idle"}

LEMMA SyncKeptEntry ==
  ASSUME TypeInv, TypeInv', NEW b \in Builders,
         \/ Start(b) \/ LockSet(b) \/ BreakSetLock(b) \/ SetLocked(b)
         \/ PushSet(b) \/ Increment(b) \/ PushSem(b)
  PROVE  SyncKept(b)
<1>1. /\ \A c \in Builders \ {b} : pc'[c] = pc[c] /\ CLEANUP'[c] = CLEANUP[c]
      /\ pc[b] \in {"idle", "lockset", "pushset", "increment", "pushsem"}
      /\ pc'[b] \in {"lockset", "pushset", "increment", "pushsem", "sync", "build",
                     "cleanup"}
      /\ pc'[b] = "cleanup" => CLEANUP'[b] = CLEANUP[b]
      /\ syncLock' = syncLock
  BY DEF TypeInv, TypeOK, Syncers, Start, LockSet, BreakSetLock, SetLocked, PushSet,
         Increment, PushSem, Goto, ExitFrom, push_cleanup, locks, mine, RemoveSetLock
<1>2. CLEANUP'[b] # S3
  BY <1>1, StacksDiffer DEF TypeInv, StackInv
<1> QED
  BY <1>1, <1>2 DEF SyncKept, SyncIn

LEMMA SyncKeptSync ==
  ASSUME TypeInv, TypeInv', syncLock # Nobody, NEW b \in Builders,
         ~SyncIn(pc[b], CLEANUP[b]),
         \/ LockSync(b) \/ WaitForSync(b) \/ StopBeforeSync(b) \/ UnlockSync(b)
         \/ PushSync(b) \/ PopSync(b) \/ PoppedSync(b)
  PROVE  SyncKept(b)
<1>1. pc[b] = "popsync" => CLEANUP[b] = S3
  BY DEF TypeInv, StackInv
<1>2. StopBeforeSync(b) \/ PoppedSync(b)
  BY <1>1 DEF LockSync, WaitForSync, UnlockSync, PushSync, PopSync, Goto, SyncIn
<1>3. /\ \A c \in Builders \ {b} : pc'[c] = pc[c] /\ CLEANUP'[c] = CLEANUP[c]
      /\ \/ pc[b] = "sync" /\ pc'[b] = "cleanup" /\ CLEANUP'[b] = CLEANUP[b]
         \/ pc[b] = "poppedsync" /\ pc'[b] = "build"
      /\ syncLock' = syncLock
  BY <1>2 DEF TypeInv, TypeOK, Syncers, StopBeforeSync, PoppedSync, Goto, ExitFrom,
     DropTop, locks
<1>4. CLEANUP'[b] # S3
  BY <1>3, StacksDiffer DEF TypeInv, StackInv
<1> QED
  BY <1>3, <1>4 DEF SyncKept, SyncIn

LEMMA SyncKeptEnd ==
  ASSUME TypeInv, TypeInv', NEW b \in Builders, ~SyncIn(pc[b], CLEANUP[b]),
         \/ Build(b) \/ BuildFails(b) \/ Publish(b)
         \/ CleanSync(b) \/ CleanSem(b) \/ CleanSet(b) \/ Pop(b)
         \/ DecrementFails(b) \/ Exit(b)
  PROVE  SyncKept(b)
<1>1. CASE CleanSync(b)
  <2>1. CLEANUP[b] = S3 /\ pc[b] = "cleanup"
    BY <1>1, StacksAre, TopCommand DEF CleanSync, Goto, TypeInv, TypeOK
  <2> QED
    BY <2>1 DEF SyncIn
<1>2. CASE ~CleanSync(b)
  <2>1. /\ \A c \in Builders \ {b} : pc'[c] = pc[c] /\ CLEANUP'[c] = CLEANUP[c]
        /\ pc[b] \in {"build", "publish", "cleanup", "pop"}
        /\ pc'[b] \in {"publish", "cleanup", "pop", "idle"}
        /\ syncLock' = syncLock
    BY <1>2 DEF TypeInv, TypeOK, Syncers, Build, BuildFails, Publish, CleanSem, CleanSet,
       Pop, DecrementFails, Exit, Gone, Goto, ExitFrom, DropTop, RemoveSetLock, locks, mine
  <2>2. \/ CLEANUP'[b] \in {CLEANUP[b], S0} /\ pc[b] # "pop"
        \/ Pop(b)
    BY <1>2, StacksAre DEF TypeInv, TypeOK, Build, BuildFails, Publish, CleanSem, CleanSet,
       DecrementFails, Exit, Gone, Goto, ExitFrom, mine
  <2>3. CASE CLEANUP'[b] \in {CLEANUP[b], S0} /\ pc[b] # "pop"
    <3>1. CLEANUP[b] # S3
      BY <2>1, <2>3, StacksDiffer DEF SyncIn
    <3> QED
      BY <2>1, <2>3, <3>1, StacksDiffer DEF SyncKept, SyncIn
  <2>4. CASE Pop(b)
    <3>1. /\ CLEANUP[b] \in {S1, S2, S3}
          /\ CLEANUP'[b] = SubSeq(CLEANUP[b], 1, Len(CLEANUP[b]) - 1)
      BY <2>4, StacksAre DEF Pop, Goto, DropTop, TypeInv, TypeOK, StackInv
    <3>2. CLEANUP'[b] # S3
      BY <3>1, Pops, StacksDiffer
    <3> QED
      BY <2>1, <2>4, <3>2 DEF SyncKept, SyncIn, Pop, Goto
  <2> QED
    BY <2>2, <2>3, <2>4
<1> QED
  BY <1>1, <1>2

LEMMA SyncKeptFtp ==
  ASSUME TypeInv, NEW x \in Syncers, x \in Builders => ~SyncIn(pc[x], CLEANUP[x]),
         AnonFtpSync(x) \/ WaitForPackage
  PROVE  SyncKept(IF WaitForPackage THEN Operator ELSE x)
<1>1. CASE WaitForPackage
  BY <1>1 DEF WaitForPackage, Goto, locks, mine, SyncKept, TypeInv, TypeOK, Syncers
<1>2. CASE AnonFtpSync(x) /\ ~WaitForPackage
  <2>1. /\ pc[x] \in FtpPCs /\ syncLock' = syncLock
        /\ \A c \in Builders \ {x} : pc'[c] = pc[c] /\ CLEANUP'[c] = CLEANUP[c]
    BY <1>2 DEF TypeInv, TypeOK, Syncers, AnonFtpSync, LockFtp, BreakFtpLock, FtpLocked,
       Rsync, FtpDone, RemoveFtpLock, Goto, ExitFrom, locks, mine, FtpPCs, Rsyncing
  <2>2. x \notin Builders
    BY <2>1 DEF TypeInv, StackInv, SyncIn, FtpPCs, Rsyncing
  <2> QED
    BY <1>2, <2>1, <2>2 DEF SyncKept
<1> QED
  BY <1>1, <1>2

LEMMA SyncKeptFault ==
  ASSUME TypeInv, NEW x \in Syncers, "signal" \notin faults',
         x \in Builders => ~SyncIn(pc[x], CLEANUP[x]),
         \/ Crash(x) \/ KillFtp(x)
         \/ x \in Builders /\ (Signal(x) \/ Refuse(x))
  PROVE  SyncKept(x)
<1> USE DEF TypeInv, TypeOK, Syncers
<1>1. CASE Crash(x)
  <2>1. /\ \A c \in Builders \ {x} : pc'[c] = pc[c] /\ CLEANUP'[c] = CLEANUP[c]
        /\ syncLock' = syncLock
        /\ x \in Builders => pc'[x] = "idle" /\ CLEANUP'[x] = S0
    BY <1>1, StacksAre DEF Crash, Gone, Goto, locks, mine
  <2> QED
    BY <2>1, StacksDiffer DEF SyncKept, SyncIn
<1>2. CASE KillFtp(x) \/ Signal(x)
  BY <1>2 DEF KillFtp, Signal, Fault
<1>3. CASE x \in Builders /\ Refuse(x)
  <2>1. /\ \A c \in Builders \ {x} : pc'[c] = pc[c] /\ CLEANUP'[c] = CLEANUP[c]
        /\ syncLock' = syncLock
        /\ pc[x] \in {"increment", "cleanup"} /\ pc'[x] \in {"idle", "cleanup"}
        /\ CLEANUP'[x] \in {CLEANUP[x], S0}
    BY <1>3, StacksAre DEF Refuse, DecrementFails, Gone, Goto, ExitFrom, locks
  <2>2. CLEANUP[x] # S3
    BY <1>3, <2>1 DEF SyncIn
  <2> QED
    BY <1>3, <2>1, <2>2, StacksDiffer DEF SyncKept, SyncIn
<1> QED
  BY <1>1, <1>2, <1>3

SyncStays ==
  /\ syncLock' = syncLock
  /\ SyncOrphaned'
  /\ \A b \in Builders : pc[b] = "sync" => pc'[b] \in {"sync", "cleanup", "idle"}

LEMMA SyncLeft ==
  ASSUME TypeInv, TypeInv', FaultNext, "signal" \notin faults', SyncOrphaned
  PROVE  SyncStays
<1>1. syncLock # Nobody /\ \A b \in Builders : ~SyncIn(pc[b], CLEANUP[b])
  BY SyncByStackNow DEF SyncOrphaned, HoldsSyncByStack
<1>2. ASSUME NEW x, SyncKept(x) PROVE SyncStays
  <2>1. \A b \in Builders : ~SyncIn(pc'[b], CLEANUP'[b])
    BY <1>1, <1>2 DEF SyncKept
  <2>2. SyncOrphaned'
    BY <1>1, <1>2, <2>1, SyncByStackNext DEF SyncOrphaned, HoldsSyncByStack, SyncKept
  <2> QED
    BY <1>2, <2>2 DEF SyncKept, SyncStays
<1>3. ASSUME NEW b \in Builders, Start(b) \/ Step(b) PROVE SyncStays
  <2>1. CASE AnonFtpSync(b)
    BY <1>1, <1>2, <2>1, SyncKeptFtp DEF Syncers
  <2>2. CASE ~AnonFtpSync(b)
    BY <1>1, <1>2, <1>3, <2>2, SyncKeptEntry, SyncKeptSync, SyncKeptEnd
       DEF Step, DecrementAtZero
  <2> QED
    BY <2>1, <2>2
<1>4. CASE WaitForPackage \/ AnonFtpSync(Operator)
  <2>1. \E x : SyncKept(x)
    BY <1>1, <1>4, SyncKeptFtp DEF Syncers
  <2> QED
    BY <1>2, <2>1
<1>5. CASE \/ \E x \in Syncers : Crash(x) \/ KillFtp(x)
           \/ \E b \in Builders : Signal(b) \/ Refuse(b)
  <2>1. \E x : SyncKept(x)
    BY <1>1, <1>5, SyncKeptFault DEF Syncers
  <2> QED
    BY <1>2, <2>1
<1>6. CASE Slow \/ Age
  <2>1. UNCHANGED <<syncLock, pc, CLEANUP>>
    BY <1>6 DEF Slow, Age, mine
  <2>2. SyncKept(Operator)
    BY <1>1, <2>1 DEF SyncKept
  <2> QED
    BY <1>2, <2>2
<1> QED
  BY <1>2, <1>3, <1>4, <1>5, <1>6 DEF FaultNext, Next

\* The sync lock of a build that is gone stays for ever, and no build gets past
\* it, whatever else crashes, is refused or too slow (bin/build-image-set:122).
THEOREM OrphanSyncForever == FaultSpec => OrphanSyncLockIsForever
<1>1. TypeInv /\ TypeInv' /\ [FaultNext]_vars =>
        [ "signal" \notin faults' /\ SyncOrphaned => SyncStays ]_vars
  BY SyncLeft
<1> QED
  BY <1>1, TypeInvariance, PTL DEF OrphanSyncLockIsForever, SyncStays, FaultSpec
=============================================================================
