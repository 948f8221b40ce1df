-------------------------- MODULE SemaphoreProofs --------------------------
(***************************************************************************)
(* Theorems about bin/semaphore, whose callers may die at any command, for *)
(* every set of callers and every -r.  The inductive invariant Inv says    *)
(* what each command of the script may rely on: the file is described by   *)
(* the position of the one process that holds the lock file.               *)
(***************************************************************************)
EXTENDS Semaphore, TLAPS

\* The lock file belongs to the process that is past lockfile.
LockInv ==
    \A p \in Procs :
        /\ pc[p] \in Locked => lock = p
        /\ pc[p] \notin {"sigtrap", "exittrap"}

\* The number in the file, and whether the file exists.
FileInv ==
    /\ content >= 0
    /\ disk = "absent" => content = 0
    /\ lock = Nobody => (disk = "present" => content > 0)

\* What p knows of the file at each of its commands.
Knows(p) ==
    /\ pc[p] \in {"trap", "create", "echo", "exit"} => (disk = "present" => content > 0)
    /\ pc[p] \in {"state", "zero", "cur", "write", "restate", "remove"}
          => disk = "present"
    /\ pc[p] \in {"zero", "remove"} => content = 0
    /\ pc[p] = "remove" => State[p] = 0
    /\ pc[p] \in {"cur", "write"} =>
          /\ State[p] = content
          /\ mode[p] = "decrement-test" => content > 0
    /\ pc[p] = "write" => Cur[p] = content

\* Only a script about to end has an outcome.
OutcomeInv ==
    \A p \in Procs :
        /\ pc[p] = "failed" => outcome[p] = "error"
        /\ pc[p] = "exit" => outcome[p] # "blank"
        /\ pc[p] \notin {"failed", "exit"} => outcome[p] = "blank"

Inv ==
    /\ TypeOK
    /\ LockInv
    /\ FileInv
    /\ \A p \in Procs : Knows(p)
    /\ OutcomeInv
-----------------------------------------------------------------------------
USE NobodyAssumption, RetriesAssumption, BoundsAssumption

\* The variables keep their types (the exit codes, counters and positions the
\* script can have).
LEMMA TypeInit == Init => TypeOK
  BY DEF Init, TypeOK, Modes, PCs, Locked

LEMMA TypeNext == TypeOK /\ [CrashNext]_vars => TypeOK'
<1> SUFFICES ASSUME TypeOK, [CrashNext]_vars PROVE TypeOK'
  OBVIOUS
<1> USE DEF TypeOK, PCs, Locked, file, shell, bounds
<1>1. ASSUME NEW p \in Procs, NEW m \in Modes, Invoke(p, m) PROVE TypeOK'
  BY <1>1 DEF Invoke, Goto
<1>2. ASSUME NEW p \in Procs, Lock(p) PROVE TypeOK'
  BY <1>2 DEF Lock, Goto
<1>3. ASSUME NEW p \in Procs, Retry(p) PROVE TypeOK'
  <2>1. tries' \in [Procs -> 0..Retries]
    BY <1>3 DEF Retry
  <2> QED
    BY <1>3, <2>1 DEF Retry
<1>4. ASSUME NEW p \in Procs, GiveUp(p) PROVE TypeOK'
  BY <1>4 DEF GiveUp, Goto
<1>5. ASSUME NEW p \in Procs, ExitUnlocked(p) PROVE TypeOK'
  BY <1>5 DEF ExitUnlocked, Leave, Modes
<1>6. ASSUME NEW p \in Procs, SetTrap(p) PROVE TypeOK'
  BY <1>6 DEF SetTrap, Goto
<1>7. ASSUME NEW p \in Procs, Create(p) PROVE TypeOK'
  BY <1>7 DEF Create, Goto
<1>8. ASSUME NEW p \in Procs, ReadState(p) PROVE TypeOK'
  BY <1>8 DEF ReadState, Goto
<1>9. ASSUME NEW p \in Procs, ErrorAtZero(p) PROVE TypeOK'
  BY <1>9 DEF ErrorAtZero, Goto
<1>10. ASSUME NEW p \in Procs, ReadCur(p) PROVE TypeOK'
  BY <1>10 DEF ReadCur, Goto
<1>11. ASSUME NEW p \in Procs, Write(p) PROVE TypeOK'
  BY <1>11 DEF Write, Goto
<1>12. ASSUME NEW p \in Procs, ReadStateAgain(p) PROVE TypeOK'
  BY <1>12 DEF ReadStateAgain, Goto
<1>13. ASSUME NEW p \in Procs, Remove(p) PROVE TypeOK'
  BY <1>13 DEF Remove, Goto
<1>14. ASSUME NEW p \in Procs, EchoState(p) PROVE TypeOK'
  BY <1>14 DEF EchoState, Goto
<1>15. ASSUME NEW p \in Procs, Exit(p) PROVE TypeOK'
  BY <1>15 DEF Exit, Leave, Modes
<1>16. ASSUME NEW p \in Procs, Die(p) PROVE TypeOK'
  BY <1>16 DEF Die, Leave, Modes
<1>17. CASE UNCHANGED vars
  BY <1>17 DEF vars
<1> QED
  BY <1>1, <1>2, <1>3, <1>4, <1>5, <1>6, <1>7, <1>8, <1>9, <1>10, <1>11,
     <1>12, <1>13, <1>14, <1>15, <1>16, <1>17
     DEF CrashNext, Next, Work

\* Type correctness, whoever dies.
THEOREM TypeCorrect == CrashSpec => []TypeOK
<1>1. Init => TypeOK
  BY TypeInit
<1>2. TypeOK /\ [CrashNext]_vars => TypeOK'
  BY TypeNext
<1> QED
  BY <1>1, <1>2, PTL DEF CrashSpec
-----------------------------------------------------------------------------
LEMMA InvInit == Init => Inv
<1> SUFFICES ASSUME Init PROVE Inv
  OBVIOUS
<1> QED
  BY TypeInit DEF Init, Inv, LockInv, FileInv, Knows, OutcomeInv, Locked

\* Steps of a process that does not hold the lock file.
LEMMA InvUnlocked ==
  ASSUME Inv, NEW p \in Procs, TypeOK',
         \/ \E m \in Modes : Invoke(p, m)
         \/ Lock(p) \/ Retry(p) \/ GiveUp(p) \/ ExitUnlocked(p)
  PROVE  Inv'
<1> USE DEF Inv, TypeOK, LockInv, FileInv, Knows, OutcomeInv, PCs, Locked,
            Goto, Leave, file, shell, bounds
<1>1. ASSUME NEW m \in Modes, Invoke(p, m) PROVE Inv'
  BY <1>1 DEF Invoke
<1>2. CASE Lock(p)
  BY <1>2 DEF Lock
<1>3. CASE Retry(p)
  BY <1>3 DEF Retry
<1>4. CASE GiveUp(p)
  BY <1>4 DEF GiveUp
<1>5. CASE ExitUnlocked(p)
  BY <1>5 DEF ExitUnlocked
<1> QED
  BY <1>1, <1>2, <1>3, <1>4, <1>5

\* Steps of the process that holds it.
LEMMA InvLocked ==
  ASSUME Inv, NEW p \in Procs, TypeOK',
         \/ SetTrap(p) \/ Create(p) \/ ReadState(p) \/ ErrorAtZero(p)
         \/ ReadCur(p) \/ Write(p) \/ ReadStateAgain(p) \/ Remove(p)
         \/ EchoState(p) \/ Exit(p)
  PROVE  Inv'
<1> USE DEF Inv, TypeOK, LockInv, FileInv, Knows, OutcomeInv, PCs, Locked,
            Goto, Leave, file, shell, bounds, Modes
<1>1. CASE SetTrap(p)
  BY <1>1 DEF SetTrap
<1>2. CASE Create(p)
  BY <1>2 DEF Create
<1>3. CASE ReadState(p)
  BY <1>3 DEF ReadState
<1>4. CASE ErrorAtZero(p)
  BY <1>4 DEF ErrorAtZero
<1>5. CASE ReadCur(p)
  BY <1>5 DEF ReadCur
<1>6. CASE Write(p)
  BY <1>6 DEF Write
<1>7. CASE ReadStateAgain(p)
  BY <1>7 DEF ReadStateAgain
<1>8. CASE Remove(p)
  BY <1>8 DEF Remove
<1>9. CASE EchoState(p)
  BY <1>9 DEF EchoState
<1>10. CASE Exit(p)
  BY <1>10 DEF Exit
<1> QED
  BY <1>1, <1>2, <1>3, <1>4, <1>5, <1>6, <1>7, <1>8, <1>9, <1>10

\* A death: the lock file stays, and nobody knows the file any more.
LEMMA InvDie ==
  ASSUME Inv, NEW p \in Procs, TypeOK', Die(p)
  PROVE  Inv'
  BY DEF Inv, TypeOK, LockInv, FileInv, Knows, OutcomeInv, PCs, Locked, Leave,
         Die, file

LEMMA InvNext == Inv /\ [CrashNext]_vars => Inv'
<1> SUFFICES ASSUME Inv, [CrashNext]_vars PROVE Inv'
  OBVIOUS
<1>1. TypeOK'
  BY TypeNext DEF Inv
<1>2. CASE CrashNext
  BY <1>1, <1>2, InvUnlocked, InvLocked, InvDie DEF CrashNext, Next, Work
<1>3. CASE UNCHANGED vars
  BY <1>3 DEF vars, Inv, TypeOK, LockInv, FileInv, Knows, OutcomeInv
<1> QED
  BY <1>2, <1>3

LEMMA Invariance == CrashSpec => []Inv
<1> QED
  BY InvInit, InvNext, PTL DEF CrashSpec

\* Only one process at a time is between lockfile and the removal of the lock
\* file: the lock file names it.
THEOREM Exclusion == CrashSpec => []MutualExclusion
<1>1. Inv => MutualExclusion
  BY DEF Inv, LockInv, MutualExclusion
<1> QED
  BY <1>1, Invariance, PTL

\* Between calls the file exists exactly while the count is positive.
THEOREM FileLife == CrashSpec => []FileMeansInUse
<1>1. Inv => FileMeansInUse
  BY DEF Inv, TypeOK, FileInv, FileMeansInUse
<1> QED
  BY <1>1, Invariance, PTL

\* What decrement-test tested is still true when it writes.
THEOREM NoStaleWrite == CrashSpec => []WritesWhatItTested
<1>1. Inv => WritesWhatItTested
  BY DEF Inv, Knows, WritesWhatItTested
<1> QED
  BY <1>1, Invariance, PTL
\* What the lock file of a dead caller keeps out: no command of any process
\* removes it or writes the semaphore's file.
THEOREM OrphanForever == CrashSpec => OrphanLockIsForever
<1> DEFINE Kept == lock # Nobody /\ pc[lock] \notin Locked
                     => lock' = lock /\ content' = content
<1>1. ASSUME Inv, [CrashNext]_vars PROVE Kept
  <2> USE <1>1 DEF Inv, TypeOK, LockInv, Locked, Goto, Leave, file, shell, bounds
  <2>1. ASSUME NEW p \in Procs, Work(p) PROVE Kept
    BY <2>1 DEF Work, Lock, Retry, GiveUp, ExitUnlocked, SetTrap, Create, ReadState,
       ErrorAtZero, ReadCur, Write, ReadStateAgain, Remove, EchoState, Exit
  <2>2. ASSUME NEW p \in Procs, NEW m \in Modes, Invoke(p, m) PROVE Kept
    BY <2>2 DEF Invoke
  <2>3. ASSUME NEW p \in Procs, Die(p) PROVE Kept
    BY <2>3 DEF Die
  <2>4. CASE UNCHANGED vars
    BY <2>4 DEF vars
  <2> QED
    BY <2>1, <2>2, <2>3, <2>4 DEF CrashNext, Next
<1> QED
  BY <1>1, Invariance, PTL DEF CrashSpec, OrphanLockIsForever
-----------------------------------------------------------------------------
(* Refinement.  A step of p leaves what the callers of other processes see *)
(* alone, so each step is decided by what it does to p's own call.         *)

LEMMA OthersUnseen ==
  ASSUME Inv, Inv', NEW p \in Procs, NEW q \in Procs, q # p,
         pc'[q] = pc[q], mode'[q] = mode[q], State'[q] = State[q],
         outcome'[q] = outcome[q],
         pc[p] \in Locked \/ content' = content
  PROVE  CallOf(q)' = CallOf(q) /\ PrintedOf(q)' = PrintedOf(q)
  BY DEF Inv, TypeOK, LockInv, Locked, CallOf, PrintedOf

\* What the callers see changes only for p.
LEMMA Seen ==
  ASSUME Inv, Inv', NEW p \in Procs, NEW c, NEW s,
         \A q \in Procs \ {p} :
            CallOf(q)' = CallOf(q) /\ PrintedOf(q)' = PrintedOf(q),
         CallOf(p)' = c, PrintedOf(p)' = s
  PROVE  /\ [q \in Procs |-> CallOf(q)]'
              = [[q \in Procs |-> CallOf(q)] EXCEPT ![p] = c]
         /\ [q \in Procs |-> PrintedOf(q)]'
              = [[q \in Procs |-> PrintedOf(q)] EXCEPT ![p] = s]
  OBVIOUS

LEMMA AtomicInit == Init => Atomic!Init
  BY DEF Init, Atomic!Init, CallOf, PrintedOf

\* A step that changes nothing a caller sees.
LEMMA Unseen ==
  ASSUME Inv, Inv', NEW p \in Procs, content' = content,
         \A q \in Procs \ {p} :
            CallOf(q)' = CallOf(q) /\ PrintedOf(q)' = PrintedOf(q),
         CallOf(p)' = CallOf(p), PrintedOf(p)' = PrintedOf(p)
  PROVE  UNCHANGED Atomic!vars
  BY DEF Atomic!vars

\* A refusal and a return, as the callers see them.
LEMMA SeenRefuse ==
  ASSUME NEW p \in Procs, content' = content,
         \A q \in Procs \ {p} :
            CallOf(q)' = CallOf(q) /\ PrintedOf(q)' = PrintedOf(q),
         CallOf(p) \in Modes, CallOf(p)' = "refused",
         PrintedOf(p)' = PrintedOf(p)
  PROVE  Atomic!Refuse(p)
  BY DEF Atomic!Refuse, Atomic!Modes, Modes

LEMMA SeenReturn ==
  ASSUME NEW p \in Procs, content' = content,
         \A q \in Procs \ {p} :
            CallOf(q)' = CallOf(q) /\ PrintedOf(q)' = PrintedOf(q),
         CallOf(p) \in {"answered", "refused"}, CallOf(p)' = "none",
         PrintedOf(p)' = 0
  PROVE  Atomic!Return(p)
  BY DEF Atomic!Return

LEMMA AtomicUnlocked ==
  ASSUME Inv, Inv', NEW p \in Procs,
         \/ \E m \in Modes : Invoke(p, m)
         \/ Lock(p) \/ Retry(p) \/ GiveUp(p) \/ ExitUnlocked(p)
  PROVE  [Atomic!Next]_(Atomic!vars)
<1> USE DEF Inv, TypeOK, Goto, Leave, file, shell, bounds
<1> DEFINE Others == \A q \in Procs \ {p} :
                       CallOf(q)' = CallOf(q) /\ PrintedOf(q)' = PrintedOf(q)
<1>1. ASSUME NEW m \in Modes, Invoke(p, m) PROVE Atomic!Invoke(p, m)
  <2>1. Others
    BY <1>1, OthersUnseen DEF Invoke
  <2>2. CallOf(p) = "none" /\ CallOf(p)' = m /\ PrintedOf(p)' = PrintedOf(p)
    BY <1>1 DEF Invoke, CallOf, PrintedOf, OutcomeInv, Modes
  <2> QED
    BY <1>1, <2>1, <2>2, Seen DEF Invoke, Atomic!Invoke
<1>2. CASE Lock(p)
  <2>1. Others
    BY <1>2, OthersUnseen DEF Lock
  <2>2. CallOf(p)' = CallOf(p) /\ PrintedOf(p)' = PrintedOf(p)
    BY <1>2 DEF Lock, CallOf, PrintedOf, OutcomeInv, Modes
  <2> QED
    BY <1>2, <2>1, <2>2, Unseen DEF Lock
<1>3. CASE Retry(p)
  <2>1. Others
    BY <1>3, OthersUnseen DEF Retry
  <2>2. CallOf(p)' = CallOf(p) /\ PrintedOf(p)' = PrintedOf(p)
    BY <1>3 DEF Retry, CallOf, PrintedOf
  <2> QED
    BY <1>3, <2>1, <2>2, Unseen DEF Retry
<1>4. CASE GiveUp(p)
  <2>1. Others
    BY <1>4, OthersUnseen DEF GiveUp
  <2>2. /\ CallOf(p) \in Modes /\ CallOf(p)' = "refused"
        /\ PrintedOf(p)' = PrintedOf(p) /\ content' = content
    BY <1>4 DEF GiveUp, CallOf, PrintedOf, OutcomeInv, Modes
  <2>3. Atomic!Refuse(p)
    BY <2>1, <2>2, SeenRefuse
  <2> QED
    BY <2>3 DEF Atomic!Next
<1>5. CASE ExitUnlocked(p)
  <2>1. Others
    BY <1>5, OthersUnseen DEF ExitUnlocked
  <2>2. /\ CallOf(p) = "refused" /\ CallOf(p)' = "none"
        /\ PrintedOf(p)' = 0 /\ content' = content
    BY <1>5 DEF ExitUnlocked, CallOf, PrintedOf, OutcomeInv
  <2>3. Atomic!Return(p)
    BY <2>1, <2>2, SeenReturn
  <2> QED
    BY <2>3 DEF Atomic!Next
<1> QED
  BY <1>1, <1>2, <1>3, <1>4, <1>5 DEF Atomic!Next, Atomic!Modes, Modes

LEMMA AtomicEffect ==
  ASSUME Inv, Inv', NEW p \in Procs,
         ErrorAtZero(p) \/ Write(p) \/ Exit(p)
  PROVE  Atomic!Next
<1> USE DEF Inv, TypeOK, Goto, Leave, file, shell, bounds
<1> DEFINE Others == \A q \in Procs \ {p} :
                       CallOf(q)' = CallOf(q) /\ PrintedOf(q)' = PrintedOf(q)
<1>1. CASE ErrorAtZero(p)
  <2>1. Others
    BY <1>1, OthersUnseen DEF ErrorAtZero, Locked
  <2>2. /\ CallOf(p) \in Modes /\ CallOf(p)' = "refused"
        /\ PrintedOf(p)' = PrintedOf(p) /\ content' = content
    BY <1>1 DEF ErrorAtZero, CallOf, PrintedOf, OutcomeInv, Modes, Knows
  <2>3. Atomic!Refuse(p)
    BY <2>1, <2>2, SeenRefuse
  <2> QED
    BY <2>3 DEF Atomic!Next
<1>2. CASE Write(p)
  <2>1. Others
    BY <1>2, OthersUnseen DEF Write, Locked
  <2>2. CallOf(p) = mode[p] /\ CallOf(p)' = "answered" /\ Cur[p] = content
    BY <1>2 DEF Write, CallOf, OutcomeInv, Modes, Knows
  <2>3. CASE mode[p] = "test-increment"
    <3>1. PrintedOf(p)' = content /\ content' = content + 1
      BY <1>2, <2>2, <2>3 DEF Write, PrintedOf, Knows
    <3>2. Atomic!TestIncrement(p)
      BY <2>1, <2>2, <2>3, <3>1, Seen DEF Atomic!TestIncrement
    <3> QED
      BY <3>2 DEF Atomic!Next
  <2>4. CASE mode[p] = "decrement-test"
    <3>1. PrintedOf(p)' = content - 1 /\ content' = content - 1 /\ content > 0
      BY <1>2, <2>2, <2>4 DEF Write, PrintedOf, Knows
    <3>2. Atomic!DecrementTest(p)
      BY <2>1, <2>2, <2>4, <3>1, Seen DEF Atomic!DecrementTest
    <3> QED
      BY <3>2 DEF Atomic!Next
  <2> QED
    BY <2>3, <2>4 DEF Modes
<1>3. CASE Exit(p)
  <2>1. Others
    BY <1>3, OthersUnseen DEF Exit
  <2>2. /\ CallOf(p) \in {"answered", "refused"}
        /\ CallOf(p)' = "none" /\ PrintedOf(p)' = 0 /\ content' = content
    BY <1>3 DEF Exit, CallOf, PrintedOf, OutcomeInv
  <2>3. Atomic!Return(p)
    BY <2>1, <2>2, SeenReturn
  <2> QED
    BY <2>3 DEF Atomic!Next
<1> QED
  BY <1>1, <1>2, <1>3

LEMMA AtomicStutter ==
  ASSUME Inv, Inv', NEW p \in Procs,
         \/ SetTrap(p) \/ Create(p) \/ ReadState(p) \/ ReadCur(p)
         \/ ReadStateAgain(p) \/ Remove(p) \/ EchoState(p)
  PROVE  UNCHANGED Atomic!vars
<1> USE DEF Inv, TypeOK, Goto, file, shell, bounds, SetTrap, Create, ReadState,
            ReadCur, ReadStateAgain, Remove, EchoState
<1>1. content' = content
  BY DEF Knows
<1>2. \A q \in Procs \ {p} : CallOf(q)' = CallOf(q) /\ PrintedOf(q)' = PrintedOf(q)
  BY <1>1, OthersUnseen
<1>3. CallOf(p)' = CallOf(p)
  BY DEF CallOf, OutcomeInv, Modes
<1>4. PrintedOf(p)' = PrintedOf(p)
  BY <1>1, <1>3 DEF PrintedOf, Knows, CallOf, OutcomeInv, Modes
<1> QED
  BY <1>1, <1>2, <1>3, <1>4, Unseen

\* A caller that dies abandons its call.
LEMMA AtomicDie ==
  ASSUME Inv, Inv', NEW p \in Procs, Die(p)
  PROVE  [Atomic!Next]_(Atomic!vars)
<1> USE DEF Inv, TypeOK, Die, Leave, file
<1>1. /\ content' = content
      /\ \A q \in Procs \ {p} : CallOf(q)' = CallOf(q) /\ PrintedOf(q)' = PrintedOf(q)
  BY OthersUnseen
<1>2. CallOf(p) # "none" /\ CallOf(p)' = "none" /\ PrintedOf(p)' = 0
  BY DEF CallOf, PrintedOf, Modes
<1>3. Atomic!Abandon(p)
  BY <1>1, <1>2, ZenonT(60) DEF Atomic!Abandon
<1> QED
  BY <1>3 DEF Atomic!Next

LEMMA AtomicNext ==
  ASSUME Inv, Inv', [CrashNext]_vars
  PROVE  [Atomic!Next]_(Atomic!vars)
<1>1. ASSUME NEW p \in Procs, Work(p) PROVE [Atomic!Next]_(Atomic!vars)
  BY <1>1, AtomicUnlocked, AtomicEffect, AtomicStutter DEF Work
<1>2. ASSUME NEW p \in Procs, NEW m \in Modes, Invoke(p, m)
      PROVE [Atomic!Next]_(Atomic!vars)
  BY <1>2, AtomicUnlocked
<1>3. ASSUME NEW p \in Procs, Die(p) PROVE [Atomic!Next]_(Atomic!vars)
  BY <1>3, AtomicDie
<1>4. CASE UNCHANGED vars
  BY <1>4 DEF vars, Atomic!vars, CallOf, PrintedOf
<1> QED
  BY <1>1, <1>2, <1>3, <1>4 DEF CrashNext, Next

\* The script implements the atomic counting semaphore its header promises.
THEOREM Refinement == CrashSpec => AtomicSpec
<1>1. Init => Atomic!Init
  BY AtomicInit
<1>2. Inv /\ Inv' /\ [CrashNext]_vars => [Atomic!Next]_(Atomic!vars)
  BY AtomicNext
<1> QED
  BY <1>1, <1>2, Invariance, PTL DEF CrashSpec, AtomicSpec, Atomic!Spec
=============================================================================
