----------------------------- MODULE Semaphore -----------------------------
(***************************************************************************)
(* bin/semaphore, one command of the script per action.  Processes call it *)
(* at any time and in any order (build-image-set, lines 54-60, calls       *)
(* test-increment once and decrement-test from its cleanup stack).         *)
(*                                                                         *)
(* The semaphore is a file; an absent file stands for zero (lines 29-31    *)
(* create it).  The file is protected by a lock file obtained with         *)
(* "lockfile -r 4" and removed by the trap of line 27.  State and Cur are  *)
(* its shell variables.  outcome is what its caller would see if it ended  *)
(* now: "blank" is exit status 0 with nothing on stdout, "ok" is status 0  *)
(* with State on stdout, "error" is status 1.                              *)
(*                                                                         *)
(* CrashSpec is the script whose callers may be killed outright at any     *)
(* command (SIGKILL, a reboot, or a signal before the trap is set).        *)
(* SignalSpec adds the signals that the trap catches.                      *)
(***************************************************************************)
EXTENDS Integers

CONSTANTS
    Procs,      \* processes that call the script
    Nobody,     \* no process: the lock file does not exist
    Retries,    \* the -r of lockfile: 4 in the script
    MaxCalls,   \* bound of the model: calls in one behaviour
    MaxFaults   \* bound of the model: kills or signals in one behaviour

ASSUME NobodyAssumption == Nobody \notin Procs
ASSUME RetriesAssumption == Retries \in Nat
ASSUME BoundsAssumption == MaxCalls \in Nat /\ MaxFaults \in Nat

VARIABLES
    disk,       \* is the semaphore file "present" or "absent"?
    content,    \* the number in it (0 when it does not exist)
    lock,       \* who created the lock file, or Nobody
    mode,       \* mode[p]: MODE, the operation p runs
    pc,         \* pc[p]: the command p runs next
    tries,      \* tries[p]: failed attempts of p's lockfile
    State,      \* State[p]
    Cur,        \* Cur[p]
    outcome,    \* outcome[p]: what p's caller would see
    calls,      \* calls so far
    faults      \* kills or signals so far

vars == <<disk, content, lock, mode, pc, tries, State, Cur, outcome,
          calls, faults>>

file  == <<disk, content>>
bounds == <<calls, faults>>
shell == <<mode, tries, State, Cur, outcome>>

Modes == {"test-increment", "decrement-test"}

\* Commands the script runs while it holds the lock file.
Locked == {"trap", "create", "state", "zero", "cur", "write", "restate",
           "remove", "echo", "exit"}

PCs == {"idle", "lockfile", "failed", "sigtrap", "exittrap"} \cup Locked

TypeOK ==
    /\ disk \in {"present", "absent"}
    /\ content \in Int
    /\ lock \in Procs \cup {Nobody}
    /\ mode \in [Procs -> Modes]
    /\ pc \in [Procs -> PCs]
    /\ tries \in [Procs -> 0..Retries]
    /\ State \in [Procs -> Int]
    /\ Cur \in [Procs -> Int]
    /\ outcome \in [Procs -> {"blank", "ok", "error"}]
    /\ calls \in 0..MaxCalls
    /\ faults \in 0..MaxFaults

Init ==
    /\ disk = "absent"
    /\ content = 0
    /\ lock = Nobody
    /\ mode = [p \in Procs |-> "test-increment"]
    /\ pc = [p \in Procs |-> "idle"]
    /\ tries = [p \in Procs |-> 0]
    /\ State = [p \in Procs |-> 0]
    /\ Cur = [p \in Procs |-> 0]
    /\ outcome = [p \in Procs |-> "blank"]
    /\ calls = 0
    /\ faults = 0

Goto(p, from, to) ==
    /\ pc[p] = from
    /\ pc' = [pc EXCEPT ![p] = to]

\* The process is gone, and its shell variables with it.
Leave(p) ==
    /\ pc' = [pc EXCEPT ![p] = "idle"]
    /\ mode' = [mode EXCEPT ![p] = "test-increment"]
    /\ tries' = [tries EXCEPT ![p] = 0]
    /\ State' = [State EXCEPT ![p] = 0]
    /\ Cur' = [Cur EXCEPT ![p] = 0]
    /\ outcome' = [outcome EXCEPT ![p] = "blank"]
-----------------------------------------------------------------------------
Invoke(p, m) ==
    /\ calls < MaxCalls
    /\ calls' = calls + 1
    /\ Goto(p, "idle", "lockfile")
    /\ mode' = [mode EXCEPT ![p] = m]
    /\ UNCHANGED <<file, lock, tries, State, Cur, outcome, faults>>

\* Mutant: the lock file is created without O_EXCL.
LockShared(p) ==
    /\ Goto(p, "lockfile", "trap")
    /\ lock' = p
    /\ UNCHANGED <<file, shell, bounds>>

\* Mutant: lockfile is given an -l and breaks the lock of a dead process.
LockBroken(p) ==
    /\ Goto(p, "lockfile", "trap")
    /\ lock # Nobody => pc[lock] = "idle"
    /\ lock' = p
    /\ UNCHANGED <<file, shell, bounds>>

\* lockfile creates the lock file, exclusively.
Lock(p) ==
    /\ Goto(p, "lockfile", "trap")
    /\ lock = Nobody
    /\ lock' = p
    /\ UNCHANGED <<file, shell, bounds>>

\* Mutant: -r -1, retry for ever.
RetryForEver(p) ==
    /\ pc[p] = "lockfile"
    /\ lock # Nobody
    /\ UNCHANGED vars

\* The lock file exists: lockfile sleeps and tries again,
Retry(p) ==
    /\ pc[p] = "lockfile"
    /\ lock # Nobody
    /\ tries[p] < Retries
    /\ tries' = [tries EXCEPT ![p] = @ + 1]
    /\ UNCHANGED <<file, lock, pc, mode, State, Cur, outcome, bounds>>

\* or gives up, and the script exits 1 before its trap is set.
GiveUp(p) ==
    /\ Goto(p, "lockfile", "failed")
    /\ lock # Nobody
    /\ tries[p] = Retries
    /\ outcome' = [outcome EXCEPT ![p] = "error"]
    /\ UNCHANGED <<file, lock, mode, tries, State, Cur, bounds>>

ExitUnlocked(p) ==
    /\ pc[p] = "failed"
    /\ Leave(p)
    /\ UNCHANGED <<file, lock, bounds>>

SetTrap(p) ==
    /\ Goto(p, "trap", "create")
    /\ UNCHANGED <<file, lock, shell, bounds>>

Create(p) ==
    /\ Goto(p, "create", "state")
    /\ disk' = "present"
    /\ UNCHANGED <<content, lock, shell, bounds>>

\* STATE="$(cat "$SEMAPHORE")", and for decrement-test the test for zero.
ReadState(p) ==
    /\ disk = "present"
    /\ State' = [State EXCEPT ![p] = content]
    /\ \/ /\ mode[p] = "decrement-test" /\ content = 0
          /\ Goto(p, "state", "zero")
       \/ /\ mode[p] = "decrement-test" => content # 0
          /\ Goto(p, "state", "cur")
    /\ UNCHANGED <<file, lock, mode, tries, Cur, outcome, bounds>>

\* The error branch of decrement-test removes the file and exits 1.
ErrorAtZero(p) ==
    /\ Goto(p, "zero", "exit")
    /\ disk' = "absent"
    /\ content' = 0
    /\ outcome' = [outcome EXCEPT ![p] = "error"]
    /\ UNCHANGED <<lock, mode, tries, State, Cur, bounds>>

\* add reads the file once more,
ReadCur(p) ==
    /\ disk = "present"
    /\ Goto(p, "cur", "write")
    /\ Cur' = [Cur EXCEPT ![p] = content]
    /\ UNCHANGED <<file, lock, mode, tries, State, outcome, bounds>>

\* Mutant: decrement-test does not read the file again before it answers.
WriteAndEcho(p) ==
    /\ disk' = "present"
    /\ Goto(p, "write", "echo")
    /\ content' = IF mode[p] = "test-increment" THEN Cur[p] + 1 ELSE Cur[p] - 1
    /\ UNCHANGED <<lock, shell, bounds>>

\* and writes it.
Write(p) ==
    /\ disk' = "present"
    /\ \/ /\ mode[p] = "test-increment"
          /\ Goto(p, "write", "echo")
          /\ content' = Cur[p] + 1
       \/ /\ mode[p] = "decrement-test"
          /\ Goto(p, "write", "restate")
          /\ content' = Cur[p] - 1
    /\ UNCHANGED <<lock, shell, bounds>>

ReadStateAgain(p) ==
    /\ disk = "present"
    /\ State' = [State EXCEPT ![p] = content]
    /\ \/ content = 0 /\ Goto(p, "restate", "remove")
       \/ content # 0 /\ Goto(p, "restate", "echo")
    /\ UNCHANGED <<file, lock, mode, tries, Cur, outcome, bounds>>

\* Mutant: the file is left behind at zero.
RemoveNothing(p) ==
    /\ Goto(p, "remove", "echo")
    /\ UNCHANGED <<file, lock, shell, bounds>>

Remove(p) ==
    /\ Goto(p, "remove", "echo")
    /\ disk' = "absent"
    /\ content' = 0
    /\ UNCHANGED <<lock, shell, bounds>>

EchoState(p) ==
    /\ Goto(p, "echo", "exit")
    /\ outcome' = [outcome EXCEPT ![p] = "ok"]
    /\ UNCHANGED <<file, lock, mode, tries, State, Cur, bounds>>

\* The trap on EXIT removes the lock file, whoever created it.
Exit(p) ==
    /\ pc[p] = "exit"
    /\ lock' = Nobody
    /\ Leave(p)
    /\ UNCHANGED <<file, bounds>>

Work(p) ==
    \/ Lock(p) \/ Retry(p) \/ GiveUp(p) \/ ExitUnlocked(p)
    \/ SetTrap(p) \/ Create(p)
    \/ ReadState(p) \/ ErrorAtZero(p) \/ ReadCur(p) \/ Write(p)
    \/ ReadStateAgain(p) \/ Remove(p)
    \/ EchoState(p) \/ Exit(p)

Next == \E p \in Procs : Work(p) \/ \E m \in Modes : Invoke(p, m)

\* The caller waits for the script, which runs until it ends.
Fairness == \A p \in Procs : WF_vars(Work(p))

-----------------------------------------------------------------------------
(* Faults. *)

\* The process dies where it stands; no trap runs.
Die(p) ==
    /\ pc[p] # "idle"
    /\ faults < MaxFaults
    /\ faults' = faults + 1
    /\ Leave(p)
    /\ UNCHANGED <<file, lock, calls>>

CrashNext == Next \/ \E p \in Procs : Die(p)

CrashSpec == Init /\ [][CrashNext]_vars /\ Fairness

\* HUP, INT, QUIT or TERM: after the running command the trap takes over.
Signal(p) ==
    /\ pc[p] \in Locked \ {"trap"}
    /\ faults < MaxFaults
    /\ faults' = faults + 1
    /\ pc' = [pc EXCEPT ![p] = "sigtrap"]
    /\ UNCHANGED <<file, lock, shell, calls>>

\* The signal's trap removes the lock file; its "exit" runs the trap again,
SignalTrap(p) ==
    /\ Goto(p, "sigtrap", "exittrap")
    /\ lock' = Nobody
    /\ UNCHANGED <<file, shell, bounds>>

\* for EXIT, which removes the lock file a second time.
ExitTrap(p) ==
    /\ pc[p] = "exittrap"
    /\ lock' = Nobody
    /\ Leave(p)
    /\ UNCHANGED <<file, bounds>>

\* Under "set -e" a cat of a file that is not there ends the script: only a
\* process whose lock file such a trap has removed finds it gone.
ReadFails(p) ==
    /\ disk = "absent"
    /\ \E from \in {"state", "cur", "restate"} : Goto(p, from, "exit")
    /\ outcome' = [outcome EXCEPT ![p] = "error"]
    /\ UNCHANGED <<file, lock, mode, tries, State, Cur, bounds>>

Trapped(p) == SignalTrap(p) \/ ExitTrap(p) \/ ReadFails(p)

SignalSpec ==
    /\ Init
    /\ [][Next \/ \E p \in Procs : Signal(p) \/ Trapped(p)]_vars
    /\ \A p \in Procs : WF_vars(Work(p) \/ Trapped(p))
-----------------------------------------------------------------------------
(* Properties. *)

\* At most one process is between its lockfile and the removal of the lock
\* file, so no two of them read and write the semaphore's file at once.
MutualExclusion ==
    \A p, q \in Procs : pc[p] \in Locked /\ pc[q] \in Locked => p = q

\* Between calls the semaphore's file exists exactly while the count is
\* positive: the last decrement-test removes it and an error leaves none.
FileMeansInUse ==
    lock = Nobody => content >= 0 /\ (disk = "present" <=> content > 0)

\* What a call found on disk cannot change under it: at the moment it writes,
\* State and Cur still are the number in the file, and it is not about to
\* write a negative one (lines 34-51 read the file three times).
WritesWhatItTested ==
    \A p \in Procs :
        pc[p] = "write" =>
            /\ disk = "present" /\ Cur[p] = content /\ State[p] = content
            /\ mode[p] = "decrement-test" => content > 0

\* Every call ends, granted or refused: no caller hangs on the lock file,
\* even when the process that holds it has died.
EveryCallEnds == \A p \in Procs : pc[p] # "idle" ~> pc[p] = "idle"

\* Nobody breaks the lock of a dead process (line 23 gives lockfile no -l):
\* once its creator is gone the lock file stays, and every call is refused.
OrphanLockIsForever ==
    [][ lock # Nobody /\ pc[lock] \notin Locked
          => lock' = lock /\ content' = content ]_vars
-----------------------------------------------------------------------------
(* Refinement: the script implements an atomic counting semaphore.  A call *)
(* takes effect when it writes the file, or is refused when it gives up on *)
(* the lock or removes the file at zero.                                   *)

CallOf(p) ==
    IF pc[p] = "idle" THEN "none"
    ELSE IF outcome[p] = "error" THEN "refused"
    ELSE IF pc[p] \in {"restate", "remove", "echo", "exit"} THEN "answered"
    ELSE mode[p]

PrintedOf(p) ==
    IF CallOf(p) # "answered" THEN 0
    ELSE IF pc[p] = "restate" THEN content
    ELSE State[p]

Atomic == INSTANCE CountingSemaphore WITH
    value <- content,
    call <- [p \in Procs |-> CallOf(p)],
    printed <- [p \in Procs |-> PrintedOf(p)]

AtomicSpec == Atomic!Spec
=============================================================================
