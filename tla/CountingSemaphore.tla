------------------------- MODULE CountingSemaphore -------------------------
(***************************************************************************)
(* What bin/semaphore promises its callers (its header comment, lines      *)
(* 4-12): a counting semaphore whose two operations are atomic.            *)
(*                                                                         *)
(*   test-increment   returns the value and adds one                       *)
(*   decrement-test   subtracts one and returns the new value; calling it  *)
(*                    at zero is an error                                  *)
(*                                                                         *)
(* A call is invoked, takes effect once (or is refused) and then returns   *)
(* its answer, unless its process dies.  Semaphore.tla is the script       *)
(* itself, which reaches the same effect through a lock file and several   *)
(* reads and writes of the semaphore's file.                               *)
(***************************************************************************)
EXTENDS Naturals

CONSTANT Procs      \* processes that call the semaphore

VARIABLES
    value,      \* the semaphore
    call,       \* call[p]: the operation p is running, or how it ended
    printed     \* printed[p]: the state an answered call prints on stdout

vars == <<value, call, printed>>

Modes == {"test-increment", "decrement-test"}

TypeOK ==
    /\ value \in Nat
    /\ call \in [Procs -> Modes \cup {"none", "answered", "refused"}]
    /\ printed \in [Procs -> Nat]

Init ==
    /\ value = 0
    /\ call = [p \in Procs |-> "none"]
    /\ printed = [p \in Procs |-> 0]

Invoke(p, mode) ==
    /\ call[p] = "none"
    /\ call' = [call EXCEPT ![p] = mode]
    /\ UNCHANGED <<value, printed>>

TestIncrement(p) ==
    /\ call[p] = "test-increment"
    /\ value' = value + 1
    /\ printed' = [printed EXCEPT ![p] = value]
    /\ call' = [call EXCEPT ![p] = "answered"]

DecrementTest(p) ==
    /\ call[p] = "decrement-test"
    /\ value > 0
    /\ value' = value - 1
    /\ printed' = [printed EXCEPT ![p] = value - 1]
    /\ call' = [call EXCEPT ![p] = "answered"]

\* A call may always be refused, without effect, because the lock is not
\* obtained; a decrement-test at zero is refused for certain.
Refuse(p) ==
    /\ call[p] \in Modes
    /\ call' = [call EXCEPT ![p] = "refused"]
    /\ UNCHANGED <<value, printed>>

Return(p) ==
    /\ call[p] \in {"answered", "refused"}
    /\ call' = [call EXCEPT ![p] = "none"]
    /\ printed' = [printed EXCEPT ![p] = 0]
    /\ UNCHANGED value

\* A caller may die at any point of its call.
Abandon(p) ==
    /\ call[p] # "none"
    /\ call' = [call EXCEPT ![p] = "none"]
    /\ printed' = [printed EXCEPT ![p] = 0]
    /\ UNCHANGED value

Next ==
    \E p \in Procs :
        \/ \E mode \in Modes : Invoke(p, mode)
        \/ TestIncrement(p)
        \/ DecrementTest(p)
        \/ Refuse(p)
        \/ Return(p)
        \/ Abandon(p)

Spec == Init /\ [][Next]_vars
=============================================================================
