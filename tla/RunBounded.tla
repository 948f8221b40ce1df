------------------------------ MODULE RunBounded ------------------------------
(* run_bounded(seconds, command) of lib/cdimage/osextras.py: a control process *)
(* is forked, which starts the command in a process group of its own, sets an  *)
(* alarm and then does nothing but pause().  What the control process does, it *)
(* does in Python signal handlers.  The interpreter runs those between two     *)
(* bytecodes, in the order of the signals' numbers (ALRM before CHLD), and not *)
(* inside pause(): a signal that comes after the last look at the pending ones *)
(* and before the system call does not wake it up.                             *)
EXTENDS Naturals

VARIABLES
    control,  \* the control process: where it is
    child,    \* the command's process
    pending,  \* signals the control process has got and not handled yet
    alarm     \* the control process's alarm(2)

boundedVars == <<control, child, pending, alarm>>

Idle == control = "none" /\ child = "none" /\ pending = {} /\ alarm = "unset"

(* A signal wakes the control process up if it is inside pause().              *)
Wakes == IF control = "paused" THEN "looping" ELSE control

Fork ==
    /\ control = "none"
    /\ control' = "forked"
    /\ UNCHANGED <<child, pending, alarm>>

(* The SIGCHLD handler is in place before the command is started.              *)
Spawn ==
    /\ control = "forked"
    /\ control' = "spawned"
    /\ child' = "running"
    /\ UNCHANGED <<pending, alarm>>

(* Between two bytecodes: pending signals are handled before anything else.    *)
SetAlarm ==
    /\ control = "spawned" /\ pending = {}
    /\ control' = "looping"
    /\ alarm' = "armed"
    /\ UNCHANGED <<child, pending>>

CallPause ==
    /\ control = "looping" /\ pending = {}
    /\ control' = "pausing"
    /\ UNCHANGED <<child, pending, alarm>>

Sleep ==
    /\ control = "pausing"
    /\ control' = "paused"
    /\ UNCHANGED <<child, pending, alarm>>

(* The command ends by itself, or because of SIGTERM.                          *)
ChildEnds ==
    /\ child \in {"running", "terminated"}
    /\ child' = "zombie"
    /\ pending' = pending \cup {"CHLD"}
    /\ control' = Wakes
    /\ UNCHANGED alarm

(* The alarm takes so long that the control process is inside pause() by then. *)
AlarmRings ==
    /\ alarm = "armed" /\ control = "paused"
    /\ alarm' = "spent"
    /\ pending' = pending \cup {"ALRM"}
    /\ control' = Wakes
    /\ UNCHANGED child

(* sigalrm_handler: SIGTERM to the command's process group.                    *)
KillGroup ==
    /\ control = "looping" /\ "ALRM" \in pending
    /\ pending' = pending \ {"ALRM"}
    /\ child' = IF child = "running" THEN "terminated" ELSE child
    /\ UNCHANGED <<control, alarm>>

\* Mutant: sigchld_handler returns to the loop instead of _exit.
ReapAndStay ==
    /\ control \in {"spawned", "looping"} /\ pending = {"CHLD"}
    /\ pending' = {}
    /\ child' = "reaped"
    /\ UNCHANGED <<control, alarm>>

(* sigchld_handler: waitpid, then _exit.                                       *)
ReapAndExit ==
    /\ control \in {"spawned", "looping"} /\ pending = {"CHLD"}
    /\ pending' = {}
    /\ child' = "reaped"
    /\ control' = "gone"
    /\ UNCHANGED alarm

(* waitpid_retry(control_pid): the caller goes on, whatever the status was.    *)
Return ==
    /\ control = "gone"
    /\ control' = "none" /\ child' = "none" /\ alarm' = "unset"
    /\ UNCHANGED pending

(* The SIGCHLD that would end pause() came just before it, and the alarm is    *)
(* used up.                                                                    *)
LostWakeup == control = "paused" /\ pending # {} /\ alarm = "spent"

-----------------------------------------------------------------------------
(* The group that gets SIGTERM is still the command's: its leader has not been *)
(* waited for, so nobody else can have its number (osextras.py:112-117).       *)
KillsOnlyItsOwn ==
    [][ "ALRM" \in pending /\ "ALRM" \notin pending' /\ control # "gone"
            => child \in {"running", "terminated", "zombie"} ]_boundedVars
=============================================================================
