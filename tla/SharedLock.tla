---------------------------- MODULE SharedLock ----------------------------
(***************************************************************************)
(* What the counting semaphore gives the image builds (bin/semaphore,      *)
(* lines 5-8): "a shared lock which only opens when all users have         *)
(* unlocked".  Whoever joins while nobody else uses the lock is told so    *)
(* (SEM_STATE = 0 in bin/build-image-set) and is the one that may change   *)
(* what the users share: the local mirror of the archive.                  *)
(***************************************************************************)
CONSTANT Users      \* processes that may join

VARIABLES
    joined,         \* those that have joined and not left
    opener          \* those of them that were told nobody else was in

vars == <<joined, opener>>

Init ==
    /\ joined = {}
    /\ opener = {}

Join(u) ==
    /\ u \notin joined
    /\ joined' = joined \cup {u}
    /\ opener' = IF joined = {} THEN {u} ELSE opener

Leave(u) ==
    /\ u \in joined
    /\ joined' = joined \ {u}
    /\ opener' = opener \ {u}

Next == \E u \in Users : Join(u) \/ Leave(u)

Spec == Init /\ [][Next]_vars
=============================================================================
