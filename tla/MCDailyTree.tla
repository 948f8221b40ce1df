----------------------------- MODULE MCDailyTree -----------------------------
(* Instances of DailyTree for TLC. *)
EXTENDS DailyTree, TLC

CONSTANTS s1, s2

Two == {s1, s2}

\* etc/purge-days: "daily 1", and an image set that is not purged.
DailyBoth == (s1 :> 1) @@ (s2 :> 0)

\* Build IDs on the first, the second and the third day.
Busy == (s1 :> <<2, 1, 2>>) @@ (s2 :> <<0, 1, 0>>)
=============================================================================
