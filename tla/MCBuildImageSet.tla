-------------------------- MODULE MCBuildImageSet --------------------------
(* Instances of BuildImageSet for TLC. *)
EXTENDS BuildImageSet, TLC

CONSTANTS b1, b2, b3, daily, live

TwoBuilders == {b1, b2}
ThreeBuilders == {b1, b2, b3}
OneSet == {daily}
BothSets == {daily, live}

\* b1 and b2 build the same image set, b3 another one.
SharedAndOther == (b1 :> daily) @@ (b2 :> daily) @@ (b3 :> live)
Shared2 == (b1 :> daily) @@ (b2 :> daily)
Apart == (b1 :> daily) @@ (b2 :> live)
Third == {b3}
Nowhere == {}

NoFaults == {}
SignalFaults == {"signal"}
AllFaults == FaultKinds
=============================================================================
