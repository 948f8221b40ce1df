--------------------------- MODULE MCPublishRelease ---------------------------
(* Instances of PublishRelease for TLC.                                        *)
EXTENDS PublishRelease

MCArchesOf(type) ==
    CASE type = "desktop" -> {"amd64", "i386"} [] type = "alternate" -> {"amd64"} [] OTHER -> {"1"}

MCRequests ==
    {<<"desktop", <<"amd64", "i386">>>>, <<"desktop", <<"amd64">>>>,
     <<"alternate", <<"amd64">>>>, <<"src", <<"1">>>>}

(* Build 2 had both architectures; build 3 had amd64, and carried i386 over.   *)
MCBuilt(date, type, arch) == IF date = 3 /\ arch = "i386" THEN 2 ELSE date
=============================================================================
