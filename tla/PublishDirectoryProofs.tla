------------------------ MODULE PublishDirectoryProofs ------------------------
(* What PublishDirectory keeps, for any architectures, outcomes of builds and  *)
(* files of checksums, and any number of builds and crashes.                   *)
EXTENDS PublishDirectory, TLAPS

-----------------------------------------------------------------------------
(* run_bounded inside check_installable: the alarm's SIGTERM goes to the       *)
(* command's own process group.                                                *)

(* What the control process has done with its child: not started it, started   *)
(* and not waited for it, waited for it.  No signals are pending before it has *)
(* a child, and none when it is gone.                                          *)
ChildInv ==
    \/ control \in {"none", "forked"} /\ child = "none" /\ pending = {}
    \/ /\ control \in {"spawned", "looping", "pausing", "paused"}
       /\ child \in {"running", "terminated", "zombie"}
    \/ control = "gone" /\ child = "reaped" /\ pending = {}

LEMMA ChildInit == Init => ChildInv
  BY DEF Init, Idle, ChildInv

(* Every step of a build is one of run_bounded, a crash, or has nothing to do  *)
(* with it.                                                                    *)
BoundedStep ==
    \/ Fork \/ Spawn \/ SetAlarm \/ CallPause \/ Sleep
    \/ ChildEnds \/ AlarmRings \/ KillGroup \/ ReapAndExit \/ Return
    \/ control' = "none" /\ child' = "none" /\ pending' = {}
    \/ UNCHANGED boundedVars

LEMMA StepsOfRunBounded == [Next]_vars => BoundedStep
<1>. SUFFICES ASSUME [Next]_vars PROVE BoundedStep
  OBVIOUS
<1>1. ASSUME NEW wanted, NEW made, BuildAll(wanted, made)
      PROVE  UNCHANGED boundedVars
  BY <1>1 DEF BuildAll
<1>2. CASE Publish
  <2>1. PrepareCheckInstallable => Fork
    BY DEF PrepareCheckInstallable
  <2>2. CheckInstallable => Return
    BY DEF CheckInstallable
  <2>3. NewPublishDir \/ PublishBinary \/ AllMoved => UNCHANGED boundedVars
    BY DEF NewPublishDir, PublishBinary, AllMoved
  <2>4. TestReport \/ CopyReport \/ MergeAll => UNCHANGED boundedVars
    BY DEF TestReport, CopyReport, MergeAll
  <2>5. WriteSums \/ RemoveSums \/ OpenSignature \/ SignCdimage => UNCHANGED boundedVars
    BY DEF WriteSums, RemoveSums, OpenSignature, SignCdimage
  <2>6. MakeWebIndices \/ UnlinkCurrent \/ Symlink \/ WriteManifest \/ PostQA
        => UNCHANGED boundedVars
    BY DEF MakeWebIndices, UnlinkCurrent, Symlink, WriteManifest, PostQA
  <2>. QED
    BY <1>2, <2>1, <2>2, <2>3, <2>4, <2>5, <2>6 DEF Publish, BoundedStep
<1>3. CASE Rptprobs
  BY <1>3 DEF Rptprobs, BoundedStep
<1>4. CASE OtherSeriesChecks
  BY <1>4 DEF OtherSeriesChecks, BoundedStep
<1>5. CASE Crash
  BY <1>5 DEF Crash, BoundedStep
<1>6. CASE UNCHANGED vars
  BY <1>6 DEF vars, BoundedStep
<1>. QED
  BY <1>1, <1>2, <1>3, <1>4, <1>5, <1>6 DEF Next, BoundedStep

LEMMA ChildStep == ChildInv /\ BoundedStep => ChildInv'
<1>. SUFFICES ASSUME ChildInv, BoundedStep PROVE ChildInv'
  OBVIOUS
<1>1. CASE Fork \/ Spawn \/ SetAlarm \/ CallPause \/ Sleep
  BY <1>1 DEF ChildInv, Fork, Spawn, SetAlarm, CallPause, Sleep
<1>2. CASE ChildEnds
  BY <1>2 DEF ChildInv, ChildEnds, Wakes
<1>3. CASE AlarmRings
  BY <1>3 DEF ChildInv, AlarmRings, Wakes
<1>4. CASE KillGroup \/ ReapAndExit \/ Return
  BY <1>4 DEF ChildInv, KillGroup, ReapAndExit, Return
<1>5. CASE control' = "none" /\ child' = "none" /\ pending' = {}
  BY <1>5 DEF ChildInv
<1>6. CASE UNCHANGED boundedVars
  BY <1>6 DEF ChildInv, boundedVars
<1>. QED
  BY <1>1, <1>2, <1>3, <1>4, <1>5, <1>6 DEF BoundedStep

(* sigalrm_handler (osextras.py:112-117) signals a process group whose leader  *)
(* has been started and not yet been waited for, in whatever order the alarm   *)
(* and the child's end come.                                                   *)
THEOREM KillsOwnGroup == Spec => KillsOnlyItsOwn
<1>. DEFINE Kill == "ALRM" \in pending /\ "ALRM" \notin pending' /\ control # "gone"
                        => child \in {"running", "terminated", "zombie"}
<1>1. ChildInv /\ [Next]_vars => ChildInv'
  BY StepsOfRunBounded, ChildStep
<1>2. ChildInv => [Kill]_boundedVars
  BY DEF ChildInv
<1>3. Spec => []ChildInv
  BY ChildInit, <1>1, PTL DEF Spec
<1>4. Spec => [][Kill]_boundedVars
  BY <1>2, <1>3, PTL
<1>. QED
  BY <1>4 DEF KillsOnlyItsOwn

-----------------------------------------------------------------------------
(* Directories and inodes.                                                     *)

At(fs, m) == fs.data[<<fs.names[m], m>>]

(* Names lead to inodes that are there, and no inode is of a later build.      *)
Well(fs) ==
    /\ fs.names = [m \in DOMAIN fs.names |-> fs.names[m]]
    /\ fs.data = [i \in DOMAIN fs.data |-> fs.data[i]]
    /\ \A m \in DOMAIN fs.names : fs.names[m] \in 1 .. build /\ <<fs.names[m], m>> \in DOMAIN fs.data

(* Only these names have changed, and no inodes but the build's own of them.   *)
Changed(fs, gs, names) ==
    /\ Well(gs)
    /\ DOMAIN gs.names \subseteq DOMAIN fs.names \cup names
    /\ \A m \in DOMAIN fs.names \ names : m \in DOMAIN gs.names /\ gs.names[m] = fs.names[m]
    /\ \A i \in DOMAIN fs.data :
           /\ i \in DOMAIN gs.data
           /\ i[1] # build \/ i[2] \notin names => gs.data[i] = fs.data[i]

LEMMA NoChange ==
  ASSUME NEW fs, NEW names, Well(fs)
  PROVE  Changed(fs, fs, names)
  BY DEF Changed

LEMMA ChangedTwice ==
  ASSUME NEW fs, NEW gs, NEW hs, NEW names, Changed(fs, gs, names), Changed(gs, hs, names)
  PROVE  Changed(fs, hs, names)
  BY DEF Changed

LEMMA ChangedLess ==
  ASSUME NEW fs, NEW gs, NEW names, NEW few \in SUBSET names, Changed(fs, gs, few)
  PROVE  Changed(fs, gs, names)
  BY DEF Changed

(* Names that have not changed have the same contents.                         *)
LEMMA SameFile ==
  ASSUME NEW fs, NEW gs, NEW names, Well(fs), Changed(fs, gs, names),
         NEW m \in DOMAIN fs.names, m \notin names
  PROVE  m \in DOMAIN gs.names /\ At(gs, m) = At(fs, m)
  BY DEF Changed, Well, At

LEMMA PutFiles ==
  ASSUME NEW fs, NEW new, Well(fs), build \in Nat \ {0}
  PROVE  /\ Changed(fs, Put(fs, new), DOMAIN new)
         /\ DOMAIN Put(fs, new).names = DOMAIN fs.names \cup DOMAIN new
         /\ \A m \in DOMAIN new : Put(fs, new).names[m] = build /\ At(Put(fs, new), m) = new[m]
<1>. DEFINE gs == Put(fs, new)
<1>1. /\ gs.names = [m \in DOMAIN fs.names \cup DOMAIN new |->
                        IF m \in DOMAIN new THEN build ELSE fs.names[m]]
      /\ gs.data = [i \in DOMAIN fs.data \cup ({build} \X DOMAIN new) |->
                       IF i[1] = build /\ i[2] \in DOMAIN new THEN new[i[2]] ELSE fs.data[i]]
  BY DEF Put
<1>. HIDE DEF gs
<1>2. build \in 1 .. build
  OBVIOUS
<1>3. \A m \in DOMAIN new : gs.names[m] = build /\ <<build, m>> \in DOMAIN gs.data
  BY <1>1
<1>4. \A m \in DOMAIN fs.names \ DOMAIN new : gs.names[m] = fs.names[m]
  BY <1>1
<1>5. \A i \in DOMAIN fs.data : i \in DOMAIN gs.data
  BY <1>1
<1>6. Well(gs)
  <2>1. \A m \in DOMAIN gs.names :
           gs.names[m] \in 1 .. build /\ <<gs.names[m], m>> \in DOMAIN gs.data
    BY <1>1, <1>2, <1>3, <1>4, <1>5 DEF Well
  <2>. QED
    BY <1>1, <2>1 DEF Well
<1>7. \A i \in DOMAIN fs.data : i[1] # build \/ i[2] \notin DOMAIN new => gs.data[i] = fs.data[i]
  BY <1>1
<1>8. \A m \in DOMAIN new : At(gs, m) = new[m]
  BY <1>1, <1>3 DEF At
<1>. QED
  BY <1>1, <1>3, <1>4, <1>5, <1>6, <1>7, <1>8 DEF Changed, gs

LEMMA UnlinkFiles ==
  ASSUME NEW fs, NEW names, Well(fs)
  PROVE  /\ Changed(fs, Unlink(fs, names), names)
         /\ DOMAIN Unlink(fs, names).names = DOMAIN fs.names \ names
  BY DEF Unlink, Restrict, Changed, Well

LEMMA WriteNewFile ==
  ASSUME NEW fs, NEW name, NEW content, Well(fs), build \in Nat \ {0}, name \notin DOMAIN fs.names
  PROVE  /\ Changed(fs, Write(fs, name, content), {name})
         /\ DOMAIN Write(fs, name, content).names = DOMAIN fs.names \cup {name}
         /\ Write(fs, name, content).names[name] = build
<1>. DEFINE new == [m \in {name} |-> content]
<1>1. Write(fs, name, content) = Put(fs, new)
  BY DEF Write
<1>2. DOMAIN new = {name}
  OBVIOUS
<1>. HIDE DEF new
<1>. QED
  BY <1>1, <1>2, PutFiles

LEMMA Written ==
  ASSUME NEW fs, NEW name, NEW content, Well(fs), build \in Nat \ {0}
  PROVE  At(Write(fs, name, content), name) = content
<1>1. CASE name \in DOMAIN fs.names
  BY <1>1 DEF Write, Well, At
<1>2. CASE name \notin DOMAIN fs.names
  <2>. DEFINE new == [m \in {name} |-> content]
  <2>1. Write(fs, name, content) = Put(fs, new)
    BY <1>2 DEF Write
  <2>2. DOMAIN new = {name} /\ new[name] = content
    OBVIOUS
  <2>. HIDE DEF new
  <2>. QED
    BY <2>1, <2>2, PutFiles
<1>. QED
  BY <1>1, <1>2

(* A file that is the build's own, or that gets the content it has.            *)
LEMMA WriteOldFile ==
  ASSUME NEW fs, NEW name, NEW content, Well(fs), name \in DOMAIN fs.names,
         fs.names[name] = build \/ At(fs, name) = content
  PROVE  /\ Changed(fs, Write(fs, name, content), {name})
         /\ Write(fs, name, content).names = fs.names
<1>. DEFINE gs == Write(fs, name, content)
<1>1. /\ gs.names = fs.names
      /\ gs.data = [fs.data EXCEPT ![<<fs.names[name], name>>] = content]
  BY DEF Write
<1>. HIDE DEF gs
<1>2. <<fs.names[name], name>> \in DOMAIN fs.data
  BY DEF Well
<1>3. At(gs, name) = content
  BY <1>1, <1>2 DEF At
<1>4. \A i \in DOMAIN fs.data : i # <<fs.names[name], name>> => gs.data[i] = fs.data[i]
  BY <1>1
<1>5. \A i \in DOMAIN fs.data : i[1] # build \/ i[2] \notin {name} => gs.data[i] = fs.data[i]
  <2>1. ASSUME NEW i, i = <<fs.names[name], name>>, i[1] # build \/ i[2] \notin {name}
        PROVE  gs.data[i] = fs.data[i]
    <3>1. fs.names[name] # build
      BY <2>1
    <3>2. gs.data[i] = content /\ fs.data[i] = content
      BY <1>1, <1>3, <2>1, <3>1 DEF At
    <3>. QED
      BY <3>2
  <2>. QED
    BY <1>4, <2>1
<1>6. DOMAIN gs.data = DOMAIN fs.data /\ gs.data = [i \in DOMAIN gs.data |-> gs.data[i]]
  BY <1>1
<1>7. Well(gs)
  BY <1>1, <1>6 DEF Well
<1>. QED
  BY <1>1, <1>3, <1>5, <1>6, <1>7 DEF Changed, gs

-----------------------------------------------------------------------------
(* The files of one architecture.                                              *)

ImageName(a) == <<a, detect_image_extension(a)>>
ZsyncName(a) == <<a, detect_image_extension(a), "zsync">>
Mark(a) == <<a, "OVERSIZED">>
NamesOf(a) == {<<a, file>> : file \in Kinds \cup Beside \cup {"OVERSIZED"}} \cup {ZsyncName(a)}
TooLarge(a) == Raw(a).size > size_limit_extension(detect_image_extension(a))

IsImageName(m) == Len(m) = 2 /\ m[2] \in Kinds

(* Whatever is new, and no image, is not named like one, and if it is a mark it*)
(* is empty.                                                                   *)
NewOnly(fs, gs, a) ==
    \A m \in DOMAIN gs.names :
        \/ m = ImageName(a)
        \/ m \in DOMAIN fs.names /\ At(gs, m) = At(fs, m)
        \/ /\ At(gs, m).is # "image" /\ ~IsImageName(m)
           /\ m[2] = "OVERSIZED" => At(gs, m) = EmptyFile

LEMMA NewTwice ==
  ASSUME NEW fs, NEW gs, NEW hs, NEW a, NewOnly(fs, gs, a), NewOnly(gs, hs, a)
  PROVE  NewOnly(fs, hs, a)
  BY DEF NewOnly

LEMMA ExtensionIsKind ==
  ASSUME NEW a
  PROVE  detect_image_extension(a) \in Kinds
  BY DEF detect_image_extension, Kinds, Compressed

(* A kind of image is nothing else.                                            *)
LEMMA KindsAreNoOther == Kinds \cap (Beside \cup {"OVERSIZED", "sums", "gpg", "html", "raw"}) = {}
  BY DEF Kinds, Compressed, Beside

LEMMA NamesDiffer ==
  ASSUME NEW a
  PROVE  /\ ImageName(a) # ZsyncName(a) /\ Mark(a) # ZsyncName(a) /\ ImageName(a) # Mark(a)
         /\ \A file \in Beside : <<a, file>> # Mark(a) /\ <<a, file>> # ImageName(a)
<1>1. Len(ImageName(a)) = 2 /\ Len(Mark(a)) = 2 /\ Len(ZsyncName(a)) = 3
  BY DEF ImageName, Mark, ZsyncName
<1>2. ImageName(a)[2] \in Kinds
  BY ExtensionIsKind DEF ImageName
<1>3. \A file \in Beside : file \notin Kinds /\ file # "OVERSIZED"
  BY DEF Kinds, Compressed, Beside
<1>4. \A file \in Beside : <<a, file>> # Mark(a) /\ <<a, file>> # ImageName(a)
  BY <1>2, <1>3 DEF Mark, ImageName
<1>. QED
  BY <1>1, <1>2, <1>4, KindsAreNoOther DEF Mark, ImageName

LEMMA NamesOfArch ==
  ASSUME NEW a, NEW m \in NamesOf(a)
  PROVE  m[1] = a
  BY DEF NamesOf, ZsyncName

LEMMA MoveImageFiles ==
  ASSUME NEW fs, NEW a, Well(fs), build \in Nat \ {0}, scratch[a].beside \subseteq Beside
  PROVE  LET gs == MoveImage(fs, a) IN
         /\ Changed(fs, gs, NamesOf(a)) /\ NewOnly(fs, gs, a)
         /\ ImageName(a) \in DOMAIN gs.names /\ At(gs, ImageName(a)) = Image(a)
<1>. DEFINE extension == detect_image_extension(a)
            dropped == {<<a, file>> : file \in Dropped}
            less == Unlink(fs, dropped)
            moved == [name \in {<<a, file>> : file \in {extension} \cup scratch[a].beside} |->
                         IF name[2] = extension THEN Image(a)
                         ELSE [is |-> name[2], arch |-> a, from |-> build]]
            gs == Put(less, moved)
<1>1. gs = MoveImage(fs, a)
  BY DEF MoveImage
<1>2. /\ DOMAIN moved = {<<a, file>> : file \in {extension} \cup scratch[a].beside}
      /\ moved[ImageName(a)] = Image(a)
      /\ \A m \in DOMAIN moved : m # ImageName(a) =>
             m[2] \in Beside /\ moved[m].is = m[2]
  BY DEF ImageName
<1>. HIDE DEF moved
<1>3. dropped \subseteq NamesOf(a) /\ DOMAIN moved \subseteq NamesOf(a)
  BY <1>2, ExtensionIsKind DEF NamesOf, Dropped, Beside
<1>. HIDE DEF dropped
<1>4. Changed(fs, less, NamesOf(a)) /\ Well(less) /\ DOMAIN less.names = DOMAIN fs.names \ dropped
  <2>1. Changed(fs, less, dropped) /\ DOMAIN less.names = DOMAIN fs.names \ dropped
    BY UnlinkFiles
  <2>. QED
    BY <1>3, <2>1, ChangedLess DEF Changed
<1>5. \A m \in DOMAIN less.names : At(less, m) = At(fs, m)
  <2>1. Changed(fs, less, dropped)
    BY UnlinkFiles
  <2>. QED
    BY <1>4, <2>1, SameFile
<1>. HIDE DEF less
<1>6. /\ Changed(less, gs, DOMAIN moved)
      /\ DOMAIN gs.names = DOMAIN less.names \cup DOMAIN moved
      /\ \A m \in DOMAIN moved : At(gs, m) = moved[m]
  BY <1>4, PutFiles
<1>. HIDE DEF gs
<1>7. Changed(fs, gs, NamesOf(a))
  BY <1>3, <1>4, <1>6, ChangedLess, ChangedTwice
<1>8. \A m \in DOMAIN less.names \ DOMAIN moved : At(gs, m) = At(less, m)
  BY <1>4, <1>6, SameFile
<1>9. NewOnly(fs, gs, a)
  <2>. SUFFICES ASSUME NEW m \in DOMAIN gs.names, m # ImageName(a)
       PROVE  \/ m \in DOMAIN fs.names /\ At(gs, m) = At(fs, m)
              \/ /\ At(gs, m).is # "image" /\ ~IsImageName(m)
                 /\ m[2] = "OVERSIZED" => At(gs, m) = EmptyFile
    BY DEF NewOnly
  <2>1. CASE m \in DOMAIN moved
    <3>1. At(gs, m).is = m[2] /\ m[2] \in Beside
      BY <1>2, <1>6, <2>1
    <3>2. m[2] \notin Kinds /\ m[2] # "OVERSIZED" /\ m[2] # "image"
      BY <3>1 DEF Beside, Kinds, Compressed
    <3>. QED
      BY <3>1, <3>2 DEF IsImageName
  <2>2. CASE m \notin DOMAIN moved
    BY <1>4, <1>5, <1>6, <1>8, <2>2
  <2>. QED
    BY <2>1, <2>2
<1>10. ImageName(a) \in DOMAIN moved
  BY <1>2 DEF ImageName
<1>. QED
  BY <1>1, <1>2, <1>6, <1>7, <1>9, <1>10

LEMMA ZsyncFiles ==
  ASSUME NEW fs, NEW a, Well(fs), build \in Nat \ {0}
  PROVE  LET gs == MakeZsync(fs, a) IN
         /\ Changed(fs, gs, {ZsyncName(a)})
         /\ DOMAIN gs.names = DOMAIN fs.names \cup {ZsyncName(a)}
         /\ At(gs, ZsyncName(a)).is = "zsync"
<1>. DEFINE name == ImageName(a)
            less == Unlink(fs, {ZsyncName(a)})
            content == Zsync(fs.data[<<fs.names[name], name>>])
            gs == Write(less, ZsyncName(a), content)
<1>1. gs = MakeZsync(fs, a)
  BY DEF MakeZsync, ImageName, ZsyncName
<1>2. /\ Changed(fs, less, {ZsyncName(a)}) /\ DOMAIN less.names = DOMAIN fs.names \ {ZsyncName(a)}
      /\ content.is = "zsync"
  BY UnlinkFiles DEF Zsync
<1>. HIDE DEF less, content
<1>3. Well(less) /\ ZsyncName(a) \notin DOMAIN less.names
  BY <1>2 DEF Changed
<1>4. /\ Changed(less, gs, {ZsyncName(a)}) /\ DOMAIN gs.names = DOMAIN less.names \cup {ZsyncName(a)}
      /\ At(gs, ZsyncName(a)) = content
  BY <1>3, WriteNewFile, Written
<1>. HIDE DEF gs
<1>5. Changed(fs, gs, {ZsyncName(a)})
  BY <1>2, <1>4, ChangedTwice
<1>. QED
  BY <1>1, <1>2, <1>4, <1>5

LEMMA MarkFiles ==
  ASSUME NEW fs, NEW a, Well(fs), build \in Nat \ {0},
         Mark(a) \in DOMAIN fs.names => At(fs, Mark(a)) = EmptyFile
  PROVE  LET gs == MarkOversized(fs, a) IN
         /\ Changed(fs, gs, {Mark(a)})
         /\ DOMAIN gs.names \ {Mark(a)} = DOMAIN fs.names \ {Mark(a)}
         /\ Mark(a) \in DOMAIN gs.names <=> TooLarge(a)
         /\ Mark(a) \in DOMAIN gs.names => At(gs, Mark(a)) = EmptyFile
<1>1. CASE TooLarge(a)
  <2>1. MarkOversized(fs, a) = Write(fs, Mark(a), EmptyFile)
    BY <1>1 DEF MarkOversized, TooLarge, Mark
  <2>2. CASE Mark(a) \in DOMAIN fs.names
    BY <1>1, <2>1, <2>2, WriteOldFile, Written
  <2>3. CASE Mark(a) \notin DOMAIN fs.names
    <3>. DEFINE gs == Write(fs, Mark(a), EmptyFile)
    <3>1. Changed(fs, gs, {Mark(a)})
      BY <2>3, WriteNewFile
    <3>2. DOMAIN gs.names = DOMAIN fs.names \cup {Mark(a)}
      BY <2>3, WriteNewFile
    <3>3. At(gs, Mark(a)) = EmptyFile
      BY Written
    <3>. QED
      BY <1>1, <2>1, <3>1, <3>2, <3>3
  <2>. QED
    BY <2>2, <2>3
<1>2. CASE ~TooLarge(a)
  <2>1. MarkOversized(fs, a) = Unlink(fs, {Mark(a)})
    BY <1>2 DEF MarkOversized, TooLarge, Mark
  <2>. QED
    BY <1>2, <2>1, UnlinkFiles
<1>. QED
  BY <1>1, <1>2

(* What publish_binary has done when it yields.                                *)
LEMMA PublishedFiles ==
  ASSUME NEW fs, NEW a, Well(fs), build \in Nat \ {0}, scratch[a].beside \subseteq Beside,
         \A m \in DOMAIN fs.names : m[2] = "OVERSIZED" => At(fs, m) = EmptyFile
  PROVE  LET gs == MarkOversized(MakeZsync(MoveImage(fs, a), a), a) IN
         /\ Changed(fs, gs, NamesOf(a)) /\ NewOnly(fs, gs, a)
         /\ ImageName(a) \in DOMAIN gs.names /\ At(gs, ImageName(a)) = Image(a)
         /\ Mark(a) \in DOMAIN gs.names <=> TooLarge(a)
<1>. DEFINE ms == MoveImage(fs, a)
            zs == MakeZsync(ms, a)
            gs == MarkOversized(zs, a)
            image == ImageName(a)
            zsync == ZsyncName(a)
            mark == Mark(a)
<1>1. /\ Changed(fs, ms, NamesOf(a)) /\ NewOnly(fs, ms, a)
      /\ image \in DOMAIN ms.names /\ At(ms, image) = Image(a)
  BY MoveImageFiles
<1>. HIDE DEF ms
<1>2. Well(ms)
  BY <1>1 DEF Changed
<1>3. /\ Changed(ms, zs, {zsync}) /\ DOMAIN zs.names = DOMAIN ms.names \cup {zsync}
      /\ At(zs, zsync).is = "zsync"
  BY <1>2, ZsyncFiles
<1>. HIDE DEF zs
<1>4. \A m \in DOMAIN ms.names \ {zsync} : m \in DOMAIN zs.names /\ At(zs, m) = At(ms, m)
  BY <1>2, <1>3, SameFile
<1>5. NewOnly(ms, zs, a) /\ Well(zs)
  <2>1. zsync[2] # "OVERSIZED"
    BY ExtensionIsKind, KindsAreNoOther DEF ZsyncName
  <2>2. Len(zsync) = 3
    BY DEF ZsyncName
  <2>. QED
    BY <1>3, <1>4, <2>1, <2>2 DEF NewOnly, Changed, IsImageName
<1>6. mark \in DOMAIN zs.names => At(zs, mark) = EmptyFile
  <2>1. mark[2] = "OVERSIZED" /\ mark # image
    BY NamesDiffer DEF Mark
  <2>2. NewOnly(fs, zs, a)
    BY <1>1, <1>5, NewTwice
  <2>. QED
    BY <2>1, <2>2 DEF NewOnly
<1>7. /\ Changed(zs, gs, {mark})
      /\ DOMAIN gs.names \ {mark} = DOMAIN zs.names \ {mark}
      /\ mark \in DOMAIN gs.names <=> TooLarge(a)
      /\ mark \in DOMAIN gs.names => At(gs, mark) = EmptyFile
  BY <1>5, <1>6, MarkFiles
<1>. HIDE DEF gs
<1>8. \A m \in DOMAIN zs.names \ {mark} : m \in DOMAIN gs.names /\ At(gs, m) = At(zs, m)
  BY <1>5, <1>7, SameFile
<1>9. EmptyFile.is # "image" /\ ~IsImageName(mark)
  BY KindsAreNoOther DEF EmptyFile, IsImageName, Mark
<1>10. NewOnly(zs, gs, a)
  BY <1>7, <1>8, <1>9 DEF NewOnly
<1>11. NewOnly(fs, gs, a)
  BY <1>1, <1>5, <1>10, NewTwice
<1>12. {zsync} \in SUBSET NamesOf(a) /\ {mark} \in SUBSET NamesOf(a)
  BY DEF NamesOf, Mark
<1>13. Changed(fs, gs, NamesOf(a))
  BY <1>1, <1>3, <1>7, <1>12, ChangedLess, ChangedTwice
<1>14. image # zsync /\ image # mark
  BY NamesDiffer
<1>15. image \in DOMAIN gs.names /\ At(gs, image) = Image(a)
  BY <1>1, <1>4, <1>8, <1>14
<1>. QED
  BY <1>7, <1>11, <1>13, <1>15 DEF gs, zs, ms

-----------------------------------------------------------------------------
(* The course of a publication, and which files each of its steps touches.     *)

Dir(n) == [names |-> dirs[n], data |-> data]

Preparing == {"prepare", "check", "link"}
Filling == {"binary", "report", "copy", "merge", "write", "sign", "gpg",
            "unlink", "symlink", "manifest", "post-qa"}

(* When there is a directory of this build, and where `current' leads.         *)
Course ==
    /\ build \in Nat /\ (stage # "idle" => build # 0 /\ base # build)
    /\ stage \in {"idle"} \cup Preparing \cup Filling
    /\ current \in {0} \cup DOMAIN dirs /\ base \in {0} \cup DOMAIN dirs
    /\ stage \in Preparing => build \notin DOMAIN dirs
    /\ stage \in Filling => build \in DOMAIN dirs
    /\ stage \in {"manifest", "post-qa"} => current = build
    /\ stage \notin {"idle", "symlink", "manifest", "post-qa"} => current = base

ArchesInv ==
    /\ arches \in Seq(DOMAIN scratch) /\ published \subseteq DOMAIN scratch
    /\ stage \in {"idle"} \cup Preparing => published = {}
    /\ DOMAIN scratch \subseteq Arches
    /\ \A a \in DOMAIN scratch : scratch[a].beside \subseteq Beside

(* A directory leads to inodes of its build and of earlier ones; what marks an *)
(* architecture OVERSIZED is empty, whoever opens it for appending.            *)
MarksEmpty(fs) == \A m \in DOMAIN fs.names : m[2] = "OVERSIZED" => At(fs, m) = EmptyFile

DirsInv ==
    /\ dirs = [n \in DOMAIN dirs |-> dirs[n]] /\ data = [i \in DOMAIN data |-> data[i]]
    /\ DOMAIN dirs \subseteq 1 .. build
    /\ \A n \in DOMAIN dirs :
           /\ dirs[n] = [m \in DOMAIN dirs[n] |-> dirs[n][m]]
           /\ \A m \in DOMAIN dirs[n] : dirs[n][m] \in 1 .. n /\ <<dirs[n][m], m>> \in DOMAIN data
           /\ MarksEmpty(Dir(n))

(* Files that are opened for writing are not linked from an earlier build:     *)
(* the report, and the signature of a checksum file that is still to be made.  *)
NamesInv ==
    /\ left \subseteq SumsFiles
    /\ stage \in {"binary", "report", "copy"} =>
           \A m \in DOMAIN dirs[build] : m[1] \notin SumsFiles \cup {"report"}
    /\ stage = "merge" => \A m \in DOMAIN dirs[build] : m[1] \notin SumsFiles
    /\ stage \in {"write", "sign"} => \A f \in left : <<f, "gpg">> \notin DOMAIN dirs[build]
    /\ stage = "gpg" => \A f \in left \ {NextSums} : <<f, "gpg">> \notin DOMAIN dirs[build]
    /\ stage \in {"sign", "gpg"} => left # {} /\ <<NextSums, "sums">> \in DOMAIN dirs[build]
    /\ stage = "gpg" => /\ <<NextSums, "gpg">> \in DOMAIN dirs[build]
                        /\ dirs[build][<<NextSums, "gpg">>] = build

FilesInv == Course /\ ArchesInv /\ DirsInv /\ NamesInv

LEMMA NextIsLeft ==
  ASSUME left # {}
  PROVE  NextSums \in left
  BY DEF NextSums

LEMMA NextStays ==
  ASSUME left' = left
  PROVE  NextSums' = NextSums
  BY DEF NextSums

(* A step that fills the directory of the build.                               *)
There == [names |-> dirs'[build], data |-> data']

Fills(names) ==
    /\ build' = build /\ build \in DOMAIN dirs /\ DOMAIN dirs' = DOMAIN dirs
    /\ dirs' = [n \in DOMAIN dirs' |-> dirs'[n]]
    /\ \A n \in DOMAIN dirs \ {build} : dirs'[n] = dirs[n]
    /\ Changed(Here, There, names)

LEMMA HereIsWell ==
  ASSUME DirsInv, build \in DOMAIN dirs
  PROVE  Well(Here) /\ MarksEmpty(Here)
<1>1. Well(Here)
  BY DEF DirsInv, Well, Here
<1>2. Here = Dir(build)
  BY DEF Here, Dir
<1>. QED
  BY <1>1, <1>2 DEF DirsInv

LEMMA Becoming ==
  ASSUME NEW gs, NEW names, DirsInv, build \in DOMAIN dirs, build' = build,
         Becomes(gs), Changed(Here, gs, names)
  PROVE  Fills(names) /\ There.names = gs.names /\ There.data = gs.data
<1>1. /\ DOMAIN dirs' = DOMAIN dirs /\ dirs'[build] = gs.names /\ data' = gs.data
      /\ dirs' = [n \in DOMAIN dirs' |-> dirs'[n]]
      /\ \A n \in DOMAIN dirs \ {build} : dirs'[n] = dirs[n]
  BY DEF Becomes, DirsInv
<1>2. There.names = gs.names /\ There.data = gs.data
  BY <1>1 DEF There
<1>3. Changed(Here, There, names)
  BY <1>2 DEF Changed, Well
<1>. QED
  BY <1>1, <1>2, <1>3 DEF Fills

(* Directories of earlier builds have the same files as before.                *)
SameFiles(fs, gs) ==
    DOMAIN gs.names = DOMAIN fs.names /\ \A m \in DOMAIN fs.names : At(gs, m) = At(fs, m)

LEMMA EarlierSame ==
  ASSUME NEW names, DirsInv, build \in Nat, Fills(names), NEW n \in DOMAIN dirs \ {build}
  PROVE  SameFiles(Dir(n), Dir(n)')
<1>1. dirs'[n] = dirs[n]
  BY DEF Fills
<1>2. \A m \in DOMAIN dirs[n] : dirs[n][m] # build /\ <<dirs[n][m], m>> \in DOMAIN data
  BY DEF DirsInv
<1>3. \A i \in DOMAIN data : i[1] # build => data'[i] = data[i]
  BY DEF Fills, Changed, Here, There
<1>4. \A m \in DOMAIN dirs[n] : data'[<<dirs[n][m], m>>] = data[<<dirs[n][m], m>>]
  BY <1>2, <1>3
<1>. QED
  BY <1>1, <1>4 DEF SameFiles, Dir, At

LEMMA FillsDirs ==
  ASSUME NEW names, DirsInv, build \in Nat, Fills(names), MarksEmpty(There)
  PROVE  DirsInv'
<1>1. /\ dirs' = [n \in DOMAIN dirs' |-> dirs'[n]] /\ data' = [i \in DOMAIN data' |-> data'[i]]
      /\ DOMAIN dirs' \subseteq 1 .. build'
  BY DEF DirsInv, Fills, Changed, Well, There
<1>2. ASSUME NEW n \in DOMAIN dirs'
      PROVE  /\ dirs'[n] = [m \in DOMAIN dirs'[n] |-> dirs'[n][m]]
             /\ \A m \in DOMAIN dirs'[n] :
                    dirs'[n][m] \in 1 .. n /\ <<dirs'[n][m], m>> \in DOMAIN data'
             /\ MarksEmpty(Dir(n)')
  <2>1. CASE n = build
    <3>1. Dir(n)' = There
      BY <2>1 DEF Dir, There
    <3>. QED
      BY <2>1, <3>1 DEF Fills, Changed, Well, There
  <2>2. CASE n # build
    <3>1. dirs'[n] = dirs[n] /\ n \in DOMAIN dirs
      BY <2>2 DEF Fills
    <3>2. \A i \in DOMAIN data : i \in DOMAIN data'
      BY DEF Fills, Changed, Here, There
    <3>3. SameFiles(Dir(n), Dir(n)') /\ MarksEmpty(Dir(n))
      BY <2>2, <3>1, EarlierSame DEF DirsInv
    <3>4. MarksEmpty(Dir(n)')
      BY <3>3 DEF SameFiles, MarksEmpty
    <3>. QED
      BY <3>1, <3>2, <3>4 DEF DirsInv
  <2>. QED
    BY <2>1, <2>2
<1>. QED
  BY <1>1, <1>2 DEF DirsInv

(* The steps that fill it.                                                     *)
LEMMA FillsSame ==
  ASSUME NEW names, DirsInv, Fills(names), NEW m \in DOMAIN dirs[build] \ names
  PROVE  m \in DOMAIN There.names /\ At(There, m) = At(Here, m)
<1>1. Well(Here) /\ Here.names = dirs[build]
  BY HereIsWell DEF Fills, Here
<1>2. Changed(Here, There, names)
  BY DEF Fills
<1>. QED
  BY <1>1, <1>2, SameFile

LEMMA FillsOther ==
  ASSUME NEW names, DirsInv, Fills(names), \A m \in names : m[2] # "OVERSIZED"
  PROVE  MarksEmpty(There)
<1>1. DOMAIN There.names \subseteq DOMAIN dirs[build] \cup names
  BY DEF Fills, Changed, Here
<1>2. \A m \in DOMAIN dirs[build] \ names : m[2] = "OVERSIZED" => At(There, m) = EmptyFile
  <2>1. MarksEmpty(Here) /\ Here.names = dirs[build]
    BY HereIsWell DEF Fills, Here
  <2>. QED
    BY <2>1, FillsSame DEF MarksEmpty
<1>. QED
  BY <1>1, <1>2 DEF MarksEmpty

Touched(a) == NamesOf(a) \cup OfArch(a, DOMAIN dirs[build])

LEMMA TouchedIsOf ==
  ASSUME NEW a, NEW m \in Touched(a)
  PROVE  m[1] = a
  BY NamesOfArch DEF Touched, OfArch

LEMMA HeadOfArches ==
  ASSUME ArchesInv, arches # <<>>
  PROVE  /\ Head(arches) \in DOMAIN scratch /\ Tail(arches) \in Seq(DOMAIN scratch)
         /\ scratch[Head(arches)].beside \subseteq Beside
  BY DEF ArchesInv

LEMMA PublishBinaryFiles ==
  ASSUME FilesInv, PublishBinary, NEW a, a = Head(arches)
  PROVE  /\ Fills(Touched(a)) /\ NewOnly(Here, There, a)
         /\ Raw(a) = NoImage => \A m \in DOMAIN There.names : m[1] # a
         /\ Raw(a) # NoImage => /\ ImageName(a) \in DOMAIN There.names
                                /\ At(There, ImageName(a)) = Image(a)
         /\ Raw(a) # NoImage /\ stage' # "idle" => (Mark(a) \in DOMAIN There.names <=> TooLarge(a))
<1>1. /\ stage = "binary" /\ build' = build /\ build \in DOMAIN dirs /\ build \in Nat \ {0}
      /\ DirsInv /\ arches # <<>> /\ scratch[a].beside \subseteq Beside
  BY HeadOfArches DEF FilesInv, PublishBinary, steady, Course, Filling
<1>2. Well(Here) /\ MarksEmpty(Here) /\ Here.names = dirs[build]
  BY <1>1, HereIsWell DEF Here
<1>3. CASE Raw(a) = NoImage
  <2>. DEFINE names == OfArch(a, DOMAIN dirs[build])
              gs == Unlink(Here, names)
  <2>1. Becomes(gs)
    BY <1>3 DEF PublishBinary
  <2>2. Changed(Here, gs, names) /\ DOMAIN gs.names = DOMAIN dirs[build] \ names
    BY <1>2, UnlinkFiles
  <2>3. \A m \in DOMAIN gs.names : At(gs, m) = At(Here, m)
    BY <1>2, <2>2, SameFile
  <2>4. names \in SUBSET Touched(a) /\ \A m \in DOMAIN dirs[build] \ names : m[1] # a
    BY DEF Touched, OfArch
  <2>. HIDE DEF names, gs
  <2>5. Fills(Touched(a)) /\ There.names = gs.names /\ There.data = gs.data
    BY <1>1, <2>1, <2>2, <2>4, ChangedLess, Becoming
  <2>6. NewOnly(Here, There, a)
    BY <1>2, <2>2, <2>3, <2>5 DEF NewOnly, At
  <2>. QED
    BY <1>3, <2>2, <2>4, <2>5, <2>6
<1>4. CASE Raw(a) # NoImage
  <2>. DEFINE ms == MoveImage(Here, a)
              gs == MarkOversized(MakeZsync(ms, a), a)
              us == Unlink(ms, {ZsyncName(a)})
  <2>1. Becomes(gs) \/ (Becomes(us) /\ stage' = "idle")
    BY <1>4 DEF PublishBinary, Raise, End, Goto, ZsyncName
  <2>2. NamesOf(a) \in SUBSET Touched(a)
    BY DEF Touched
  <2>3. CASE Becomes(gs)
    <3>1. \A m \in DOMAIN Here.names : m[2] = "OVERSIZED" => At(Here, m) = EmptyFile
      BY <1>2 DEF MarksEmpty
    <3>2. /\ Changed(Here, gs, NamesOf(a)) /\ NewOnly(Here, gs, a)
          /\ ImageName(a) \in DOMAIN gs.names /\ At(gs, ImageName(a)) = Image(a)
          /\ Mark(a) \in DOMAIN gs.names <=> TooLarge(a)
      BY <1>1, <1>2, <3>1, PublishedFiles
    <3>. HIDE DEF gs
    <3>3. Fills(Touched(a)) /\ There.names = gs.names /\ There.data = gs.data
      BY <1>1, <2>2, <2>3, <3>2, ChangedLess, Becoming
    <3>. QED
      BY <1>4, <3>2, <3>3 DEF NewOnly, At
  <2>4. CASE Becomes(us) /\ stage' = "idle"
    <3>1. /\ Changed(Here, ms, NamesOf(a)) /\ NewOnly(Here, ms, a)
          /\ ImageName(a) \in DOMAIN ms.names /\ At(ms, ImageName(a)) = Image(a)
      BY <1>1, <1>2, MoveImageFiles
    <3>. HIDE DEF ms
    <3>2. Well(ms)
      BY <3>1 DEF Changed
    <3>3. /\ Changed(ms, us, {ZsyncName(a)})
          /\ DOMAIN us.names = DOMAIN ms.names \ {ZsyncName(a)}
      BY <3>2, UnlinkFiles
    <3>. HIDE DEF us
    <3>4. \A m \in DOMAIN us.names : At(us, m) = At(ms, m)
      BY <3>2, <3>3, SameFile
    <3>5. NewOnly(ms, us, a)
      BY <3>3, <3>4 DEF NewOnly
    <3>6. ImageName(a) \in DOMAIN us.names /\ {ZsyncName(a)} \in SUBSET NamesOf(a)
      BY <3>1, <3>3, NamesDiffer DEF NamesOf
    <3>7. Changed(Here, us, NamesOf(a)) /\ NewOnly(Here, us, a)
      BY <3>1, <3>3, <3>5, <3>6, ChangedLess, ChangedTwice, NewTwice
    <3>8. Fills(Touched(a)) /\ There.names = us.names /\ There.data = us.data
      BY <1>1, <2>2, <2>4, <3>7, ChangedLess, Becoming
    <3>9. At(us, ImageName(a)) = Image(a)
      BY <3>1, <3>4, <3>6
    <3>. QED
      BY <1>4, <2>4, <3>6, <3>7, <3>8, <3>9 DEF NewOnly, At
  <2>. QED
    BY <2>1, <2>3, <2>4
<1>. QED
  BY <1>3, <1>4

LEMMA BinaryMarks ==
  ASSUME FilesInv, PublishBinary
  PROVE  MarksEmpty(There)
<1>. DEFINE a == Head(arches)
<1>1. NewOnly(Here, There, a)
  BY PublishBinaryFiles
<1>2. MarksEmpty(Here)
  BY HereIsWell DEF FilesInv, Course, Filling, PublishBinary
<1>3. ImageName(a)[2] # "OVERSIZED"
  BY ExtensionIsKind, KindsAreNoOther DEF ImageName
<1>. HIDE DEF a
<1>. QED
  BY <1>1, <1>2, <1>3 DEF NewOnly, MarksEmpty

Html == <<"report", "html">>
SumsName(f) == <<f, "sums">>
GpgName(f) == <<f, "gpg">>

LEMMA TestReportFiles ==
  ASSUME FilesInv, TestReport
  PROVE  \/ UNCHANGED files /\ stage' = "copy"
         \/ Fills({Html}) /\ DOMAIN There.names = DOMAIN dirs[build] \ {Html} /\ stage' = "merge"
<1>1. build' = build /\ build \in DOMAIN dirs /\ DirsInv
  BY DEF FilesInv, TestReport, steady, Course, Filling
<1>2. Changed(Here, Unlink(Here, {Html}), {Html})
      /\ DOMAIN Unlink(Here, {Html}).names = DOMAIN dirs[build] \ {Html}
  <2>1. Well(Here) /\ Here.names = dirs[build]
    BY <1>1, HereIsWell DEF Here
  <2>. QED
    BY <2>1, UnlinkFiles
<1>3. CASE Becomes(Unlink(Here, {Html})) /\ stage' = "merge"
  <2>. DEFINE gs == Unlink(Here, {Html})
  <2>1. Becomes(gs) /\ Changed(Here, gs, {Html}) /\ DOMAIN gs.names = DOMAIN dirs[build] \ {Html}
    BY <1>2, <1>3
  <2>. HIDE DEF gs
  <2>. QED
    BY <1>1, <1>3, <2>1, Becoming
<1>. QED
  BY <1>3 DEF TestReport, Goto, Html

LEMMA CopyReportFiles ==
  ASSUME FilesInv, CopyReport
  PROVE  \/ UNCHANGED files /\ stage' = "idle"
         \/ /\ Fills({Html}) /\ DOMAIN There.names = DOMAIN dirs[build] \cup {Html}
            /\ At(There, Html) = report /\ stage' = "merge"
<1>1. build' = build /\ build \in DOMAIN dirs /\ build \in Nat \ {0} /\ DirsInv
  BY DEF FilesInv, CopyReport, steady, Course, Filling
<1>2. Well(Here) /\ Here.names = dirs[build]
  BY <1>1, HereIsWell DEF Here
<1>3. Html \notin DOMAIN Here.names
  BY <1>2 DEF FilesInv, NamesInv, CopyReport, Html
<1>4. CASE Becomes(Write(Here, Html, report)) /\ stage' = "merge"
  <2>. DEFINE gs == Write(Here, Html, report)
  <2>1. Changed(Here, gs, {Html})
    BY <1>1, <1>2, <1>3, WriteNewFile
  <2>2. DOMAIN gs.names = DOMAIN Here.names \cup {Html}
    BY <1>1, <1>2, <1>3, WriteNewFile
  <2>3. At(gs, Html) = report
    BY <1>1, <1>2, Written
  <2>. HIDE DEF gs
  <2>4. Fills({Html}) /\ There.names = gs.names /\ There.data = gs.data
    BY <1>1, <1>4, <2>1, Becoming DEF gs
  <2>5. At(There, Html) = report
    BY <2>3, <2>4 DEF At
  <2>. QED
    BY <1>2, <1>4, <2>2, <2>4, <2>5
<1>. QED
  BY <1>4 DEF CopyReport, Goto, Html, Raise, End

LEMMA WriteSumsFiles ==
  ASSUME FilesInv, WriteSums, NEW name, name = SumsName(NextSums)
  PROVE  /\ Fills({name}) /\ DOMAIN There.names = DOMAIN dirs[build] \cup {name}
         /\ At(There, name) = Sums(entries)
<1>1. build' = build /\ build \in DOMAIN dirs /\ build \in Nat \ {0} /\ DirsInv
  BY DEF FilesInv, WriteSums, steady, Course, Filling
<1>2. Well(Here) /\ Here.names = dirs[build]
  BY <1>1, HereIsWell DEF Here
<1>. DEFINE new == [m \in {name} |-> Sums(entries)]
            gs == Put(Here, new)
<1>3. Becomes(gs)
  BY DEF WriteSums, SumsName
<1>4. DOMAIN new = {name} /\ new[name] = Sums(entries)
  OBVIOUS
<1>. HIDE DEF new
<1>5. /\ Changed(Here, gs, {name}) /\ DOMAIN gs.names = DOMAIN Here.names \cup {name}
      /\ At(gs, name) = Sums(entries)
  BY <1>1, <1>2, <1>4, PutFiles
<1>. HIDE DEF gs
<1>6. Fills({name}) /\ There.names = gs.names /\ There.data = gs.data
  BY <1>1, <1>3, <1>5, Becoming
<1>7. At(There, name) = Sums(entries)
  BY <1>5, <1>6 DEF At
<1>. QED
  BY <1>2, <1>5, <1>6, <1>7

LEMMA RemoveSumsFiles ==
  ASSUME FilesInv, RemoveSums, NEW name, name = SumsName(NextSums)
  PROVE  Fills({name}) /\ DOMAIN There.names = DOMAIN dirs[build] \ {name}
<1>1. build' = build /\ build \in DOMAIN dirs /\ build \in Nat \ {0} /\ DirsInv
  BY DEF FilesInv, RemoveSums, steady, Course, Filling
<1>2. Well(Here) /\ Here.names = dirs[build]
  BY <1>1, HereIsWell DEF Here
<1>. DEFINE gs == Unlink(Here, {name})
<1>3. Becomes(gs)
  BY DEF RemoveSums, SumsName
<1>4. Changed(Here, gs, {name}) /\ DOMAIN gs.names = DOMAIN Here.names \ {name}
  BY <1>2, UnlinkFiles
<1>. HIDE DEF gs
<1>5. Fills({name}) /\ There.names = gs.names
  BY <1>1, <1>3, <1>4, Becoming
<1>. QED
  BY <1>2, <1>4, <1>5

LEMMA OpenSignatureFiles ==
  ASSUME FilesInv, OpenSignature, NEW name, name = GpgName(NextSums)
  PROVE  /\ Fills({name}) /\ DOMAIN There.names = DOMAIN dirs[build] \cup {name}
         /\ There.names[name] = build /\ At(There, name) = EmptyFile
<1>1. build' = build /\ build \in DOMAIN dirs /\ build \in Nat \ {0} /\ DirsInv
  BY DEF FilesInv, OpenSignature, steady, Course, Filling
<1>2. Well(Here) /\ Here.names = dirs[build]
  BY <1>1, HereIsWell DEF Here
<1>3. name \notin DOMAIN Here.names
  <2>1. NextSums \in left
    BY NextIsLeft DEF FilesInv, NamesInv, OpenSignature
  <2>. QED
    BY <1>2, <2>1 DEF FilesInv, NamesInv, OpenSignature, GpgName
<1>. DEFINE gs == Write(Here, name, EmptyFile)
<1>4. Becomes(gs)
  BY DEF OpenSignature, GpgName
<1>5. Changed(Here, gs, {name})
  BY <1>1, <1>2, <1>3, WriteNewFile
<1>6. DOMAIN gs.names = DOMAIN Here.names \cup {name}
  BY <1>1, <1>2, <1>3, WriteNewFile
<1>7. gs.names[name] = build
  BY <1>1, <1>2, <1>3, WriteNewFile
<1>8. At(gs, name) = EmptyFile
  BY <1>1, <1>2, Written
<1>. HIDE DEF gs
<1>9. Fills({name}) /\ There.names = gs.names /\ There.data = gs.data
  BY <1>1, <1>4, <1>5, Becoming
<1>10. At(There, name) = EmptyFile
  BY <1>8, <1>9 DEF At
<1>. QED
  BY <1>2, <1>6, <1>7, <1>9, <1>10

LEMMA SignCdimageFiles ==
  ASSUME FilesInv, SignCdimage, NEW name, name = GpgName(NextSums)
  PROVE  /\ Fills({name})
         /\ \/ /\ DOMAIN There.names = DOMAIN dirs[build] /\ stage' = "write"
               /\ left' = left \ {NextSums} /\ published' = published /\ entries' = entries
               /\ At(There, name) = Signature(At(Here, SumsName(NextSums)))
            \/ DOMAIN There.names = DOMAIN dirs[build] \ {name} /\ stage' = "idle"
<1>1. build' = build /\ build \in DOMAIN dirs /\ build \in Nat \ {0} /\ DirsInv
  BY DEF FilesInv, SignCdimage, steady, Course, Filling
<1>2. Well(Here) /\ Here.names = dirs[build]
  BY <1>1, HereIsWell DEF Here
<1>3. /\ name \in DOMAIN Here.names /\ Here.names[name] = build
      /\ SumsName(NextSums) \in DOMAIN dirs[build]
  BY <1>2 DEF FilesInv, NamesInv, SignCdimage, GpgName, SumsName
<1>. DEFINE content == Signature(At(Here, SumsName(NextSums)))
            gs == Write(Here, name, content)
            us == Unlink(Here, {name})
<1>4. \/ /\ Becomes(gs) /\ stage' = "write"
         /\ left' = left \ {NextSums} /\ published' = published /\ entries' = entries
      \/ Becomes(us) /\ stage' = "idle"
  <2>1. Contents(build)[SumsName(NextSums)] = At(Here, SumsName(NextSums))
    BY <1>3 DEF Contents, At, Here
  <2>. QED
    BY <2>1 DEF SignCdimage, GpgFails, Goto, Raise, End, GpgName, SumsName
<1>5. /\ Changed(Here, gs, {name}) /\ gs.names = Here.names
  BY <1>2, <1>3, WriteOldFile
<1>6. At(gs, name) = content
  BY <1>1, <1>2, Written
<1>7. Changed(Here, us, {name}) /\ DOMAIN us.names = DOMAIN Here.names \ {name}
  BY <1>2, UnlinkFiles
<1>. HIDE DEF content, gs, us
<1>8. CASE Becomes(gs) /\ stage' = "write"
           /\ left' = left \ {NextSums} /\ published' = published /\ entries' = entries
  <2>1. Fills({name}) /\ There.names = gs.names /\ There.data = gs.data
    BY <1>1, <1>5, <1>8, Becoming
  <2>2. At(There, name) = content
    BY <1>6, <2>1 DEF At
  <2>. QED
    BY <1>2, <1>5, <1>8, <2>1, <2>2 DEF content
<1>9. CASE Becomes(us) /\ stage' = "idle"
  <2>1. Fills({name}) /\ There.names = us.names
    BY <1>1, <1>7, <1>9, Becoming
  <2>. QED
    BY <1>2, <1>7, <1>9, <2>1
<1>. QED
  BY <1>4, <1>8, <1>9

-----------------------------------------------------------------------------
(* The course, the names and the inodes stay in order.                         *)

LEMMA FilesInit == Init => FilesInv
<1>. SUFFICES ASSUME Init PROVE FilesInv
  OBVIOUS
<1>1. Course
  BY DEF Init, Course, Preparing, Filling
<1>2. ArchesInv
  BY DEF Init, ArchesInv
<1>3. DirsInv
  BY DEF Init, DirsInv
<1>4. NamesInv
  BY DEF Init, NamesInv
<1>. QED
  BY <1>1, <1>2, <1>3, <1>4 DEF FilesInv

LEMMA DirsStay ==
  ASSUME DirsInv, UNCHANGED files, build \in Nat, build' \in {build, build + 1}
  PROVE  DirsInv'
  BY DEF DirsInv, files, MarksEmpty, Dir, At


LEMMA BuildAllKeeps ==
  ASSUME FilesInv, NEW wanted \in Requests, NEW made \in [ToSet(wanted) -> UNION Range(Outcomes)],
         BuildAll(wanted, made)
  PROVE  FilesInv'
<1>1. /\ stage = "idle" /\ stage' = "prepare" /\ build' = build + 1 /\ base' = current
      /\ current' = current /\ dirs' = dirs
  BY DEF BuildAll, Goto, files
<1>2. Course'
  <2>1. build \in Nat /\ current \in {0} \cup DOMAIN dirs /\ DOMAIN dirs \subseteq 1 .. build
    BY DEF FilesInv, Course, DirsInv
  <2>2. build + 1 \notin DOMAIN dirs /\ current # build + 1
    BY <2>1
  <2>. QED
    BY <1>1, <2>1, <2>2 DEF Course, Preparing, Filling
<1>3. ArchesInv'
  <2>1. /\ arches' = wanted /\ scratch' = made /\ published' = published
        /\ \A a \in ToSet(wanted) : made[a] \in Outcomes[a]
    BY DEF BuildAll, progress
  <2>2. wanted \in Seq(Arches) /\ DOMAIN made = ToSet(wanted)
    BY RequestsAssumption
  <2>3. wanted \in Seq(ToSet(wanted)) /\ ToSet(wanted) \subseteq Arches
    BY <2>2 DEF ToSet
  <2>4. published = {}
    BY <1>1 DEF FilesInv, ArchesInv
  <2>. QED
    BY <2>1, <2>2, <2>3, <2>4, OutcomesAssumption DEF ArchesInv
<1>4. DirsInv'
  BY <1>1, DirsStay DEF FilesInv, Course, BuildAll
<1>5. NamesInv'
  BY <1>1 DEF FilesInv, NamesInv, BuildAll, progress
<1>. QED
  BY <1>2, <1>3, <1>4, <1>5 DEF FilesInv

LEMMA NewPublishDirKeeps ==
  ASSUME FilesInv, NewPublishDir
  PROVE  FilesInv'
<1>1. /\ stage = "link" /\ stage' = "binary" /\ build' = build /\ base' = base /\ current' = current
      /\ data' = data /\ build \notin DOMAIN dirs /\ build \in Nat \ {0} /\ DirsInv
  BY DEF NewPublishDir, Goto, steady, FilesInv, Course, Preparing
<1>. DEFINE kept == OfSeries(DOMAIN dirs[current])
            new == IF current = 0 THEN <<>> ELSE Restrict(dirs[current], kept)
<1>2. /\ DOMAIN dirs' = DOMAIN dirs \cup {build} /\ dirs' = [n \in DOMAIN dirs' |-> dirs'[n]]
      /\ dirs'[build] = new /\ \A n \in DOMAIN dirs : dirs'[n] = dirs[n]
  BY <1>1 DEF NewPublishDir
<1>3. \/ DOMAIN new = {}
      \/ /\ current \in DOMAIN dirs /\ DOMAIN new = kept
         /\ \A m \in DOMAIN new : new[m] = dirs[current][m]
  BY DEF FilesInv, Course, Restrict, OfSeries
<1>4. new = [m \in DOMAIN new |-> new[m]]
  <2>1. CASE current = 0
    <3>1. <<>> \in [1 .. 0 -> {}]
      OBVIOUS
    <3>. QED
      BY <2>1, <3>1
  <2>2. CASE current # 0
    BY <2>2 DEF Restrict
  <2>. QED
    BY <2>1, <2>2
<1>5. Course'
  BY <1>1, <1>2 DEF FilesInv, Course, Preparing, Filling
<1>6. ArchesInv'
  BY <1>1 DEF FilesInv, ArchesInv, NewPublishDir, steady, progress, Preparing
<1>7. kept \subseteq DOMAIN dirs[current]
      /\ \A m \in kept : m[1] \notin SumsFiles \cup {"report"}
  BY DEF OfSeries
<1>. HIDE DEF kept, new
<1>8. DirsInv'
  <2>1. ASSUME NEW n \in DOMAIN dirs'
        PROVE  /\ dirs'[n] = [m \in DOMAIN dirs'[n] |-> dirs'[n][m]]
               /\ \A m \in DOMAIN dirs'[n] : dirs'[n][m] \in 1 .. n /\ <<dirs'[n][m], m>> \in DOMAIN data
               /\ MarksEmpty(Dir(n)')
    <3>1. CASE n = build
      <4>1. ASSUME NEW m \in DOMAIN new
            PROVE  /\ new[m] \in 1 .. n /\ <<new[m], m>> \in DOMAIN data
                   /\ m[2] = "OVERSIZED" => data[<<new[m], m>>] = EmptyFile
        <5>1. current \in DOMAIN dirs /\ m \in DOMAIN dirs[current] /\ new[m] = dirs[current][m]
          BY <1>3, <1>7
        <5>2. current \in 1 .. build /\ dirs[current][m] \in 1 .. current
          BY <1>1, <5>1 DEF DirsInv
        <5>3. dirs[current][m] \in 1 .. n
          BY <1>1, <3>1, <5>2
        <5>. QED
          BY <1>1, <5>1, <5>3 DEF DirsInv, MarksEmpty, Dir, At
      <4>. QED
        BY <1>1, <1>2, <1>4, <3>1, <4>1 DEF MarksEmpty, Dir, At
    <3>2. CASE n # build
      BY <1>1, <1>2, <3>2 DEF DirsInv, MarksEmpty, Dir, At
    <3>. QED
      BY <3>1, <3>2
  <2>2. DOMAIN dirs' \subseteq 1 .. build'
    BY <1>1, <1>2 DEF DirsInv
  <2>. QED
    BY <1>1, <1>2, <2>1, <2>2 DEF DirsInv
<1>9. NamesInv'
  BY <1>1, <1>2, <1>3, <1>7 DEF FilesInv, NamesInv, NewPublishDir, progress
<1>. QED
  BY <1>5, <1>6, <1>8, <1>9 DEF FilesInv

(* Where no file changes.                                                      *)
Rest ==
    /\ UNCHANGED <<files, build, base, scratch>>
    /\ \/ UNCHANGED <<stage, arches, published, left, current>>
       \/ PrepareCheckInstallable \/ CheckInstallable \/ AllMoved \/ MergeAll
       \/ MakeWebIndices \/ UnlinkCurrent \/ Symlink \/ WriteManifest \/ PostQA \/ Crash
       \/ stage \in {"report", "copy"} /\ stage' \in {"idle", "copy"}
          /\ UNCHANGED <<arches, current>> /\ left' \subseteq left
          /\ published' = IF stage' = "idle" THEN {} ELSE published

LEMMA RestKeeps ==
  ASSUME FilesInv, Rest
  PROVE  FilesInv'
<1>1. build' = build /\ base' = base /\ scratch' = scratch /\ dirs' = dirs /\ UNCHANGED files
  BY DEF Rest, files
<1>2. Course'
  <2>1. CASE UNCHANGED <<stage, current>>
    BY <1>1, <2>1 DEF FilesInv, Course
  <2>2. CASE PrepareCheckInstallable \/ CheckInstallable
    BY <1>1, <2>2 DEF FilesInv, Course, PrepareCheckInstallable, CheckInstallable, Goto, Preparing, Filling
  <2>3. CASE AllMoved \/ MergeAll \/ MakeWebIndices
    BY <1>1, <2>3 DEF FilesInv, Course, AllMoved, MergeAll, MakeWebIndices, End, Raise, Goto, Preparing, Filling
  <2>4. CASE UnlinkCurrent \/ Symlink
    BY <1>1, <2>4 DEF FilesInv, Course, UnlinkCurrent, Symlink, Goto, Preparing, Filling
  <2>5. CASE WriteManifest \/ PostQA \/ Crash
    BY <1>1, <2>5 DEF FilesInv, Course, WriteManifest, PostQA, Crash, End, Raise, Goto, Preparing, Filling
  <2>6. CASE stage \in {"report", "copy"} /\ stage' \in {"idle", "copy"} /\ current' = current
    BY <1>1, <2>6 DEF FilesInv, Course, Preparing, Filling
  <2>. QED
    BY <2>1, <2>2, <2>3, <2>4, <2>5, <2>6 DEF Rest
<1>3. ArchesInv'
  <2>1. CASE UNCHANGED <<stage, arches, published>>
    BY <1>1, <2>1 DEF FilesInv, ArchesInv
  <2>2. CASE PrepareCheckInstallable \/ CheckInstallable
    BY <1>1, <2>2 DEF FilesInv, ArchesInv, PrepareCheckInstallable, CheckInstallable, Goto, progress, Preparing
  <2>3. CASE AllMoved \/ MergeAll \/ MakeWebIndices
    BY <1>1, <2>3 DEF FilesInv, ArchesInv, AllMoved, MergeAll, MakeWebIndices, End, Raise, Goto, progress, Preparing
  <2>4. CASE UnlinkCurrent \/ Symlink
    BY <1>1, <2>4 DEF FilesInv, ArchesInv, UnlinkCurrent, Symlink, Goto, progress, Preparing
  <2>5. CASE WriteManifest \/ PostQA \/ Crash
    BY <1>1, <2>5 DEF FilesInv, ArchesInv, WriteManifest, PostQA, Crash, End, Raise, Goto, progress, Preparing
  <2>6. CASE /\ stage' \in {"idle", "copy"} /\ arches' = arches
             /\ published' = IF stage' = "idle" THEN {} ELSE published
    BY <1>1, <2>6 DEF FilesInv, ArchesInv, Preparing
  <2>. QED
    BY <2>1, <2>2, <2>3, <2>4, <2>5, <2>6 DEF Rest
<1>4. DirsInv'
  BY <1>1, DirsStay DEF FilesInv, Course
<1>5. NamesInv'
  <2>1. CASE UNCHANGED <<stage, left>>
    BY <1>1, <2>1, NextStays DEF FilesInv, NamesInv
  <2>2. CASE PrepareCheckInstallable \/ CheckInstallable
    BY <1>1, <2>2 DEF FilesInv, NamesInv, PrepareCheckInstallable, CheckInstallable, Goto, progress
  <2>3. CASE AllMoved \/ MakeWebIndices
    BY <1>1, <2>3 DEF FilesInv, NamesInv, AllMoved, MakeWebIndices, End, Raise, Goto, progress
  <2>4. CASE MergeAll
    <3>1. \A f \in SumsFiles : GpgName(f) \notin DOMAIN dirs[build]
      BY <2>4 DEF FilesInv, NamesInv, MergeAll, GpgName
    <3>. QED
      BY <1>1, <2>4, <3>1 DEF NamesInv, MergeAll, Goto, GpgName
  <2>5. CASE UnlinkCurrent \/ Symlink
    BY <1>1, <2>5 DEF FilesInv, NamesInv, UnlinkCurrent, Symlink, Goto, progress
  <2>6. CASE WriteManifest \/ PostQA \/ Crash
    BY <1>1, <2>6 DEF FilesInv, NamesInv, WriteManifest, PostQA, Crash, End, Raise, Goto, progress
  <2>7. CASE stage \in {"report", "copy"} /\ stage' \in {"idle", "copy"} /\ left' \subseteq left
    BY <1>1, <2>7 DEF FilesInv, NamesInv
  <2>. QED
    BY <2>1, <2>2, <2>3, <2>4, <2>5, <2>6, <2>7 DEF Rest
<1>. QED
  BY <1>2, <1>3, <1>4, <1>5 DEF FilesInv

(* Where the directory of the build is filled.                                 *)
LEMMA FillingKeeps ==
  ASSUME FilesInv, NEW names, Fills(names), MarksEmpty(There),
         stage \in Filling \ {"manifest", "post-qa"},
         stage' \in {"idle"} \cup (Filling \ {"symlink", "manifest", "post-qa"}),
         UNCHANGED <<scratch, base, current>>, arches' \in Seq(DOMAIN scratch),
         published' \subseteq DOMAIN scratch, stage' = "idle" => published' = {},
         stage # "symlink", NamesInv'
  PROVE  FilesInv'
<1>1. Course'
  BY DEF FilesInv, Course, Fills, Preparing, Filling
<1>2. ArchesInv'
  BY DEF FilesInv, ArchesInv, Preparing, Filling
<1>3. DirsInv'
  BY FillsDirs DEF FilesInv, Course
<1>. QED
  BY <1>1, <1>2, <1>3 DEF FilesInv

LEMMA ThereHas ==
  ASSUME NEW names, Fills(names)
  PROVE  /\ DOMAIN dirs'[build'] = DOMAIN There.names /\ dirs'[build'] = There.names
         /\ DOMAIN dirs'[build'] \subseteq DOMAIN dirs[build] \cup names
         /\ \A m \in DOMAIN dirs[build] \ names :
                m \in DOMAIN dirs'[build'] /\ dirs'[build'][m] = dirs[build][m]
  BY DEF Fills, There, Here, Changed

LEMMA PublishBinaryKeeps ==
  ASSUME FilesInv, PublishBinary
  PROVE  FilesInv'
<1>. DEFINE a == Head(arches)
<1>1. Fills(Touched(a)) /\ MarksEmpty(There)
  BY PublishBinaryFiles, BinaryMarks
<1>2. /\ stage = "binary" /\ stage' \in {"binary", "idle"} /\ (stage' = "idle" => published' = {})
      /\ UNCHANGED <<scratch, base, current>> /\ arches' = Tail(arches) /\ arches # <<>>
      /\ published' \subseteq published \cup {a} /\ left' \subseteq left
  BY DEF PublishBinary, Raise, End, Goto, steady, progress
<1>3. a \in DOMAIN scratch /\ Tail(arches) \in Seq(DOMAIN scratch)
  BY <1>2, HeadOfArches DEF FilesInv
<1>4. published' \subseteq DOMAIN scratch
  BY <1>2, <1>3 DEF FilesInv, ArchesInv
<1>5. NamesInv'
  <2>1. a \in Arches
    BY <1>3 DEF FilesInv, ArchesInv
  <2>2. \A m \in Touched(a) : m[1] \notin SumsFiles \cup {"report"}
    BY <2>1, TouchedIsOf, NamesAssumption
  <2>3. \A m \in DOMAIN dirs'[build'] : m[1] \notin SumsFiles \cup {"report"}
    BY <1>1, <1>2, <2>2, ThereHas DEF FilesInv, NamesInv
  <2>. QED
    BY <1>2, <2>3 DEF FilesInv, NamesInv
<1>. HIDE DEF a
<1>. QED
  BY <1>1, <1>2, <1>3, <1>4, <1>5, FillingKeeps DEF Filling

LEMMA ReportKeeps ==
  ASSUME FilesInv, TestReport \/ CopyReport
  PROVE  FilesInv'
<1>1. /\ stage \in {"report", "copy"} /\ stage' \in {"copy", "merge", "idle"}
      /\ UNCHANGED <<scratch, base, build, arches, current>> /\ left' \subseteq left
      /\ published' = IF stage' = "idle" THEN {} ELSE published
  BY DEF TestReport, CopyReport, Raise, End, Goto, steady, progress
<1>2. CASE UNCHANGED files /\ stage' \in {"copy", "idle"}
  BY <1>1, <1>2, RestKeeps DEF Rest
<1>3. CASE Fills({Html}) /\ stage' = "merge"
  <2>1. MarksEmpty(There)
    BY <1>3, FillsOther DEF FilesInv, Html
  <2>2. \A m \in DOMAIN dirs'[build'] : m[1] \notin SumsFiles
    <3>1. "report" \notin SumsFiles
      BY NamesAssumption
    <3>. QED
      BY <1>1, <1>3, <3>1, ThereHas DEF FilesInv, NamesInv, Html
  <2>3. NamesInv'
    BY <1>1, <1>3, <2>2 DEF FilesInv, NamesInv
  <2>4. published' \subseteq DOMAIN scratch /\ arches' \in Seq(DOMAIN scratch)
    BY <1>1 DEF FilesInv, ArchesInv
  <2>. QED
    BY <1>1, <1>3, <2>1, <2>3, <2>4, FillingKeeps DEF Filling
<1>. QED
  BY <1>2, <1>3, TestReportFiles, CopyReportFiles

LEMMA SumsKeeps ==
  ASSUME FilesInv, WriteSums \/ RemoveSums \/ OpenSignature \/ SignCdimage
  PROVE  FilesInv'
<1>1. /\ stage \in {"write", "sign", "gpg"} /\ stage' \in {"write", "sign", "gpg", "idle"}
      /\ UNCHANGED <<scratch, base, arches, current>>
      /\ published' \subseteq published /\ left' \subseteq left /\ (stage' = "idle" => published' = {})
  BY DEF WriteSums, RemoveSums, OpenSignature, SignCdimage, GpgFails, Raise, End, Goto, steady,
     progress
<1>2. left # {} /\ NextSums \in left /\ left \subseteq SumsFiles
  BY NextIsLeft DEF FilesInv, NamesInv, WriteSums, RemoveSums, OpenSignature, SignCdimage
<1>3. PICK f : f = NextSums
  OBVIOUS
<1>4. published' \subseteq DOMAIN scratch /\ arches' \in Seq(DOMAIN scratch)
  BY <1>1 DEF FilesInv, ArchesInv
<1>5. SumsName(f) # GpgName(f) /\ \A g : g # f => GpgName(g) # SumsName(f) /\ GpgName(g) # GpgName(f)
  BY DEF SumsName, GpgName
<1>6. CASE WriteSums
  <2>1. Fills({SumsName(f)}) /\ DOMAIN There.names = DOMAIN dirs[build] \cup {SumsName(f)}
    BY <1>3, <1>6, WriteSumsFiles
  <2>2. MarksEmpty(There)
    BY <2>1, FillsOther DEF FilesInv, SumsName
  <2>3. \A g \in left : GpgName(g) \notin DOMAIN dirs'[build']
    <3>1. \A g \in left : GpgName(g) \notin DOMAIN dirs[build] /\ GpgName(g) # SumsName(f)
      BY <1>6 DEF FilesInv, NamesInv, WriteSums, GpgName, SumsName
    <3>. QED
      BY <2>1, <3>1, ThereHas
  <2>4. stage' = "write" \/ (stage' = "sign" /\ left' = left)
    BY <1>6 DEF WriteSums, Goto
  <2>5. NamesInv'
    <3>1. CASE stage' = "write"
      BY <1>1, <1>2, <2>3, <3>1 DEF NamesInv, GpgName
    <3>2. CASE stage' = "sign" /\ left' = left
      <4>1. NextSums' = f /\ SumsName(f) \in DOMAIN dirs'[build']
        BY <1>3, <2>1, <3>2, NextStays, ThereHas
      <4>. QED
        BY <1>1, <1>2, <2>3, <3>2, <4>1 DEF NamesInv, GpgName, SumsName
    <3>. QED
      BY <2>4, <3>1, <3>2
  <2>. QED
    BY <1>1, <1>4, <2>1, <2>2, <2>5, FillingKeeps DEF Filling
<1>9. CASE RemoveSums
  <2>1. Fills({SumsName(f)}) /\ DOMAIN There.names = DOMAIN dirs[build] \ {SumsName(f)}
    BY <1>3, <1>9, RemoveSumsFiles
  <2>2. MarksEmpty(There)
    BY <2>1, FillsOther DEF FilesInv, SumsName
  <2>3. \A g \in left : GpgName(g) \notin DOMAIN dirs'[build']
    <3>1. \A g \in left : GpgName(g) \notin DOMAIN dirs[build] /\ GpgName(g) # SumsName(f)
      BY <1>9 DEF FilesInv, NamesInv, RemoveSums, GpgName, SumsName
    <3>. QED
      BY <2>1, <3>1, ThereHas
  <2>4. NamesInv'
    BY <1>1, <1>2, <1>9, <2>3 DEF NamesInv, GpgName, RemoveSums
  <2>. QED
    BY <1>1, <1>4, <2>1, <2>2, <2>4, FillingKeeps DEF Filling
<1>7. CASE OpenSignature
  <2>1. /\ Fills({GpgName(f)}) /\ DOMAIN There.names = DOMAIN dirs[build] \cup {GpgName(f)}
        /\ There.names[GpgName(f)] = build
    BY <1>3, <1>7, OpenSignatureFiles
  <2>2. MarksEmpty(There)
    BY <2>1, FillsOther DEF FilesInv, GpgName
  <2>3. stage' = "gpg" /\ stage = "sign" /\ left' = left /\ build' = build /\ NextSums' = f
    BY <1>3, <1>7, NextStays DEF OpenSignature, Goto, progress, steady
  <2>4. \A g \in left \ {f} : GpgName(g) \notin DOMAIN dirs'[build']
    <3>1. \A g \in left : GpgName(g) \notin DOMAIN dirs[build]
      BY <2>3 DEF FilesInv, NamesInv, GpgName
    <3>. QED
      BY <1>5, <2>1, <3>1, ThereHas
  <2>5. /\ SumsName(f) \in DOMAIN dirs'[build'] /\ GpgName(f) \in DOMAIN dirs'[build']
        /\ dirs'[build'][GpgName(f)] = build'
    <3>1. SumsName(f) \in DOMAIN dirs[build]
      BY <1>3, <2>3 DEF FilesInv, NamesInv, SumsName
    <3>. QED
      BY <1>5, <2>1, <2>3, <3>1, ThereHas
  <2>6. NamesInv'
    BY <1>2, <2>3, <2>4, <2>5 DEF NamesInv, GpgName, SumsName
  <2>. QED
    BY <1>1, <1>4, <2>1, <2>2, <2>6, FillingKeeps DEF Filling
<1>8. CASE SignCdimage
  <2>1. /\ Fills({GpgName(f)}) /\ DOMAIN There.names \subseteq DOMAIN dirs[build]
        /\ \/ stage' = "write" /\ left' = left \ {f}
           \/ stage' = "idle"
    BY <1>3, <1>8, SignCdimageFiles
  <2>2. MarksEmpty(There)
    BY <2>1, FillsOther DEF FilesInv, GpgName
  <2>3. \A g \in left \ {f} : GpgName(g) \notin DOMAIN dirs'[build']
    <3>1. \A g \in left \ {f} : GpgName(g) \notin DOMAIN dirs[build]
      BY <1>3, <1>8 DEF FilesInv, NamesInv, GpgName, SignCdimage
    <3>. QED
      BY <2>1, <3>1, ThereHas
  <2>4. NamesInv'
    BY <1>1, <1>2, <2>1, <2>3 DEF NamesInv, GpgName
  <2>. QED
    BY <1>1, <1>4, <2>1, <2>2, <2>4, FillingKeeps DEF Filling
<1>. QED
  BY <1>6, <1>7, <1>8, <1>9

(* Every step starts a build, begins or fills its directory, or leaves files   *)
(* alone.                                                                      *)
FillStep ==
    \/ PublishBinary \/ TestReport \/ CopyReport
    \/ WriteSums \/ RemoveSums \/ OpenSignature \/ SignCdimage

LEMMA Steps ==
  ASSUME [Next]_vars
  PROVE  \/ \E wanted \in Requests :
                \E made \in [ToSet(wanted) -> UNION Range(Outcomes)] : BuildAll(wanted, made)
         \/ NewPublishDir \/ FillStep \/ Rest
<1>1. CASE Publish
  BY <1>1 DEF Publish, FillStep, Rest, PrepareCheckInstallable, CheckInstallable, AllMoved,
       MergeAll, MakeWebIndices, UnlinkCurrent, Symlink, WriteManifest, PostQA, files, steady
<1>2. CASE Rptprobs \/ OtherSeriesChecks \/ Crash
  BY <1>2 DEF Rest, Rptprobs, OtherSeriesChecks, Crash, files, steady, progress
<1>3. CASE UNCHANGED vars
  BY <1>3 DEF Rest, vars, publishVars, files
<1>. QED
  BY <1>1, <1>2, <1>3 DEF Next

LEMMA FilesNext == FilesInv /\ [Next]_vars => FilesInv'
  BY Steps, BuildAllKeeps, NewPublishDirKeeps, PublishBinaryKeeps, ReportKeeps, SumsKeeps,
     RestKeeps DEF FillStep

LEMMA FilesAlways == Spec => []FilesInv
  BY FilesInit, FilesNext, PTL DEF Spec

-----------------------------------------------------------------------------
(* Earlier builds.                                                             *)

(* What a build fills belongs to one of its architectures, or to no image.     *)
NoImages == SumsFiles \cup {"report"}

LEMMA FillStepFills ==
  ASSUME FilesInv, FillStep
  PROVE  \/ UNCHANGED files
         \/ \E names : Fills(names) /\ \A m \in names : m[1] \in DOMAIN scratch \cup NoImages
<1>1. CASE PublishBinary
  <2>1. Fills(Touched(Head(arches))) /\ Head(arches) \in DOMAIN scratch
    BY <1>1, PublishBinaryFiles, HeadOfArches DEF FilesInv, PublishBinary
  <2>. QED
    BY <2>1, TouchedIsOf
<1>2. CASE TestReport \/ CopyReport
  BY <1>2, TestReportFiles, CopyReportFiles DEF Html, NoImages
<1>3. CASE WriteSums \/ RemoveSums \/ OpenSignature \/ SignCdimage
  <2>1. NextSums \in SumsFiles
    BY <1>3, NextIsLeft DEF FilesInv, NamesInv, WriteSums, RemoveSums, OpenSignature, SignCdimage
  <2>2. Fills({SumsName(NextSums)}) \/ Fills({GpgName(NextSums)})
    BY <1>3, WriteSumsFiles, RemoveSumsFiles, OpenSignatureFiles, SignCdimageFiles
  <2>. QED
    BY <2>1, <2>2 DEF SumsName, GpgName, NoImages
<1>. QED
  BY <1>1, <1>2, <1>3 DEF FillStep

(* In every step, all directories but the one that the build has then keep     *)
(* their files.                                                                *)
LEMMA OthersSame ==
  ASSUME FilesInv, [Next]_vars, NEW n \in DOMAIN dirs \ {build'}
  PROVE  SameFiles(Dir(n), Dir(n)') /\ n \in DOMAIN dirs'
<1>1. CASE dirs' = dirs /\ data' = data
  BY <1>1 DEF SameFiles, Dir, At
<1>2. CASE NewPublishDir
  <2>1. dirs'[n] = dirs[n] /\ n \in DOMAIN dirs' /\ data' = data
    BY <1>2 DEF NewPublishDir, steady
  <2>. QED
    BY <2>1 DEF SameFiles, Dir, At
<1>3. ASSUME NEW names, Fills(names) PROVE SameFiles(Dir(n), Dir(n)') /\ n \in DOMAIN dirs'
  <2>1. build' = build /\ DOMAIN dirs' = DOMAIN dirs
    BY <1>3 DEF Fills
  <2>. QED
    BY <1>3, <2>1, EarlierSame DEF FilesInv, Course
<1>4. ASSUME NEW wanted, NEW made, BuildAll(wanted, made) PROVE dirs' = dirs /\ data' = data
  BY <1>4 DEF BuildAll, files
<1>5. Rest => dirs' = dirs /\ data' = data
  BY DEF Rest, files
<1>6. FillStep => (dirs' = dirs /\ data' = data) \/ \E names : Fills(names)
  BY FillStepFills DEF files
<1>. QED
  BY <1>1, <1>2, <1>3, <1>4, <1>5, <1>6, Steps


(* No step changes a file in the directory of an earlier build, although these *)
(* directories share inodes with the one that is being filled, and the report, *)
(* the marks and the signatures are written into files that may be there       *)
(* (publish_binary, sign_cdimage).                                             *)
THEOREM EarlierBuildsKept == Spec => EarlierBuildsUnchanged
<1>. DEFINE Kept == \A n \in DOMAIN dirs \ {build'} : Contents(n)' = Contents(n)
<1>1. FilesInv /\ [Next]_vars => [Kept]_<<dirs, data>>
  <2>. SUFFICES ASSUME FilesInv, [Next]_vars, NEW n \in DOMAIN dirs \ {build'}
       PROVE  Contents(n)' = Contents(n)
    OBVIOUS
  <2>1. SameFiles(Dir(n), Dir(n)') /\ n \in DOMAIN dirs'
    BY OthersSame
  <2>2. Contents(n) = [m \in DOMAIN Dir(n).names |-> At(Dir(n), m)]
    BY DEF Contents, Dir, At
  <2>3. Contents(n)' = [m \in DOMAIN Dir(n)'.names |-> At(Dir(n)', m)]
    BY DEF Contents, Dir, At
  <2>. QED
    BY <2>1, <2>2, <2>3 DEF SameFiles
<1>. QED
  BY <1>1, FilesAlways, PTL DEF Spec, EarlierBuildsUnchanged

LEMMA OthersOld ==
  ASSUME FilesInv, [Next]_vars, NEW n \in DOMAIN dirs' \ {build'}
  PROVE  n \in DOMAIN dirs
<1>1. ASSUME NEW wanted, NEW made, BuildAll(wanted, made) PROVE dirs' = dirs
  BY <1>1 DEF BuildAll, files
<1>2. CASE NewPublishDir
  BY <1>2 DEF NewPublishDir, steady
<1>3. FillStep => dirs' = dirs \/ DOMAIN dirs' = DOMAIN dirs
  BY FillStepFills DEF files, Fills
<1>4. Rest => dirs' = dirs
  BY DEF Rest, files
<1>. QED
  BY <1>1, <1>2, <1>3, <1>4, Steps

(* What holds of the files of a build, and not of the state, is left to check  *)
(* for the directory that the build has after the step.                        *)
LEMMA SameDir ==
  ASSUME NEW n, n = build, build' = build
  PROVE  /\ There = Dir(n)' /\ Here = Dir(n)
         /\ UNCHANGED files => Dir(n)' = Dir(n)
  BY DEF Here, There, Dir, files

-----------------------------------------------------------------------------
(* The report is of this build: the packages that are checked, the report that *)
(* the check writes, and the copies of it that are published.                  *)
OnBuild(on, n) == \A of \in Range(on) : of[2] = n
ReportOk(fs, n) == Html \in DOMAIN fs.names => OnBuild(At(fs, Html).on, n)

ReportInv ==
    /\ stage \in {"check", "link", "binary", "report", "copy"} =>
           OnBuild(packages, build) /\ (report # NoReport => OnBuild(report.on, build))
    /\ \A n \in DOMAIN dirs : ReportOk(Dir(n), n)

LEMMA ReportInit == Init => ReportInv
  BY DEF Init, ReportInv

LEMMA PackagesAreNew == OnBuild(AddPackages(MkEmptyDir(packages)), build)
<1>. DEFINE cpus == {CpuArch[a] : a \in ToSet(arches)}
            last == [c \in cpus |-> arches[Max({i \in DOMAIN arches : CpuArch[arches[i]] = c})]]
            found == {c \in cpus : Raw(last[c]) # NoImage}
            new == [c \in found |-> <<last[c], build>>]
<1>1. DOMAIN MkEmptyDir(packages) = {}
  <2>1. <<>> \in [1 .. 0 -> {}]
    OBVIOUS
  <2>. QED
    BY <2>1 DEF MkEmptyDir
<1>2. AddPackages(MkEmptyDir(packages)) =
        [c \in (DOMAIN MkEmptyDir(packages) \ cpus) \cup found |->
            IF c \in found THEN <<last[c], build>> ELSE MkEmptyDir(packages)[c]]
  BY DEF AddPackages
<1>. HIDE DEF cpus, last, found
<1>. QED
  BY <1>1, <1>2 DEF OnBuild, Range

LEMMA OwnReportOk ==
  ASSUME FilesInv, ReportInv, [Next]_vars, build' \in DOMAIN dirs', NEW n, n = build'
  PROVE  ReportOk(Dir(n)', n)
<1>1. ASSUME NEW wanted, NEW made, BuildAll(wanted, made) PROVE FALSE
  BY <1>1 DEF BuildAll, files, FilesInv, Course, DirsInv
<1>2. CASE NewPublishDir
  <2>1. \A m \in DOMAIN dirs'[n] : m[1] # "report"
    BY <1>2, NewPublishDirKeeps DEF FilesInv, NamesInv, NewPublishDir, Goto
  <2>. QED
    BY <2>1 DEF ReportOk, Dir, Html
<1>3. CASE Rest
  <2>1. build' = build /\ n \in DOMAIN dirs /\ UNCHANGED files
    BY <1>3 DEF Rest, files
  <2>. QED
    BY <2>1, SameDir DEF ReportInv
<1>4. ASSUME NEW names, Fills(names), Html \notin names PROVE ReportOk(Dir(n)', n)
  <2>1. build' = build /\ n = build /\ n \in DOMAIN dirs
    BY <1>4 DEF Fills
  <2>2. ReportOk(Here, n) /\ There = Dir(n)' /\ Here.names = dirs[build]
    BY <2>1, SameDir DEF ReportInv, Here
  <2>3. Html \in DOMAIN There.names => Html \in DOMAIN Here.names /\ At(There, Html) = At(Here, Html)
    BY <1>4, <2>2, FillsSame DEF FilesInv, Fills, Changed
  <2>. QED
    BY <2>2, <2>3 DEF ReportOk
<1>5. CASE PublishBinary
  <2>1. \A m \in DOMAIN dirs'[build'] : m[1] # "report"
    <3>1. Head(arches) \in Arches
      BY <1>5, HeadOfArches DEF FilesInv, ArchesInv, PublishBinary
    <3>2. \A m \in Touched(Head(arches)) : m[1] # "report"
      BY <3>1, TouchedIsOf, NamesAssumption
    <3>3. Fills(Touched(Head(arches)))
      BY <1>5, PublishBinaryFiles
    <3>. QED
      BY <1>5, <3>2, <3>3, ThereHas DEF FilesInv, NamesInv, PublishBinary
  <2>. QED
    BY <2>1 DEF ReportOk, Dir, Html
<1>6. CASE TestReport \/ CopyReport
  <2>1. CASE UNCHANGED files
    BY <1>6, <2>1, SameDir DEF ReportInv, TestReport, CopyReport, steady, files
  <2>2. CASE Fills({Html}) /\ Html \notin DOMAIN There.names
    BY <2>2, SameDir DEF ReportOk, Fills
  <2>3. CASE Fills({Html}) /\ CopyReport /\ At(There, Html) = report /\ stage' = "merge"
    <3>1. OnBuild(report.on, build) /\ build' = build
      BY <2>3 DEF ReportInv, CopyReport, Fills, Raise, End, Goto
    <3>. QED
      BY <2>3, <3>1, SameDir DEF ReportOk
  <2>. QED
    BY <1>6, <2>1, <2>2, <2>3, TestReportFiles, CopyReportFiles
<1>7. CASE WriteSums \/ RemoveSums
  <2>1. Fills({SumsName(NextSums)}) /\ Html # SumsName(NextSums)
    BY <1>7, WriteSumsFiles, RemoveSumsFiles DEF Html, SumsName
  <2>. QED
    BY <1>4, <2>1
<1>8. CASE OpenSignature \/ SignCdimage
  <2>1. Fills({GpgName(NextSums)}) /\ Html # GpgName(NextSums)
    BY <1>8, OpenSignatureFiles, SignCdimageFiles DEF Html, GpgName
  <2>. QED
    BY <1>4, <2>1
<1>. QED
  BY <1>1, <1>2, <1>3, <1>5, <1>6, <1>7, <1>8, Steps DEF FillStep

LEMMA ReportsInProgress ==
  ASSUME ReportInv, [Next]_vars, stage' \in {"check", "link", "binary", "report", "copy"}
  PROVE  OnBuild(packages', build') /\ (report' # NoReport => OnBuild(report'.on, build'))
<1>1. ASSUME NEW wanted, NEW made, BuildAll(wanted, made) PROVE FALSE
  BY <1>1 DEF BuildAll, Goto
<1>2. CASE PrepareCheckInstallable
  <2>1. packages' = AddPackages(MkEmptyDir(packages)) /\ build' = build /\ report' = NoReport
    BY <1>2 DEF PrepareCheckInstallable, steady
  <2>. QED
    BY <2>1, PackagesAreNew
<1>3. CASE Rptprobs
  <2>1. /\ stage = stage' /\ build' = build /\ packages' = packages
        /\ report' = report \/ report' \in {Report(TRUE, packages), Report(FALSE, packages)}
    BY <1>3 DEF Rptprobs, steady
  <2>. QED
    BY <2>1 DEF ReportInv, Report
<1>4. CASE OtherSeriesChecks
  BY <1>4 DEF ReportInv, OtherSeriesChecks, steady
<1>5. CASE CheckInstallable
  BY <1>5 DEF ReportInv, CheckInstallable, steady, checks
<1>6. CASE NewPublishDir \/ PublishBinary
  BY <1>6 DEF ReportInv, NewPublishDir, PublishBinary, steady, checks
<1>7. CASE AllMoved \/ TestReport \/ CopyReport
  BY <1>7 DEF ReportInv, AllMoved, TestReport, CopyReport, steady, checks
<1>8. CASE MergeAll \/ WriteSums \/ RemoveSums \/ OpenSignature \/ SignCdimage
  BY <1>8 DEF MergeAll, WriteSums, RemoveSums, OpenSignature, SignCdimage, GpgFails, Raise, End, Goto
<1>9. CASE MakeWebIndices \/ UnlinkCurrent \/ Symlink \/ WriteManifest \/ PostQA \/ Crash
  BY <1>9 DEF MakeWebIndices, UnlinkCurrent, Symlink, WriteManifest, PostQA, Crash, Raise, End, Goto
<1>10. CASE UNCHANGED vars
  BY <1>10 DEF ReportInv, vars, publishVars
<1>. QED
  BY <1>1, <1>2, <1>3, <1>4, <1>5, <1>6, <1>7, <1>8, <1>9, <1>10 DEF Next, Publish

LEMMA ReportNext == FilesInv /\ ReportInv /\ [Next]_vars => ReportInv'
<1>. SUFFICES ASSUME FilesInv, ReportInv, [Next]_vars PROVE ReportInv'
  OBVIOUS
<1>1. ASSUME NEW n \in DOMAIN dirs', n # build' PROVE ReportOk(Dir(n)', n)
  <2>1. n \in DOMAIN dirs /\ SameFiles(Dir(n), Dir(n)')
    BY <1>1, OthersOld, OthersSame
  <2>2. ReportOk(Dir(n), n)
    BY <2>1 DEF ReportInv
  <2>. QED
    BY <2>1, <2>2 DEF ReportOk, SameFiles
<1>2. \A n \in DOMAIN dirs' : ReportOk(Dir(n)', n)
  BY <1>1, OwnReportOk
<1>. QED
  BY <1>2, ReportsInProgress DEF ReportInv

(* The installability report in a directory is about the packages of its own   *)
(* build, although the report and its input stay on disk from build to build,  *)
(* another series may empty the report directory, and the check may be killed  *)
(* before it has written anything (check_installable).                         *)
THEOREM ReportsAreOwn == Spec => []ReportIsOfItsBuild
<1>1. ReportInv => ReportIsOfItsBuild
  <2>. SUFFICES ASSUME ReportInv, NEW n \in DOMAIN dirs, Html \in DOMAIN dirs[n]
       PROVE  OnBuild(Contents(n)[Html].on, n)
    BY DEF ReportIsOfItsBuild, Html, OnBuild
  <2>1. ReportOk(Dir(n), n)
    BY DEF ReportInv
  <2>2. Contents(n)[Html] = At(Dir(n), Html)
    BY DEF Contents, At, Dir
  <2>. QED
    BY <2>1, <2>2 DEF ReportOk, Dir
<1>. QED
  BY <1>1, ReportInit, ReportNext, FilesAlways, PTL DEF Spec

-----------------------------------------------------------------------------
(* What is carried over.  Between the directory that `current' led to and the  *)
(* one that is filled, only names of this build's architectures differ, and of *)
(* files that belong to no image.                                              *)
BaseNames == IF base = 0 THEN {} ELSE DOMAIN dirs[base]
Others(names) == {m \in names : m[1] \notin DOMAIN scratch \cup NoImages}

CarriedInv ==
    stage \in Filling =>
        /\ Others(DOMAIN dirs[build]) = Others(BaseNames)
        /\ \A m \in Others(BaseNames) : dirs[build][m] = dirs[base][m]

LEMMA CarriedInit == Init => CarriedInv
  BY DEF Init, CarriedInv, Filling

LEMMA CarriedNew ==
  ASSUME FilesInv, NewPublishDir
  PROVE  CarriedInv'
<1>1. /\ build' = build /\ base' = base /\ scratch' = scratch /\ current = base
      /\ base \in {0} \cup DOMAIN dirs /\ build \notin DOMAIN dirs
  BY DEF FilesInv, Course, NewPublishDir, steady, Preparing
<1>2. /\ base # 0 => dirs'[base] = dirs[base]
      /\ dirs'[build] = IF base = 0 THEN <<>>
                        ELSE Restrict(dirs[base], OfSeries(DOMAIN dirs[base]))
  BY <1>1 DEF NewPublishDir, FilesInv, DirsInv
<1>3. CASE base = 0
  <2>1. DOMAIN dirs'[build] = {}
    BY <1>2, <1>3
  <2>. QED
    BY <1>1, <1>3, <2>1 DEF CarriedInv, BaseNames, Others
<1>4. CASE base # 0
  <2>1. DOMAIN dirs'[build] = OfSeries(DOMAIN dirs[base])
        /\ \A m \in OfSeries(DOMAIN dirs[base]) : dirs'[build][m] = dirs[base][m]
    BY <1>2, <1>4 DEF Restrict, OfSeries
  <2>2. Others(DOMAIN dirs'[build]) = Others(DOMAIN dirs[base])
        /\ Others(DOMAIN dirs[base]) \subseteq OfSeries(DOMAIN dirs[base])
    BY <2>1 DEF OfSeries, Others, NoImages
  <2>. QED
    BY <1>1, <1>2, <1>4, <2>1, <2>2 DEF CarriedInv, BaseNames, Others
<1>. QED
  BY <1>3, <1>4

LEMMA CarriedFill ==
  ASSUME FilesInv, CarriedInv, FillStep
  PROVE  CarriedInv'
<1>1. UNCHANGED <<build, base, scratch>> /\ stage \in Filling
  BY DEF FillStep, PublishBinary, TestReport, CopyReport, WriteSums, RemoveSums, OpenSignature,
     SignCdimage,
         steady, Filling
<1>2. base \in {0} \cup (DOMAIN dirs \ {build}) /\ build \in DOMAIN dirs
  BY <1>1 DEF FilesInv, Course, Filling
<1>3. CASE UNCHANGED files
  BY <1>1, <1>3 DEF CarriedInv, BaseNames, Others, files
<1>4. ASSUME NEW names, Fills(names), \A m \in names : m[1] \in DOMAIN scratch \cup NoImages
      PROVE  CarriedInv'
  <2>1. base # 0 => dirs'[base] = dirs[base]
    BY <1>2, <1>4 DEF Fills
  <2>2. \A m \in DOMAIN dirs'[build] \ names : m \in DOMAIN dirs[build]
    BY <1>1, <1>4, ThereHas
  <2>3. \A m \in DOMAIN dirs[build] \ names : m \in DOMAIN dirs'[build] /\ dirs'[build][m] = dirs[build][m]
    BY <1>1, <1>4, ThereHas
  <2>4. Others(DOMAIN dirs'[build]) = Others(DOMAIN dirs[build])
    BY <1>4, <2>2, <2>3 DEF Others
  <2>5. Others(BaseNames)' = Others(BaseNames)
    BY <1>1, <2>1 DEF Others, BaseNames
  <2>6. Others(DOMAIN dirs[build])' = Others(DOMAIN dirs'[build])
    BY <1>1 DEF Others
  <2>7. \A m \in Others(BaseNames) : dirs'[build'][m] = dirs'[base'][m]
    <3>1. \A m \in Others(BaseNames) : m \notin names /\ m \in DOMAIN dirs[build] /\ base # 0
      BY <1>1, <1>4 DEF CarriedInv, Others, BaseNames
    <3>. QED
      BY <1>1, <2>1, <2>3, <3>1 DEF CarriedInv
  <2>. QED
    BY <1>1, <2>4, <2>5, <2>6, <2>7 DEF CarriedInv
<1>. QED
  BY <1>3, <1>4, FillStepFills

LEMMA CarriedNext == FilesInv /\ CarriedInv /\ [Next]_vars => CarriedInv'
<1>. SUFFICES ASSUME FilesInv, CarriedInv, [Next]_vars PROVE CarriedInv'
  OBVIOUS
<1>1. ASSUME NEW wanted, NEW made, BuildAll(wanted, made) PROVE CarriedInv'
  BY <1>1 DEF BuildAll, Goto, CarriedInv, Filling
<1>2. CASE Rest
  <2>1. UNCHANGED <<dirs, build, base, scratch>>
    BY <1>2 DEF Rest, files
  <2>2. stage' \in Filling => stage \in Filling
    BY <1>2 DEF Rest, PrepareCheckInstallable, CheckInstallable, AllMoved, MergeAll, MakeWebIndices,
       UnlinkCurrent, Symlink, WriteManifest, PostQA, Crash, Raise, End, Goto, Filling
  <2>. QED
    BY <2>1, <2>2 DEF CarriedInv, BaseNames, Others
<1>. QED
  BY <1>1, <1>2, CarriedNew, CarriedFill, Steps

LEMMA SymlinkOnly ==
  ASSUME FilesInv, [Next]_vars, current' # current, current' # 0
  PROVE  /\ stage = "symlink" /\ current' = build /\ stage \in Filling
         /\ build \in DOMAIN dirs /\ UNCHANGED <<files, build, base, scratch>>
<1>1. Symlink
  BY DEF Next, Publish, BuildAll, PrepareCheckInstallable, CheckInstallable, Rptprobs,
     OtherSeriesChecks, NewPublishDir, PublishBinary, AllMoved, TestReport, CopyReport, MergeAll,
     WriteSums, RemoveSums, OpenSignature, SignCdimage, MakeWebIndices, UnlinkCurrent,
     WriteManifest, PostQA,
     Crash, vars, publishVars
<1>. QED
  BY <1>1 DEF Symlink, steady, FilesInv, Course, Filling

(* A rebuild of some architectures carries over every file of all others, as   *)
(* it was in the build that `current' led to, and nothing else, whatever the   *)
(* builds and publications in between did (new_publish_dir, publish).          *)
THEOREM RebuildCarriesOver == Spec => OthersCarriedOver
<1>. DEFINE kept == {name \in OfSeries(DOMAIN dirs[base]) : name[1] \notin DOMAIN scratch}
            Carried == current' # current /\ current' # 0 /\ base # 0 =>
                         /\ kept \subseteq DOMAIN dirs[current']
                         /\ \A name \in kept : dirs[current'][name] = dirs[base][name]
                         /\ \A name \in OfSeries(DOMAIN dirs[current']) \ kept : name[1] \in DOMAIN scratch
<1>1. FilesInv /\ CarriedInv /\ [Next]_vars => [Carried]_current
  <2>. SUFFICES ASSUME FilesInv, CarriedInv, [Next]_vars, current' # current, current' # 0, base # 0
       PROVE  Carried
    OBVIOUS
  <2>1. current' = build /\ stage \in Filling
    BY SymlinkOnly
  <2>2. kept = Others(BaseNames)
    BY DEF Others, BaseNames, OfSeries, NoImages
  <2>3. \A name \in OfSeries(DOMAIN dirs[build]) : name[1] \notin DOMAIN scratch
            => name \in Others(DOMAIN dirs[build])
    BY DEF OfSeries, Others, NoImages
  <2>4. Others(DOMAIN dirs[build]) \subseteq DOMAIN dirs[build]
    BY DEF Others
  <2>. HIDE DEF kept
  <2>. QED
    BY <2>1, <2>2, <2>3, <2>4 DEF CarriedInv
<1>2. Spec => []CarriedInv
  BY CarriedInit, CarriedNext, FilesAlways, PTL DEF Spec
<1>. QED
  BY <1>1, <1>2, FilesAlways, PTL DEF Spec, OthersCarriedOver

-----------------------------------------------------------------------------
(* Images.  What is an image is named like one; it is of the directory's build *)
(* or of an earlier one, and the build's own images are those that             *)
(* publish_binary has moved, under the name of the kind it has found.          *)
Images(fs, n) ==
    \A m \in DOMAIN fs.names :
        /\ At(fs, m).is = "image" <=> IsImageName(m)
        /\ At(fs, m).is = "image" => At(fs, m).from \in 1 .. n

OwnImages(fs) ==
    /\ \A a \in published : /\ Raw(a) # NoImage /\ ImageName(a) \in DOMAIN fs.names
                            /\ At(fs, ImageName(a)) = Image(a)
    /\ \A m \in DOMAIN fs.names :
           At(fs, m).is = "image" /\ At(fs, m).from = build =>
               m[1] \in published /\ m = ImageName(m[1])

ImagesInv ==
    /\ report = NoReport \/ report.is = "report"
    /\ \A n \in DOMAIN dirs : Images(Dir(n), n)
    /\ stage \in Filling => OwnImages(Here)

LEMMA ImagesInit == Init => ImagesInv
  BY DEF Init, ImagesInv, Filling

LEMMA ImageNameIsOne ==
  ASSUME NEW a
  PROVE  IsImageName(ImageName(a)) /\ ImageName(a)[1] = a
<1>1. Len(ImageName(a)) = 2 /\ ImageName(a)[1] = a /\ ImageName(a)[2] = detect_image_extension(a)
  BY DEF ImageName
<1>. QED
  BY <1>1, ExtensionIsKind DEF IsImageName

LEMMA ScratchStays ==
  ASSUME UNCHANGED <<scratch, build>>, NEW a
  PROVE  /\ Raw(a)' = Raw(a) /\ ImageName(a)' = ImageName(a) /\ Image(a)' = Image(a)
         /\ TooLarge(a)' = TooLarge(a) /\ OldSums(a)' = OldSums(a)
  BY DEF Raw, ImageName, detect_image_extension, Image, TooLarge, OldSums

LEMMA NewDirFiles ==
  ASSUME FilesInv, NewPublishDir, NEW m \in DOMAIN There.names
  PROVE  /\ base \in DOMAIN dirs /\ base \in 1 .. build /\ base # build /\ m \in DOMAIN dirs[base]
         /\ At(There, m) = At(Dir(base), m) /\ m[1] \notin NoImages
<1>1. /\ build' = build /\ current = base /\ base \in {0} \cup DOMAIN dirs /\ base # build
      /\ DOMAIN dirs \subseteq 1 .. build /\ data' = data
  BY DEF FilesInv, Course, DirsInv, NewPublishDir, steady, Preparing
<1>2. dirs'[build] = IF base = 0 THEN <<>> ELSE Restrict(dirs[base], OfSeries(DOMAIN dirs[base]))
  BY <1>1 DEF NewPublishDir
<1>3. base # 0
  BY <1>2 DEF There
<1>4. m \in OfSeries(DOMAIN dirs[base]) /\ dirs'[build][m] = dirs[base][m]
  BY <1>2, <1>3 DEF There, Restrict, OfSeries
<1>. QED
  BY <1>1, <1>3, <1>4 DEF OfSeries, At, Dir, There, NoImages

(* The other steps that fill the directory add and remove no image.            *)
PlainFill(names) ==
    /\ Fills(names) /\ UNCHANGED <<scratch, base>>
    /\ \A m \in names : ~IsImageName(m) /\ ~WantImage(m) /\ m[1] \in NoImages
    /\ \A m \in names \cap DOMAIN There.names : At(There, m).is # "image"
    /\ \A f \in SumsFiles : SumsName(f) \in names \cap DOMAIN There.names =>
           stage = "write" /\ At(There, SumsName(f)) = Sums(entries)

LEMMA PlainNames ==
  ASSUME NEW f
  PROVE  /\ ~IsImageName(SumsName(f)) /\ ~WantImage(SumsName(f))
         /\ ~IsImageName(GpgName(f)) /\ ~WantImage(GpgName(f))
         /\ ~IsImageName(Html) /\ ~WantImage(Html)
         /\ \A g \in SumsFiles : SumsName(g) # Html /\ SumsName(g) # GpgName(f)
         /\ Html[1] \in NoImages
         /\ f \in SumsFiles => SumsName(f)[1] \in NoImages /\ GpgName(f)[1] \in NoImages
  BY DEF IsImageName, WantImage, WithSums, Kinds, Compressed, SumsName, GpgName, Html, NoImages

LEMMA PlainFills ==
  ASSUME FilesInv, ImagesInv, FillStep
  PROVE  PublishBinary \/ UNCHANGED files \/ \E names : PlainFill(names)
<1>1. CASE TestReport \/ CopyReport
  <2>1. UNCHANGED <<scratch, base>>
    BY <1>1 DEF TestReport, CopyReport, steady
  <2>2. CASE UNCHANGED files
    BY <2>2
  <2>3. CASE Fills({Html}) /\ DOMAIN There.names = DOMAIN dirs[build] \ {Html}
    BY <2>1, <2>3, PlainNames DEF PlainFill
  <2>4. CASE Fills({Html}) /\ At(There, Html) = report /\ CopyReport
    <3>1. report.is # "image"
      BY DEF ImagesInv, NoReport
    <3>. QED
      BY <2>1, <2>4, <3>1, PlainNames DEF PlainFill
  <2>. QED
    BY <1>1, <2>2, <2>3, <2>4, TestReportFiles, CopyReportFiles
<1>2. CASE WriteSums \/ RemoveSums \/ OpenSignature \/ SignCdimage
  <2>1. UNCHANGED <<scratch, base>>
    BY <1>2 DEF WriteSums, RemoveSums, OpenSignature, SignCdimage, steady
  <2>2. PICK f \in SumsFiles : f = NextSums
    BY <1>2, NextIsLeft DEF FilesInv, NamesInv, WriteSums, RemoveSums, OpenSignature, SignCdimage
  <2>3. CASE WriteSums
    <3>1. Fills({SumsName(f)}) /\ At(There, SumsName(f)) = Sums(entries)
      BY <2>2, <2>3, WriteSumsFiles
    <3>. QED
      BY <2>1, <2>3, <3>1, PlainNames DEF PlainFill, Sums, WriteSums
  <2>6. CASE RemoveSums
    <3>1. Fills({SumsName(f)}) /\ SumsName(f) \notin DOMAIN There.names
      BY <2>2, <2>6, RemoveSumsFiles
    <3>. QED
      BY <2>1, <3>1, PlainNames DEF PlainFill
  <2>4. CASE OpenSignature
    <3>1. Fills({GpgName(f)}) /\ At(There, GpgName(f)) = EmptyFile
      BY <2>2, <2>4, OpenSignatureFiles
    <3>. QED
      BY <2>1, <3>1, PlainNames DEF PlainFill, EmptyFile
  <2>5. CASE SignCdimage
    <3>1. /\ Fills({GpgName(f)})
          /\ \/ At(There, GpgName(f)) = Signature(At(Here, SumsName(f)))
             \/ GpgName(f) \notin DOMAIN There.names
      BY <2>2, <2>5, SignCdimageFiles
    <3>2. CASE At(There, GpgName(f)) = Signature(At(Here, SumsName(f)))
      BY <2>1, <3>1, <3>2, PlainNames DEF PlainFill, Signature
    <3>3. CASE GpgName(f) \notin DOMAIN There.names
      BY <2>1, <3>1, <3>3, PlainNames DEF PlainFill
    <3>. QED
      BY <3>1, <3>2, <3>3
  <2>. QED
    BY <1>2, <2>3, <2>4, <2>5, <2>6
<1>. QED
  BY <1>1, <1>2 DEF FillStep

LEMMA PlainImages ==
  ASSUME FilesInv, ImagesInv, stage \in Filling, NEW names, PlainFill(names)
  PROVE  /\ Images(There, build) /\ OwnImages(There)
         /\ {m \in DOMAIN There.names : WantImage(m)} = {m \in DOMAIN dirs[build] : WantImage(m)}
         /\ \A m \in DOMAIN There.names : IsImageName(m) \/ WantImage(m) =>
                m \in DOMAIN dirs[build] /\ At(There, m) = At(Here, m)
<1>1. /\ build \in DOMAIN dirs /\ DirsInv /\ Fills(names) /\ Here.names = dirs[build]
      /\ build' = build /\ dirs'[build'] = There.names
  BY ThereHas DEF FilesInv, Course, PlainFill, Here, Fills
<1>2. Images(Here, build) /\ OwnImages(Here)
  <2>1. Here = Dir(build)
    BY DEF Here, Dir
  <2>. QED
    BY <1>1, <2>1 DEF ImagesInv
<1>3. \A m \in DOMAIN There.names \ names : m \in DOMAIN dirs[build] /\ At(There, m) = At(Here, m)
  BY <1>1, FillsSame, ThereHas
<1>4. \A m \in DOMAIN dirs[build] \ names : m \in DOMAIN There.names
  BY <1>1, FillsSame
<1>5. \A m \in names : ~IsImageName(m) /\ ~WantImage(m) /\ (m \in DOMAIN There.names => At(There, m).is # "image")
  BY DEF PlainFill
<1>6. {m \in DOMAIN There.names : WantImage(m)} = {m \in DOMAIN dirs[build] : WantImage(m)}
  BY <1>3, <1>4, <1>5
<1>7. Images(There, build)
  BY <1>1, <1>2, <1>3, <1>5 DEF Images
<1>8. ASSUME NEW a \in published PROVE Raw(a) # NoImage /\ ImageName(a) \in DOMAIN There.names
                                       /\ At(There, ImageName(a)) = Image(a)
  <2>1. ImageName(a) \in DOMAIN dirs[build] \ names
    BY <1>1, <1>2, <1>5, ImageNameIsOne DEF OwnImages
  <2>. QED
    BY <1>2, <1>3, <1>4, <2>1 DEF OwnImages
<1>9. OwnImages(There)
  BY <1>1, <1>2, <1>3, <1>5, <1>8 DEF OwnImages
<1>. QED
  BY <1>3, <1>5, <1>6, <1>7, <1>9

LEMMA BinaryImages ==
  ASSUME FilesInv, ImagesInv, PublishBinary, NEW a, a = Head(arches)
  PROVE  /\ Images(There, build)
         /\ \A b \in published \ {a} : /\ Raw(b) # NoImage /\ ImageName(b) \in DOMAIN There.names
                                       /\ At(There, ImageName(b)) = Image(b)
         /\ \A m \in DOMAIN There.names :
                At(There, m).is = "image" /\ At(There, m).from = build =>
                    /\ m[1] \in published \cup {a} /\ m = ImageName(m[1])
                    /\ m[1] = a => Raw(a) # NoImage
<1>1. /\ build \in DOMAIN dirs /\ DirsInv /\ Here.names = dirs[build] /\ build \in Nat \ {0}
      /\ stage \in Filling /\ build' = build
  BY DEF FilesInv, Course, PublishBinary, Here, Filling, steady
<1>2. Images(Here, build) /\ OwnImages(Here)
  <2>1. Here = Dir(build)
    BY DEF Here, Dir
  <2>. QED
    BY <1>1, <2>1 DEF ImagesInv
<1>3. /\ Fills(Touched(a)) /\ NewOnly(Here, There, a)
      /\ Raw(a) = NoImage => \A m \in DOMAIN There.names : m[1] # a
      /\ Raw(a) # NoImage => At(There, ImageName(a)) = Image(a)
  BY PublishBinaryFiles
<1>4. IsImageName(ImageName(a)) /\ ImageName(a)[1] = a /\ Image(a).is = "image" /\ Image(a).from = build
  BY ImageNameIsOne DEF Image
<1>5. \A m \in DOMAIN There.names :
         \/ m = ImageName(a) /\ Raw(a) # NoImage /\ At(There, m) = Image(a)
         \/ m \in DOMAIN Here.names /\ At(There, m) = At(Here, m)
         \/ At(There, m).is # "image" /\ ~IsImageName(m)
  BY <1>3, <1>4 DEF NewOnly
<1>6. Images(There, build)
  <2>1. build \in 1 .. build
    BY <1>1
  <2>. QED
    BY <1>2, <1>4, <1>5, <2>1 DEF Images
<1>7. ASSUME NEW b \in published \ {a}
      PROVE  /\ Raw(b) # NoImage /\ ImageName(b) \in DOMAIN There.names
             /\ At(There, ImageName(b)) = Image(b)
  <2>1. ImageName(b) \notin Touched(a)
    BY ImageNameIsOne, TouchedIsOf
  <2>. QED
    BY <1>1, <1>2, <1>3, <2>1, FillsSame DEF OwnImages
<1>8. ASSUME NEW m \in DOMAIN There.names, At(There, m).is = "image", At(There, m).from = build
      PROVE  /\ m[1] \in published \cup {a} /\ m = ImageName(m[1])
             /\ m[1] = a => Raw(a) # NoImage
  <2>1. Raw(a) = NoImage => m[1] # a
    BY <1>3
  <2>2. m[1] \in published \cup {a} /\ m = ImageName(m[1])
    BY <1>2, <1>4, <1>5, <1>8 DEF OwnImages
  <2>. QED
    BY <2>1, <2>2
<1>. QED
  BY <1>6, <1>7, <1>8

LEMMA OwnImagesNext ==
  ASSUME FilesInv, ImagesInv, [Next]_vars, stage' \in Filling
  PROVE  OwnImages(Here)'
<1>1. ASSUME NEW wanted, NEW made, BuildAll(wanted, made) PROVE FALSE
  BY <1>1 DEF BuildAll, Goto, Filling
<1>. SUFFICES /\ build' = build /\ scratch' = scratch
              /\ \A a \in published' : /\ Raw(a) # NoImage /\ ImageName(a) \in DOMAIN There.names
                                      /\ At(There, ImageName(a)) = Image(a)
              /\ \A m \in DOMAIN There.names :
                     At(There, m).is = "image" /\ At(There, m).from = build =>
                         m[1] \in published' /\ m = ImageName(m[1])
  <2>1. Here' = [names |-> dirs'[build'], data |-> data']
    BY DEF Here
  <2>. QED
    BY <2>1, ScratchStays DEF OwnImages, There
<1>2. CASE NewPublishDir
  <2>1. published' = {} /\ build' = build /\ scratch' = scratch
    BY <1>2 DEF FilesInv, ArchesInv, NewPublishDir, progress, steady, Preparing
  <2>2. ASSUME NEW m \in DOMAIN There.names, At(There, m).is = "image" PROVE At(There, m).from # build
    <3>1. /\ base \in DOMAIN dirs /\ base \in 1 .. build /\ base # build
          /\ m \in DOMAIN dirs[base] /\ At(There, m) = At(Dir(base), m)
      BY <1>2, NewDirFiles
    <3>2. At(There, m).from \in 1 .. base
      BY <2>2, <3>1 DEF ImagesInv, Images, Dir
    <3>. QED
      BY <3>1, <3>2 DEF FilesInv, Course
  <2>. QED
    BY <2>1, <2>2
<1>3. CASE PublishBinary
  <2>. DEFINE a == Head(arches)
  <2>1. /\ stage' = "binary" /\ build' = build /\ scratch' = scratch
        /\ published' = IF Raw(a) = NoImage THEN published ELSE published \cup {a}
    BY <1>3 DEF PublishBinary, Raise, End, Goto, progress, steady, Filling
  <2>2. Raw(a) # NoImage => ImageName(a) \in DOMAIN There.names /\ At(There, ImageName(a)) = Image(a)
    BY <1>3, PublishBinaryFiles
  <2>3. \A b \in published : Raw(b) # NoImage
    BY <1>3 DEF ImagesInv, OwnImages, PublishBinary, Filling
  <2>. HIDE DEF a
  <2>4. /\ \A b \in published \ {a} : /\ ImageName(b) \in DOMAIN There.names
                                      /\ At(There, ImageName(b)) = Image(b)
        /\ \A m \in DOMAIN There.names :
               At(There, m).is = "image" /\ At(There, m).from = build =>
                   /\ m[1] \in published \cup {a} /\ m = ImageName(m[1])
                   /\ m[1] = a => Raw(a) # NoImage
    BY <1>3, BinaryImages DEF a
  <2>. QED
    BY <2>1, <2>2, <2>3, <2>4
<1>4. CASE Rest
  <2>1. /\ UNCHANGED <<dirs, data, build, scratch>> /\ stage \in Filling
        /\ published' = published
    BY <1>4 DEF Rest, files, PrepareCheckInstallable, CheckInstallable, AllMoved, MergeAll,
       MakeWebIndices, UnlinkCurrent, Symlink, WriteManifest, PostQA, Crash, Raise, End, Goto,
       Filling, progress
  <2>. QED
    BY <2>1 DEF ImagesInv, OwnImages, Here, There
<1>5. CASE TestReport \/ CopyReport \/ WriteSums \/ RemoveSums \/ OpenSignature \/ SignCdimage
  <2>1. published' = published /\ build' = build /\ scratch' = scratch /\ stage \in Filling
    BY <1>5 DEF TestReport, CopyReport, WriteSums, RemoveSums, OpenSignature, SignCdimage,
       GpgFails, Raise, End,
       Goto, progress, steady, Filling
  <2>2. CASE UNCHANGED files
    BY <2>1, <2>2 DEF ImagesInv, OwnImages, Here, There, files
  <2>3. ASSUME NEW names, PlainFill(names) PROVE OwnImages(There)
    BY <2>1, <2>3, PlainImages
  <2>4. UNCHANGED files \/ (\E names : PlainFill(names)) \/ PublishBinary
    BY <1>5, PlainFills DEF FillStep
  <2>5. ~PublishBinary
    BY <1>5 DEF PublishBinary, TestReport, CopyReport, WriteSums, RemoveSums, OpenSignature,
       SignCdimage
  <2>6. OwnImages(There)
      => /\ \A a \in published : /\ Raw(a) # NoImage /\ ImageName(a) \in DOMAIN There.names
                                 /\ At(There, ImageName(a)) = Image(a)
         /\ \A m \in DOMAIN There.names :
                At(There, m).is = "image" /\ At(There, m).from = build =>
                    m[1] \in published /\ m = ImageName(m[1])
    BY DEF OwnImages
  <2>. QED
    BY <2>1, <2>2, <2>3, <2>4, <2>5, <2>6
<1>. QED
  BY <1>1, <1>2, <1>3, <1>4, <1>5, Steps DEF FillStep

LEMMA BuildsImages ==
  ASSUME FilesInv, ImagesInv, [Next]_vars, build' \in DOMAIN dirs', NEW n, n = build'
  PROVE  Images(Dir(n)', n)
<1>1. ASSUME NEW wanted, NEW made, BuildAll(wanted, made) PROVE FALSE
  BY <1>1 DEF BuildAll, files, FilesInv, Course, DirsInv
<1>2. CASE NewPublishDir
  <2>1. n = build /\ There = Dir(n)'
    BY <1>2, SameDir DEF NewPublishDir, steady
  <2>2. ASSUME NEW m \in DOMAIN There.names
        PROVE  /\ At(There, m).is = "image" <=> IsImageName(m)
               /\ At(There, m).is = "image" => At(There, m).from \in 1 .. n
    <3>1. /\ base \in DOMAIN dirs /\ base \in 1 .. build /\ m \in DOMAIN dirs[base]
          /\ At(There, m) = At(Dir(base), m)
      BY <1>2, NewDirFiles
    <3>2. /\ At(There, m).is = "image" <=> IsImageName(m)
          /\ At(There, m).is = "image" => At(There, m).from \in 1 .. base
      BY <3>1 DEF ImagesInv, Images, Dir
    <3>. QED
      BY <2>1, <3>1, <3>2 DEF FilesInv, Course
  <2>. QED
    BY <2>1, <2>2 DEF Images
<1>3. CASE Rest
  BY <1>3, SameDir DEF ImagesInv, Rest, files
<1>4. CASE FillStep
  <2>1. build' = build /\ n = build /\ stage \in Filling /\ There = Dir(n)'
    <3>1. build' = build /\ stage \in Filling
      BY <1>4 DEF FillStep, PublishBinary, TestReport, CopyReport, WriteSums, RemoveSums,
         OpenSignature,
         SignCdimage, Filling, steady
    <3>. QED
      BY <3>1, SameDir
  <2>2. CASE PublishBinary
    BY <2>1, <2>2, BinaryImages
  <2>3. CASE UNCHANGED files
    BY <2>1, <2>3, SameDir DEF ImagesInv, files
  <2>4. ASSUME NEW names, PlainFill(names) PROVE Images(There, build)
    BY <2>1, <2>4, PlainImages
  <2>. QED
    BY <1>4, <2>1, <2>2, <2>3, <2>4, PlainFills
<1>. QED
  BY <1>1, <1>2, <1>3, <1>4, Steps

LEMMA ImagesNext == FilesInv /\ ImagesInv /\ [Next]_vars => ImagesInv'
<1>. SUFFICES ASSUME FilesInv, ImagesInv, [Next]_vars PROVE ImagesInv'
  OBVIOUS
<1>1. report' = NoReport \/ report'.is = "report"
  BY DEF ImagesInv, Next, Publish, Report, BuildAll, PrepareCheckInstallable, CheckInstallable, Rptprobs,
     OtherSeriesChecks, NewPublishDir, PublishBinary, AllMoved, TestReport, CopyReport, MergeAll,
     WriteSums, RemoveSums, OpenSignature, SignCdimage, MakeWebIndices, UnlinkCurrent, Symlink,
     WriteManifest,
     PostQA, Crash, vars, publishVars, checks
<1>2. ASSUME NEW n \in DOMAIN dirs', n # build' PROVE Images(Dir(n)', n)
  <2>1. n \in DOMAIN dirs /\ SameFiles(Dir(n), Dir(n)')
    BY <1>2, OthersOld, OthersSame
  <2>2. Images(Dir(n), n)
    BY <2>1 DEF ImagesInv
  <2>. QED
    BY <2>1, <2>2 DEF Images, SameFiles
<1>3. \A n \in DOMAIN dirs' : Images(Dir(n)', n)
  BY <1>2, BuildsImages
<1>. QED
  BY <1>1, <1>3, OwnImagesNext DEF ImagesInv

LEMMA ImagesAlways == Spec => []ImagesInv
  BY ImagesInit, ImagesNext, FilesAlways, PTL DEF Spec

-----------------------------------------------------------------------------
(* Checksums.                                                                  *)

Newer(fs, x, y) ==
    x[1] = y[1] /\ At(fs, x).is = "image" /\ At(fs, x).from > At(fs, y).from

(* There is a checksum for every image and whatever else gets one, and it is   *)
(* of the file that is there or of a newer image of the architecture.          *)
EntriesRight(fs, sums) ==
    /\ DOMAIN sums = {m \in DOMAIN fs.names : WantImage(m)}
    /\ \A m \in DOMAIN sums : sums[m] = At(fs, m) \/ \E x \in DOMAIN fs.names : Newer(fs, x, m)

SumsRight(fs) ==
    \A f \in SumsFiles : SumsName(f) \in DOMAIN fs.names => EntriesRight(fs, At(fs, SumsName(f)).of)

ChecksumsInv ==
    /\ \A n \in DOMAIN dirs : SumsRight(Dir(n))
    /\ stage \in {"write", "sign", "gpg"} => EntriesRight(Here, entries)

LEMMA ChecksumsInit == Init => ChecksumsInv
  BY DEF Init, ChecksumsInv

(* merge: what is taken over from scratch is of the image that the build has   *)
(* moved, and an image of another kind that is still there is older.           *)
LEMMA Merged ==
  ASSUME FilesInv, ImagesInv, stage = "merge",
         NEW m \in DOMAIN dirs[build], WantImage(m)
  PROVE  ChecksumOf(m) = At(Here, m) \/ \E x \in DOMAIN dirs[build] : Newer(Here, x, m)
<1>1. /\ build \in DOMAIN dirs /\ Here.names = dirs[build] /\ OwnImages(Here)
      /\ Images(Here, build) /\ build \in Nat
  <2>1. Here = Dir(build)
    BY DEF Here, Dir
  <2>. QED
    BY <2>1 DEF FilesInv, Course, ImagesInv, Filling, Here
<1>. DEFINE found == {a \in published : {m, MapName(m)} \cap DOMAIN OldSums(a) # {}}
            b == CHOOSE a \in found : TRUE
<1>2. CASE found = {}
  <2>1. ChecksumOf(m) = Contents(build)[m]
    BY <1>2 DEF ChecksumOf
  <2>. QED
    BY <1>1, <2>1 DEF Contents, At, Here
<1>3. CASE found # {}
  <2>1. b \in found
    BY <1>3
  <2>2. /\ ChecksumOf(m) = IF m \in DOMAIN OldSums(b) THEN OldSums(b)[m] ELSE OldSums(b)[MapName(m)]
        /\ {m, MapName(m)} \cap DOMAIN OldSums(b) # {} /\ b \in published
    BY <1>3, <2>1 DEF ChecksumOf
  <2>. HIDE DEF found, b
  <2>3. /\ DOMAIN OldSums(b) \subseteq {<<b, "raw">>}
        /\ \A x \in DOMAIN OldSums(b) : OldSums(b)[x] = Image(b)
    BY DEF OldSums
  <2>4. m[2] # "raw" /\ Len(m) = 2
    BY DEF WantImage, WithSums, Kinds, Compressed
  <2>5. MapName(m) = <<b, "raw">> /\ MapName(m) \in DOMAIN OldSums(b) /\ m \notin DOMAIN OldSums(b)
    BY <2>2, <2>3, <2>4
  <2>6. m[1] = b /\ m[2] \in Kinds
    BY <2>4, <2>5 DEF MapName
  <2>7. ChecksumOf(m) = Image(b)
    BY <2>2, <2>3, <2>5
  <2>8. ImageName(b) \in DOMAIN dirs[build] /\ At(Here, ImageName(b)) = Image(b)
    BY <1>1, <2>2 DEF OwnImages
  <2>9. At(Here, m).is = "image" /\ At(Here, m).from \in 1 .. build
    BY <1>1, <2>4, <2>6 DEF Images, IsImageName
  <2>10. CASE At(Here, m).from = build
    <3>1. m = ImageName(b)
      BY <1>1, <2>6, <2>9, <2>10 DEF OwnImages
    <3>. QED
      BY <2>7, <2>8, <3>1
  <2>11. CASE At(Here, m).from # build
    <3>1. At(Here, ImageName(b)).is = "image" /\ At(Here, ImageName(b)).from = build
      BY <2>8 DEF Image
    <3>2. ImageName(b)[1] = m[1]
      BY <2>6, ImageNameIsOne
    <3>3. build > At(Here, m).from
      BY <1>1, <2>9, <2>11
    <3>. QED
      BY <2>8, <3>1, <3>2, <3>3 DEF Newer
  <2>. QED
    BY <2>10, <2>11
<1>. QED
  BY <1>2, <1>3

(* Steps that leave images alone leave checksums right.                        *)
LEMMA EntriesStay ==
  ASSUME FilesInv, ImagesInv, stage \in Filling, NEW names, PlainFill(names),
         NEW sums, EntriesRight(Here, sums)
  PROVE  EntriesRight(There, sums)
<1>1. /\ {m \in DOMAIN There.names : WantImage(m)} = {m \in DOMAIN dirs[build] : WantImage(m)}
      /\ \A m \in DOMAIN There.names : IsImageName(m) \/ WantImage(m) =>
             m \in DOMAIN dirs[build] /\ At(There, m) = At(Here, m)
  BY PlainImages
<1>2. Images(Here, build) /\ Here.names = dirs[build]
  <2>1. Here = Dir(build)
    BY DEF Here, Dir
  <2>. QED
    BY <2>1 DEF FilesInv, Course, ImagesInv, Here
<1>3. DOMAIN sums = {m \in DOMAIN There.names : WantImage(m)}
  BY <1>1, <1>2 DEF EntriesRight
<1>4. \A x \in DOMAIN dirs[build] : At(Here, x).is = "image"
         => x \in DOMAIN There.names /\ At(There, x) = At(Here, x)
  <2>1. \A x \in names : ~IsImageName(x)
    BY DEF PlainFill
  <2>2. ASSUME NEW x \in DOMAIN dirs[build] \ names PROVE x \in DOMAIN There.names /\ At(There, x) = At(Here, x)
    BY <2>2, FillsSame DEF FilesInv, PlainFill
  <2>. QED
    BY <1>2, <2>1, <2>2 DEF Images
<1>5. ASSUME NEW m \in DOMAIN sums
      PROVE  sums[m] = At(There, m) \/ \E x \in DOMAIN There.names : Newer(There, x, m)
  <2>1. m \in DOMAIN There.names /\ m \in DOMAIN dirs[build] /\ At(There, m) = At(Here, m)
    BY <1>1, <1>3
  <2>2. sums[m] = At(Here, m) \/ \E x \in DOMAIN dirs[build] : Newer(Here, x, m)
    BY <1>2 DEF EntriesRight
  <2>. QED
    BY <1>4, <2>1, <2>2 DEF Newer
<1>. QED
  BY <1>3, <1>5 DEF EntriesRight

LEMMA SumsStay ==
  ASSUME FilesInv, ImagesInv, ChecksumsInv, stage \in Filling, NEW names, PlainFill(names)
  PROVE  SumsRight(There)
<1>. SUFFICES ASSUME NEW f \in SumsFiles, SumsName(f) \in DOMAIN There.names
     PROVE  EntriesRight(There, At(There, SumsName(f)).of)
  BY DEF SumsRight
<1>1. build \in DOMAIN dirs /\ Here.names = dirs[build] /\ SumsRight(Here) /\ Fills(names) /\ DirsInv
  <2>1. Here = Dir(build)
    BY DEF Here, Dir
  <2>. QED
    BY <2>1 DEF FilesInv, Course, ChecksumsInv, Here, PlainFill
<1>2. CASE SumsName(f) \in names
  <2>1. stage = "write" /\ At(There, SumsName(f)).of = entries
    BY <1>2 DEF PlainFill, Sums
  <2>2. EntriesRight(Here, entries)
    BY <2>1 DEF ChecksumsInv
  <2>. QED
    BY <2>1, <2>2, EntriesStay
<1>3. CASE SumsName(f) \notin names
  <2>1. SumsName(f) \in DOMAIN dirs[build] \ names
    BY <1>1, <1>3, ThereHas
  <2>2. At(There, SumsName(f)) = At(Here, SumsName(f))
    BY <1>1, <2>1, FillsSame
  <2>3. EntriesRight(Here, At(Here, SumsName(f)).of)
    BY <1>1, <2>1 DEF SumsRight
  <2>. QED
    BY <2>2, <2>3, EntriesStay
<1>. QED
  BY <1>2, <1>3

LEMMA BuildsSums ==
  ASSUME FilesInv, ImagesInv, ChecksumsInv, [Next]_vars, build' \in DOMAIN dirs', NEW n, n = build'
  PROVE  SumsRight(Dir(n)')
<1>1. ASSUME NEW wanted, NEW made, BuildAll(wanted, made) PROVE FALSE
  BY <1>1 DEF BuildAll, files, FilesInv, Course, DirsInv
<1>2. CASE NewPublishDir
  <2>1. There = Dir(n)'
    BY <1>2, SameDir DEF NewPublishDir, steady
  <2>2. \A m \in DOMAIN There.names : m[1] \notin NoImages
    BY <1>2, NewDirFiles
  <2>. QED
    BY <2>1, <2>2 DEF SumsRight, SumsName, NoImages
<1>3. CASE Rest
  BY <1>3, SameDir DEF ChecksumsInv, Rest, files
<1>4. CASE FillStep
  <2>1. build' = build /\ n = build /\ stage \in Filling /\ There = Dir(n)'
    <3>1. build' = build /\ stage \in Filling
      BY <1>4 DEF FillStep, PublishBinary, TestReport, CopyReport, WriteSums, RemoveSums,
         OpenSignature,
         SignCdimage, Filling, steady
    <3>. QED
      BY <3>1, SameDir
  <2>2. CASE PublishBinary
    <3>1. Head(arches) \in Arches
      BY <2>2, HeadOfArches DEF FilesInv, ArchesInv, PublishBinary
    <3>2. \A m \in Touched(Head(arches)) : m[1] \notin SumsFiles
      BY <3>1, TouchedIsOf, NamesAssumption
    <3>3. Fills(Touched(Head(arches)))
      BY <2>2, PublishBinaryFiles
    <3>4. \A m \in DOMAIN There.names : m[1] \notin SumsFiles
      BY <2>2, <3>2, <3>3, ThereHas DEF FilesInv, NamesInv, PublishBinary
    <3>. QED
      BY <2>1, <3>4 DEF SumsRight, SumsName
  <2>3. CASE UNCHANGED files
    BY <2>1, <2>3, SameDir DEF ChecksumsInv, files
  <2>4. ASSUME NEW names, PlainFill(names) PROVE SumsRight(There)
    BY <2>1, <2>4, SumsStay
  <2>. QED
    BY <1>4, <2>1, <2>2, <2>3, <2>4, PlainFills
<1>. QED
  BY <1>1, <1>2, <1>3, <1>4, Steps

LEMMA EntriesNext ==
  ASSUME FilesInv, ImagesInv, ChecksumsInv, [Next]_vars, stage' \in {"write", "sign", "gpg"}
  PROVE  EntriesRight(Here', entries')
<1>1. ASSUME NEW wanted, NEW made, BuildAll(wanted, made) PROVE FALSE
  BY <1>1 DEF BuildAll, Goto
<1>2. CASE WriteSums \/ RemoveSums \/ OpenSignature \/ SignCdimage
  <2>1. /\ entries' = entries /\ build' = build /\ stage \in {"write", "sign", "gpg"}
        /\ ~PublishBinary
    BY <1>2 DEF WriteSums, RemoveSums, OpenSignature, SignCdimage, GpgFails, Raise, End, Goto,
       progress, steady,
       PublishBinary
  <2>2. Here' = There
    BY <2>1 DEF Here, There
  <2>3. CASE UNCHANGED files
    BY <2>1, <2>3 DEF ChecksumsInv, Here, files
  <2>4. ASSUME NEW names, PlainFill(names) PROVE EntriesRight(There, entries)
    BY <2>1, <2>4, EntriesStay DEF ChecksumsInv, Filling
  <2>. QED
    BY <1>2, <2>1, <2>2, <2>3, <2>4, PlainFills DEF FillStep
<1>3. CASE MergeAll
  <2>1. /\ entries' = [m \in {x \in DOMAIN dirs[build] : WantImage(x)} |-> ChecksumOf(m)]
        /\ Here' = Here /\ stage = "merge" /\ Here.names = dirs[build]
    BY <1>3 DEF MergeAll, Here, files, steady
  <2>2. \A m \in DOMAIN entries' : \/ entries'[m] = At(Here, m)
                                   \/ \E x \in DOMAIN dirs[build] : Newer(Here, x, m)
    BY <2>1, Merged
  <2>. QED
    BY <2>1, <2>2 DEF EntriesRight
<1>4. CASE Publish /\ ~(MergeAll \/ WriteSums \/ RemoveSums \/ OpenSignature \/ SignCdimage)
  BY <1>4 DEF Publish, PrepareCheckInstallable, CheckInstallable, NewPublishDir, PublishBinary, AllMoved,
     TestReport, CopyReport, MakeWebIndices, UnlinkCurrent, Symlink, WriteManifest, PostQA, Raise, End, Goto
<1>5. CASE Rptprobs \/ OtherSeriesChecks \/ Crash
  BY <1>5 DEF Rptprobs, OtherSeriesChecks, Crash, End, Goto
<1>6. CASE UNCHANGED vars
  BY <1>6 DEF vars, publishVars, ChecksumsInv, Here
<1>. QED
  BY <1>1, <1>2, <1>3, <1>4, <1>5, <1>6 DEF Next

LEMMA ChecksumsNext == FilesInv /\ ImagesInv /\ ChecksumsInv /\ [Next]_vars => ChecksumsInv'
<1>. SUFFICES ASSUME FilesInv, ImagesInv, ChecksumsInv, [Next]_vars PROVE ChecksumsInv'
  OBVIOUS
<1>1. ASSUME NEW n \in DOMAIN dirs', n # build' PROVE SumsRight(Dir(n)')
  <2>1. n \in DOMAIN dirs /\ SameFiles(Dir(n), Dir(n)')
    BY <1>1, OthersOld, OthersSame
  <2>2. SumsRight(Dir(n))
    BY <2>1 DEF ChecksumsInv
  <2>3. ASSUME NEW sums, EntriesRight(Dir(n), sums) PROVE EntriesRight(Dir(n)', sums)
    BY <2>1, <2>3 DEF EntriesRight, Newer, SameFiles
  <2>. QED
    BY <2>1, <2>2, <2>3 DEF SumsRight, SameFiles
<1>2. \A n \in DOMAIN dirs' : SumsRight(Dir(n)')
  BY <1>1, BuildsSums
<1>. QED
  BY <1>2, EntriesNext DEF ChecksumsInv

LEMMA ChecksumsAlways == Spec => []ChecksumsInv
  BY ChecksumsInit, ChecksumsNext, FilesAlways, ImagesAlways, PTL DEF Spec

(* Every checksum in every directory, whether computed or taken over from      *)
(* scratch under another name, is of the file that has the name, or of a newer *)
(* image of its architecture beside it (ChecksumFile.merge).                   *)
THEOREM ChecksumsAreTrue == Spec => []ChecksumsOfNewestTrue
<1>1. ChecksumsInv => ChecksumsOfNewestTrue
  <2>. SUFFICES ASSUME ChecksumsInv, NEW n \in DOMAIN dirs, NEW f \in SumsFiles,
                       SumsName(f) \in DOMAIN dirs[n],
                       NEW m \in DOMAIN Contents(n)[SumsName(f)].of
       PROVE  \/ Contents(n)[SumsName(f)].of[m] = Contents(n)[m]
              \/ \E x \in DOMAIN Contents(n) :
                     /\ x[1] = m[1] /\ Contents(n)[x].is = "image"
                     /\ Contents(n)[x].from > Contents(n)[m].from
    BY DEF ChecksumsOfNewestTrue, SumsName
  <2>1. DOMAIN Contents(n) = DOMAIN dirs[n] /\ \A x \in DOMAIN dirs[n] : Contents(n)[x] = At(Dir(n), x)
    BY DEF Contents, At, Dir
  <2>2. EntriesRight(Dir(n), Contents(n)[SumsName(f)].of)
    BY <2>1 DEF ChecksumsInv, SumsRight, Dir
  <2>3. m \in DOMAIN dirs[n]
    BY <2>2 DEF EntriesRight, Dir
  <2>. QED
    BY <2>1, <2>2, <2>3 DEF EntriesRight, Newer, Dir
<1>. QED
  BY <1>1, ChecksumsAlways, PTL

-----------------------------------------------------------------------------
(* What is published is whole.                                                 *)

LEMMA UnchangedSame ==
  ASSUME UNCHANGED files, NEW n
  PROVE  SameFiles(Dir(n), Dir(n)')
  BY DEF SameFiles, Dir, files, At

LEMMA FillingNotCurrent ==
  ASSUME FilesInv, FillStep
  PROVE  /\ UNCHANGED <<build, current, scratch, base>> /\ build \in DOMAIN dirs /\ current # build
         /\ stage \in Filling \ {"unlink", "symlink", "manifest", "post-qa"}
  BY DEF FillStep, PublishBinary, TestReport, CopyReport, WriteSums, RemoveSums, OpenSignature,
     SignCdimage,
     steady, FilesInv, Course, Filling

(* What `current' leads to stays as it is, or is the directory that is         *)
(* complete now.                                                               *)
LEMMA CurrentSame ==
  ASSUME FilesInv, [Next]_vars, NEW n, n = current', n # 0
  PROVE  \/ n = current /\ SameFiles(Dir(n), Dir(n)')
         \/ stage = "symlink" /\ n = build /\ SameFiles(Dir(n), Dir(n)')
<1>1. CASE current' # current
  <2>1. stage = "symlink" /\ n = build /\ UNCHANGED files
    BY <1>1, SymlinkOnly
  <2>. QED
    BY <2>1, UnchangedSame
<1>2. CASE current' = current
  <2>1. n = current /\ n \in DOMAIN dirs
    BY <1>2 DEF FilesInv, Course
  <2>2. CASE n # build'
    BY <2>1, <2>2, OthersSame
  <2>3. CASE n = build'
    <3>1. ASSUME NEW wanted, NEW made, BuildAll(wanted, made) PROVE FALSE
      BY <2>1, <2>3, <3>1 DEF BuildAll, FilesInv, Course, DirsInv
    <3>2. ~NewPublishDir
      BY <2>1, <2>3 DEF NewPublishDir, steady, FilesInv, Course, Preparing
    <3>3. ~FillStep
      BY <2>1, <2>3, FillingNotCurrent
    <3>4. Rest
      BY <3>1, <3>2, <3>3, Steps
    <3>. QED
      BY <2>1, <3>4, UnchangedSame DEF Rest
  <2>. QED
    BY <2>2, <2>3
<1>. QED
  BY <1>1, <1>2

(* With something to sum: the checksum file, and a signature if there is a     *)
(* key; else neither.                                                          *)
Summed(fs) == \E m \in DOMAIN fs.names : WantImage(m)

Finished(fs, f) ==
    /\ SumsName(f) \in DOMAIN fs.names <=> Summed(fs)
    /\ GpgName(f) \in DOMAIN fs.names <=> Summed(fs) /\ Keys

CompleteInv ==
    /\ current # 0 => \A f \in SumsFiles : Finished(Dir(current), f)
    /\ stage \in {"write", "sign", "gpg"} => \A f \in SumsFiles \ left : Finished(Here, f)
    /\ stage \in {"sign", "gpg"} => DOMAIN entries # {} /\ Keys
    /\ stage \in {"unlink", "symlink", "manifest", "post-qa"} =>
           \A f \in SumsFiles : Finished(Here, f)

LEMMA CompleteInit == Init => CompleteInv
  BY DEF Init, CompleteInv

LEMMA StepsToSums ==
  ASSUME FilesInv, [Next]_vars, stage' \in {"write", "sign", "gpg"}
  PROVE  \/ WriteSums \/ RemoveSums \/ OpenSignature \/ SignCdimage
         \/ left' = SumsFiles
         \/ UNCHANGED <<stage, left, build, files>>
<1>1. ASSUME NEW wanted, NEW made, BuildAll(wanted, made) PROVE FALSE
  BY <1>1 DEF BuildAll, Goto
<1>2. CASE Publish /\ ~(MergeAll \/ WriteSums \/ RemoveSums \/ OpenSignature \/ SignCdimage)
  BY <1>2 DEF Publish, PrepareCheckInstallable, CheckInstallable, NewPublishDir, PublishBinary, AllMoved,
     TestReport, CopyReport, MakeWebIndices, UnlinkCurrent, Symlink, WriteManifest, PostQA, Raise, End, Goto
<1>3. CASE Rptprobs \/ OtherSeriesChecks \/ Crash
  BY <1>3 DEF Rptprobs, OtherSeriesChecks, Crash, End, Goto
<1>4. CASE UNCHANGED vars
  BY <1>4 DEF vars, publishVars, files
<1>5. CASE MergeAll
  BY <1>5 DEF MergeAll
<1>. QED
  BY <1>1, <1>2, <1>3, <1>4, <1>5 DEF Next, Publish

LEMMA StepsToEnd ==
  ASSUME [Next]_vars, stage' \in {"unlink", "symlink", "manifest", "post-qa"}
  PROVE  /\ UNCHANGED <<build, files>>
         /\ \/ stage = "write" /\ left = {}
            \/ stage \in {"unlink", "symlink", "manifest", "post-qa"}
<1>1. ASSUME NEW wanted, NEW made, BuildAll(wanted, made) PROVE FALSE
  BY <1>1 DEF BuildAll, Goto
<1>2. CASE Publish /\ ~(MakeWebIndices \/ UnlinkCurrent \/ Symlink \/ WriteManifest)
  BY <1>2 DEF Publish, PrepareCheckInstallable, CheckInstallable, NewPublishDir, PublishBinary, AllMoved,
     TestReport, CopyReport, MergeAll, WriteSums, RemoveSums, OpenSignature, SignCdimage, GpgFails,
     PostQA, Raise, End, Goto
<1>3. CASE Rptprobs \/ OtherSeriesChecks \/ Crash
  BY <1>3 DEF Rptprobs, OtherSeriesChecks, Crash, End, Goto
<1>4. CASE UNCHANGED vars
  BY <1>4 DEF vars, publishVars, files
<1>5. CASE MakeWebIndices \/ UnlinkCurrent \/ Symlink \/ WriteManifest
  BY <1>5 DEF MakeWebIndices, UnlinkCurrent, Symlink, WriteManifest, Raise, End, Goto, steady
<1>. QED
  BY <1>1, <1>2, <1>3, <1>4, <1>5 DEF Next, Publish

LEMMA StepsToSigning ==
  ASSUME [Next]_vars, stage' \in {"sign", "gpg"}
  PROVE  \/ WriteSums \/ RemoveSums \/ OpenSignature \/ SignCdimage
         \/ UNCHANGED <<stage, entries>>
<1>1. ASSUME NEW wanted, NEW made, BuildAll(wanted, made) PROVE FALSE
  BY <1>1 DEF BuildAll, Goto
<1>2. CASE Publish /\ ~(WriteSums \/ RemoveSums \/ OpenSignature \/ SignCdimage)
  BY <1>2 DEF Publish, PrepareCheckInstallable, CheckInstallable, NewPublishDir, PublishBinary, AllMoved,
     TestReport, CopyReport, MergeAll, MakeWebIndices, UnlinkCurrent, Symlink, WriteManifest, PostQA,
     Raise, End, Goto
<1>3. CASE Rptprobs \/ OtherSeriesChecks \/ Crash
  BY <1>3 DEF Rptprobs, OtherSeriesChecks, Crash, End, Goto, progress
<1>4. CASE UNCHANGED vars
  BY <1>4 DEF vars, publishVars
<1>. QED
  BY <1>1, <1>2, <1>3, <1>4 DEF Next, Publish

LEMMA SummedSame ==
  ASSUME NEW fs, NEW gs,
         {m \in DOMAIN gs.names : WantImage(m)} = {m \in DOMAIN fs.names : WantImage(m)}
  PROVE  Summed(gs) <=> Summed(fs)
  BY DEF Summed

(* Whether something is summed is decided by the entries, and stays so.        *)
LEMMA SummedStays ==
  ASSUME FilesInv, ImagesInv, ChecksumsInv, WriteSums \/ RemoveSums \/ OpenSignature \/ SignCdimage
  PROVE  /\ Summed(Here) <=> DOMAIN entries # {}
         /\ Summed(There) <=> Summed(Here)
<1>1. /\ stage \in {"write", "sign", "gpg"} /\ stage \in Filling /\ Here.names = dirs[build]
      /\ FillStep /\ ~PublishBinary /\ build' = build
  BY DEF WriteSums, RemoveSums, OpenSignature, SignCdimage, PublishBinary, FillStep, Here, Filling,
     steady
<1>2. DOMAIN entries = {m \in DOMAIN Here.names : WantImage(m)}
  BY <1>1 DEF ChecksumsInv, EntriesRight
<1>3. Summed(There) <=> Summed(Here)
  <2>1. CASE UNCHANGED files
    BY <1>1, <2>1 DEF Here, There, Summed, files
  <2>2. ASSUME NEW names, PlainFill(names) PROVE Summed(There) <=> Summed(Here)
    <3>1. {m \in DOMAIN There.names : WantImage(m)} = {m \in DOMAIN Here.names : WantImage(m)}
      BY <1>1, <2>2, PlainImages
    <3>. QED
      BY <3>1, SummedSame
  <2>. QED
    BY <1>1, <2>1, <2>2, PlainFills
<1>. QED
  BY <1>2, <1>3 DEF Summed

LEMMA SumsAreFinished ==
  ASSUME FilesInv, ImagesInv, ChecksumsInv, CompleteInv,
         WriteSums \/ RemoveSums \/ OpenSignature \/ SignCdimage,
         stage' # "idle", NEW f \in SumsFiles \ left'
  PROVE  Finished(There, f)
<1>1. /\ stage \in {"write", "sign", "gpg"} /\ Here.names = dirs[build] /\ left # {}
      /\ stage \in {"sign", "gpg"} => SumsName(NextSums) \in DOMAIN dirs[build]
      /\ stage = "gpg" => GpgName(NextSums) \in DOMAIN dirs[build]
      /\ NextSums \in left
  BY NextIsLeft DEF WriteSums, RemoveSums, OpenSignature, SignCdimage, Here, FilesInv, NamesInv,
     SumsName, GpgName
<1>2. \A g \in SumsFiles \ left : Finished(Here, g)
  BY <1>1 DEF CompleteInv
<1>3. \A g \in SumsFiles \ left :
         /\ SumsName(g) \in DOMAIN dirs[build] <=> Summed(There)
         /\ GpgName(g) \in DOMAIN dirs[build] <=> Summed(There) /\ Keys
  BY <1>1, <1>2, SummedStays DEF Finished
<1>4. \A g : /\ SumsName(g) # GpgName(NextSums) /\ GpgName(g) # SumsName(NextSums)
             /\ g # NextSums => SumsName(g) # SumsName(NextSums) /\ GpgName(g) # GpgName(NextSums)
  BY DEF SumsName, GpgName
<1>5. stage = "write" => GpgName(NextSums) \notin DOMAIN dirs[build]
  BY <1>1 DEF FilesInv, NamesInv, GpgName
<1>6. CASE WriteSums
  <2>1. DOMAIN There.names = DOMAIN dirs[build] \cup {SumsName(NextSums)}
    BY <1>6, WriteSumsFiles
  <2>2. Summed(There)
    BY <1>6, SummedStays DEF WriteSums
  <2>3. (f \notin left) \/ (f = NextSums /\ ~Keys)
    BY <1>6 DEF WriteSums
  <2>4. stage = "write"
    BY <1>6 DEF WriteSums
  <2>. QED
    BY <1>1, <1>3, <1>4, <1>5, <2>1, <2>2, <2>3, <2>4 DEF Finished
<1>7. CASE RemoveSums
  <2>1. DOMAIN There.names = DOMAIN dirs[build] \ {SumsName(NextSums)}
    BY <1>7, RemoveSumsFiles
  <2>2. ~Summed(There)
    BY <1>7, SummedStays DEF RemoveSums
  <2>3. (f \notin left) \/ f = NextSums
    BY <1>7 DEF RemoveSums
  <2>4. stage = "write"
    BY <1>7 DEF RemoveSums
  <2>. QED
    BY <1>3, <1>4, <1>5, <2>1, <2>2, <2>3, <2>4 DEF Finished
<1>8. CASE OpenSignature
  <2>1. DOMAIN There.names = DOMAIN dirs[build] \cup {GpgName(NextSums)} /\ f \notin left
    BY <1>8, OpenSignatureFiles DEF OpenSignature, progress
  <2>. QED
    BY <1>1, <1>3, <1>4, <2>1 DEF Finished
<1>9. CASE SignCdimage
  <2>1. DOMAIN There.names = DOMAIN dirs[build] /\ left' = left \ {NextSums} /\ stage = "gpg"
    BY <1>9, SignCdimageFiles DEF SignCdimage
  <2>2. Summed(There) /\ Keys
    BY <1>9, <2>1, SummedStays DEF CompleteInv
  <2>. QED
    BY <1>1, <1>3, <2>1, <2>2 DEF Finished
<1>. QED
  BY <1>6, <1>7, <1>8, <1>9

LEMMA CompleteNext ==
  FilesInv /\ ImagesInv /\ ChecksumsInv /\ CompleteInv /\ [Next]_vars => CompleteInv'
<1>. SUFFICES ASSUME FilesInv, ImagesInv, ChecksumsInv, CompleteInv, [Next]_vars PROVE CompleteInv'
  OBVIOUS
<1>1. ASSUME current' # 0, NEW f \in SumsFiles PROVE Finished(Dir(current)', f)
  <2>1. PICK n : n = current'
    OBVIOUS
  <2>2. SameFiles(Dir(n), Dir(n)') /\ (n = current \/ (stage = "symlink" /\ n = build))
    BY <1>1, <2>1, CurrentSame
  <2>3. Finished(Dir(n), f)
    <3>1. n = build => Here = Dir(n)
      BY DEF Here, Dir
    <3>. QED
      BY <1>1, <2>1, <2>2, <3>1 DEF CompleteInv
  <2>4. Finished(Dir(n)', f)
    BY <2>2, <2>3 DEF Finished, Summed, SameFiles
  <2>. QED
    BY <2>1, <2>4 DEF Dir
<1>2. ASSUME stage' \in {"write", "sign", "gpg"}, NEW f \in SumsFiles \ left'
      PROVE  Finished(Here', f)
  <2>1. CASE WriteSums \/ RemoveSums \/ OpenSignature \/ SignCdimage
    <3>1. Here' = There
      BY <2>1 DEF Here, There, WriteSums, RemoveSums, OpenSignature, SignCdimage, steady
    <3>. QED
      BY <1>2, <2>1, <3>1, SumsAreFinished
  <2>2. CASE UNCHANGED <<stage, left, build, files>>
    BY <1>2, <2>2 DEF CompleteInv, Here, files
  <2>. QED
    BY <1>2, <2>1, <2>2, StepsToSums
<1>3. ASSUME stage' \in {"unlink", "symlink", "manifest", "post-qa"}, NEW f \in SumsFiles
      PROVE  Finished(Here', f)
  <2>1. Here' = Here
    BY <1>3, StepsToEnd DEF Here, files
  <2>. QED
    BY <1>3, <2>1, StepsToEnd DEF CompleteInv
<1>4. ASSUME stage' \in {"sign", "gpg"} PROVE DOMAIN entries' # {} /\ Keys
  <2>1. CASE WriteSums \/ RemoveSums \/ OpenSignature \/ SignCdimage
    BY <1>4, <2>1 DEF CompleteInv, WriteSums, RemoveSums, OpenSignature, SignCdimage, GpgFails,
       Raise, End, Goto, progress
  <2>2. CASE UNCHANGED <<stage, entries>>
    BY <1>4, <2>2 DEF CompleteInv
  <2>. QED
    BY <1>4, <2>1, <2>2, StepsToSigning
<1>. QED
  BY <1>1, <1>2, <1>3, <1>4 DEF CompleteInv

(* A signature that does not fit is the one that gpg is writing, or was when   *)
(* the machine stopped, in a directory that `current' does not lead to, nor    *)
(* will.                                                                       *)
Fits(fs, f) ==
    GpgName(f) \in DOMAIN fs.names =>
        /\ SumsName(f) \in DOMAIN fs.names
        /\ At(fs, GpgName(f)) = Signature(At(fs, SumsName(f)))

Abandoned(n) == crashes > 0 /\ n # current /\ (n = build => stage = "idle")

SignaturesInv ==
    /\ crashes \in Nat
    /\ \A n \in DOMAIN dirs, f \in SumsFiles :
           Fits(Dir(n), f) \/ (n = build /\ stage = "gpg" /\ f = NextSums) \/ Abandoned(n)

LEMMA SignaturesInit == Init => SignaturesInv
  BY DEF Init, SignaturesInv

LEMMA CrashesCount ==
  ASSUME [Next]_vars
  PROVE  crashes' = crashes \/ (Crash /\ crashes' = crashes + 1)
  BY DEF Next, Publish, BuildAll, PrepareCheckInstallable, CheckInstallable, Rptprobs,
     OtherSeriesChecks, NewPublishDir, PublishBinary, AllMoved, TestReport, CopyReport, MergeAll,
     WriteSums, RemoveSums, OpenSignature, SignCdimage, MakeWebIndices, UnlinkCurrent, Symlink,
     WriteManifest,
     PostQA, Crash, steady, vars, publishVars

LEMMA AbandonedStays ==
  ASSUME FilesInv, SignaturesInv, [Next]_vars, NEW n \in DOMAIN dirs, Abandoned(n)
  PROVE  Abandoned(n)'
<1>1. crashes' > 0
  BY CrashesCount DEF SignaturesInv, Abandoned
<1>2. n # current'
  <2>1. current' = current \/ current' = 0 \/ (current' = build /\ stage = "symlink")
    BY SymlinkOnly
  <2>. QED
    BY <2>1 DEF Abandoned, FilesInv, Course, DirsInv
<1>3. n = build' => stage' = "idle"
  <2>1. ASSUME NEW wanted, NEW made, BuildAll(wanted, made) PROVE build' # n
    BY <2>1 DEF BuildAll, FilesInv, Course, DirsInv
  <2>2. CASE UNCHANGED <<build, stage>>
    BY <2>2 DEF Abandoned
  <2>3. CASE build' = build /\ stage # "idle"
    BY <2>3 DEF Abandoned
  <2>4. CASE UNCHANGED vars
    BY <2>2, <2>4 DEF vars, publishVars
  <2>5. Publish \/ Rptprobs \/ OtherSeriesChecks \/ Crash => build' = build /\ stage # "idle"
    BY DEF Publish, PrepareCheckInstallable, CheckInstallable, Rptprobs, OtherSeriesChecks,
       NewPublishDir, PublishBinary, AllMoved, TestReport, CopyReport, MergeAll, WriteSums, RemoveSums,
       OpenSignature, SignCdimage, MakeWebIndices, UnlinkCurrent, Symlink, WriteManifest, PostQA,
       Crash, steady
  <2>. QED
    BY <2>1, <2>3, <2>4, <2>5 DEF Next
<1>. QED
  BY <1>1, <1>2, <1>3 DEF Abandoned

LEMMA BuildsSignatures ==
  ASSUME FilesInv, SignaturesInv, [Next]_vars, NEW n \in DOMAIN dirs', n = build',
         ~(n \in DOMAIN dirs /\ Abandoned(n)), NEW f \in SumsFiles
  PROVE  \/ Fits(Dir(n)', f)
         \/ stage' = "gpg" /\ f = NextSums'
         \/ Abandoned(n)'
<1>1. ASSUME NEW wanted, NEW made, BuildAll(wanted, made) PROVE FALSE
  BY <1>1 DEF BuildAll, files, FilesInv, Course, DirsInv
<1>2. CASE NewPublishDir
  <2>1. There = Dir(n)'
    BY <1>2, SameDir DEF NewPublishDir, steady
  <2>2. \A m \in DOMAIN There.names : m[1] \notin NoImages
    BY <1>2, NewDirFiles
  <2>. QED
    BY <2>1, <2>2 DEF Fits, GpgName, NoImages
<1>3. CASE FillStep
  <2>1. /\ build' = build /\ n = build /\ n \in DOMAIN dirs /\ There = Dir(n)'
        /\ Here = Dir(n) /\ Here.names = dirs[build] /\ DirsInv
    BY <1>3, FillingNotCurrent, SameDir DEF FilesInv, Here
  <2>2. Fits(Here, f) \/ (stage = "gpg" /\ f = NextSums)
    BY <2>1 DEF SignaturesInv
  <2>3. CASE UNCHANGED files /\ stage # "gpg"
    BY <2>1, <2>2, <2>3, SameDir DEF Fits
  <2>4. ASSUME NEW names, Fills(names), SumsName(f) \notin names, GpgName(f) \notin names, stage # "gpg"
        PROVE  Fits(There, f)
    <3>1. GpgName(f) \in DOMAIN There.names => GpgName(f) \in DOMAIN dirs[build]
      BY <2>1, <2>4, ThereHas
    <3>. QED
      BY <2>1, <2>2, <2>4, <3>1, FillsSame DEF Fits
  <2>5. CASE PublishBinary
    <3>1. \A m \in DOMAIN dirs'[build'] : m[1] \notin SumsFiles
      <4>1. Head(arches) \in Arches
        BY <2>5, HeadOfArches DEF FilesInv, ArchesInv, PublishBinary
      <4>2. \A m \in Touched(Head(arches)) : m[1] \notin SumsFiles
        BY <4>1, TouchedIsOf, NamesAssumption
      <4>3. Fills(Touched(Head(arches)))
        BY <2>5, PublishBinaryFiles
      <4>. QED
        BY <2>5, <4>2, <4>3, ThereHas DEF FilesInv, NamesInv, PublishBinary
    <3>. QED
      BY <3>1 DEF Fits, Dir, GpgName
  <2>6. CASE TestReport \/ CopyReport
    <3>1. Html # SumsName(f) /\ Html # GpgName(f) /\ stage # "gpg"
      BY <2>6 DEF Html, SumsName, GpgName, TestReport, CopyReport
    <3>. QED
      BY <2>1, <2>3, <2>4, <2>6, <3>1, TestReportFiles, CopyReportFiles
  <2>7. CASE WriteSums
    <3>1. NextSums \in left /\ GpgName(NextSums) \notin DOMAIN dirs[build]
      BY <2>7, NextIsLeft DEF FilesInv, NamesInv, WriteSums, GpgName
    <3>2. Fills({SumsName(NextSums)}) /\ DOMAIN There.names = DOMAIN dirs[build] \cup {SumsName(NextSums)}
      BY <2>7, WriteSumsFiles
    <3>3. /\ GpgName(f) # SumsName(NextSums) /\ stage # "gpg"
          /\ f # NextSums => SumsName(f) # SumsName(NextSums)
      BY <2>7 DEF SumsName, GpgName, WriteSums
    <3>4. CASE f = NextSums
      BY <2>1, <3>1, <3>2, <3>3, <3>4 DEF Fits
    <3>5. CASE f # NextSums
      BY <2>1, <2>4, <3>2, <3>3, <3>5
    <3>. QED
      BY <3>4, <3>5
  <2>10. CASE RemoveSums
    <3>1. NextSums \in left /\ GpgName(NextSums) \notin DOMAIN dirs[build]
      BY <2>10, NextIsLeft DEF FilesInv, NamesInv, RemoveSums, GpgName
    <3>2. Fills({SumsName(NextSums)}) /\ DOMAIN There.names = DOMAIN dirs[build] \ {SumsName(NextSums)}
      BY <2>10, RemoveSumsFiles
    <3>3. /\ GpgName(f) # SumsName(NextSums) /\ stage # "gpg"
          /\ f # NextSums => SumsName(f) # SumsName(NextSums)
      BY <2>10 DEF SumsName, GpgName, RemoveSums
    <3>4. CASE f = NextSums
      BY <2>1, <3>1, <3>2, <3>3, <3>4 DEF Fits
    <3>5. CASE f # NextSums
      BY <2>1, <2>4, <3>2, <3>3, <3>5
    <3>. QED
      BY <3>4, <3>5
  <2>8. CASE OpenSignature
    <3>1. /\ Fills({GpgName(NextSums)}) /\ stage' = "gpg" /\ stage # "gpg" /\ NextSums' = NextSums
      BY <2>8, OpenSignatureFiles, NextStays DEF OpenSignature, Goto, progress
    <3>2. f # NextSums => GpgName(f) # GpgName(NextSums) /\ SumsName(f) # GpgName(NextSums)
      BY DEF SumsName, GpgName
    <3>. QED
      BY <2>1, <2>4, <3>1, <3>2
  <2>9. CASE SignCdimage
    <3>. DEFINE name == GpgName(NextSums)
                sums == SumsName(NextSums)
    <3>1. /\ Fills({name})
          /\ \/ /\ DOMAIN There.names = DOMAIN dirs[build]
                /\ At(There, name) = Signature(At(Here, sums))
             \/ DOMAIN There.names = DOMAIN dirs[build] \ {name}
      BY <2>9, SignCdimageFiles
    <3>2. sums \in DOMAIN dirs[build] /\ sums # name
      BY <2>9 DEF FilesInv, NamesInv, SignCdimage, SumsName, GpgName
    <3>3. f # NextSums => GpgName(f) # name /\ SumsName(f) # name
      BY DEF SumsName, GpgName
    <3>4. CASE f = NextSums
      <4>1. sums \in DOMAIN There.names /\ At(There, sums) = At(Here, sums)
        BY <2>1, <3>1, <3>2, FillsSame
      <4>. QED
        BY <2>1, <3>1, <3>4, <4>1 DEF Fits
    <3>5. CASE f # NextSums
      <4>1. Fits(Here, f)
        BY <2>2, <3>5
      <4>2. \A m \in DOMAIN There.names \ {name} : m \in DOMAIN dirs[build]
        BY <3>1
      <4>3. \A m \in DOMAIN dirs[build] \ {name} : m \in DOMAIN There.names /\ At(There, m) = At(Here, m)
        BY <2>1, <3>1, FillsSame
      <4>4. GpgName(f) # name /\ SumsName(f) # name
        BY <3>3, <3>5
      <4>. QED
        BY <2>1, <4>1, <4>2, <4>3, <4>4 DEF Fits
    <3>. QED
      BY <3>4, <3>5
  <2>. QED
    BY <1>3, <2>5, <2>6, <2>7, <2>8, <2>9, <2>10 DEF FillStep
<1>4. CASE Rest
  <2>1. /\ n = build /\ build' = build /\ n \in DOMAIN dirs /\ UNCHANGED files /\ Dir(n)' = Dir(n)
    BY <1>4, SameDir DEF Rest, files
  <2>2. Fits(Dir(n), f) \/ (stage = "gpg" /\ f = NextSums)
    BY <2>1 DEF SignaturesInv
  <2>3. CASE stage = "gpg" /\ f = NextSums
    <3>1. Crash \/ (stage' = stage /\ left' = left)
      BY <1>4, <2>3 DEF Rest, PrepareCheckInstallable, CheckInstallable, AllMoved, MergeAll,
         MakeWebIndices, UnlinkCurrent, Symlink, WriteManifest, PostQA
    <3>2. CASE Crash
      <4>1. crashes' = crashes + 1 /\ crashes \in Nat /\ stage' = "idle" /\ current' = current
        BY <3>2 DEF Crash, End, Goto, SignaturesInv
      <4>2. current # n
        BY <2>1, <2>3 DEF FilesInv, Course, Filling
      <4>. QED
        BY <4>1, <4>2 DEF Abandoned
    <3>3. CASE stage' = stage /\ left' = left
      BY <2>3, <3>3, NextStays
    <3>. QED
      BY <3>1, <3>2, <3>3
  <2>. QED
    BY <2>1, <2>2, <2>3 DEF Fits
<1>. QED
  BY <1>1, <1>2, <1>3, <1>4, Steps

LEMMA SignaturesNext == FilesInv /\ SignaturesInv /\ [Next]_vars => SignaturesInv'
<1>. SUFFICES ASSUME FilesInv, SignaturesInv, [Next]_vars PROVE SignaturesInv'
  OBVIOUS
<1>1. crashes' \in Nat
  BY CrashesCount DEF SignaturesInv
<1>2. ASSUME NEW n \in DOMAIN dirs', NEW f \in SumsFiles
      PROVE  Fits(Dir(n)', f) \/ (n = build' /\ stage' = "gpg" /\ f = NextSums') \/ Abandoned(n)'
  <2>1. CASE n \in DOMAIN dirs /\ Abandoned(n)
    BY <2>1, AbandonedStays
  <2>2. CASE n = build' /\ ~(n \in DOMAIN dirs /\ Abandoned(n))
    BY <2>2, BuildsSignatures
  <2>3. CASE n # build' /\ ~(n \in DOMAIN dirs /\ Abandoned(n))
    <3>1. n \in DOMAIN dirs /\ SameFiles(Dir(n), Dir(n)')
      BY <2>3, OthersOld, OthersSame
    <3>2. ~(n = build /\ stage = "gpg")
      <4>1. stage # "idle" => build' = build
        BY DEF Next, Publish, BuildAll, PrepareCheckInstallable, CheckInstallable, Rptprobs,
           OtherSeriesChecks, NewPublishDir, PublishBinary, AllMoved, TestReport, CopyReport, MergeAll,
           WriteSums, RemoveSums, OpenSignature, SignCdimage, MakeWebIndices, UnlinkCurrent,
           Symlink, WriteManifest,
           PostQA, Crash, steady, vars, publishVars
      <4>. QED
        BY <2>3, <4>1
    <3>3. Fits(Dir(n), f)
      BY <2>3, <3>1, <3>2 DEF SignaturesInv
    <3>. QED
      BY <3>1, <3>3 DEF Fits, SameFiles
  <2>. QED
    BY <2>1, <2>2, <2>3
<1>. QED
  BY <1>1, <1>2 DEF SignaturesInv

(* Images that the ISO tracker has heard of.                                   *)
PostOk(fs, p) ==
    \E m \in DOMAIN fs.names :
        /\ At(fs, m).is = "image" /\ At(fs, m).arch = p[2] /\ At(fs, m).from = p[1]
        /\ WantImage(m) => \A f \in SumsFiles : SumsName(f) \in DOMAIN fs.names
                                                /\ m \in DOMAIN At(fs, SumsName(f)).of

PostedInv ==
    \A p \in posted :
        /\ p[1] \in DOMAIN dirs /\ (p[1] = build => stage = "idle")
        /\ PostOk(Dir(p[1]), p)

LEMMA PostedInit == Init => PostedInv
  BY DEF Init, PostedInv

LEMMA PostOkStays ==
  ASSUME NEW fs, NEW gs, NEW p, SameFiles(fs, gs), PostOk(fs, p)
  PROVE  PostOk(gs, p)
  BY DEF SameFiles, PostOk

LEMMA PostedOnly ==
  ASSUME [Next]_vars
  PROVE  posted' = posted \/ PostQA
  BY DEF Next, Publish, BuildAll, PrepareCheckInstallable, CheckInstallable, Rptprobs,
     OtherSeriesChecks, NewPublishDir, PublishBinary, AllMoved, TestReport, CopyReport, MergeAll,
     WriteSums, RemoveSums, OpenSignature, SignCdimage, MakeWebIndices, UnlinkCurrent, Symlink,
     WriteManifest,
     PostQA, Crash, vars, publishVars

LEMMA BuildOnly ==
  ASSUME [Next]_vars
  PROVE  \/ build' = build + 1 /\ stage = "idle"
         \/ build' = build /\ stage # "idle"
         \/ UNCHANGED vars
<1>1. ASSUME NEW wanted, NEW made, BuildAll(wanted, made) PROVE build' = build + 1 /\ stage = "idle"
  BY <1>1 DEF BuildAll
<1>2. Publish \/ Rptprobs \/ OtherSeriesChecks \/ Crash => build' = build /\ stage # "idle"
  BY DEF Publish, PrepareCheckInstallable, CheckInstallable, Rptprobs, OtherSeriesChecks,
     NewPublishDir, PublishBinary, AllMoved, TestReport, CopyReport, MergeAll, WriteSums, RemoveSums,
     OpenSignature, SignCdimage, MakeWebIndices, UnlinkCurrent, Symlink, WriteManifest, PostQA,
     Crash, steady
<1>. QED
  BY <1>1, <1>2 DEF Next

LEMMA PostedNext ==
  FilesInv /\ ImagesInv /\ ChecksumsInv /\ CompleteInv /\ PostedInv /\ [Next]_vars => PostedInv'
<1>. SUFFICES ASSUME FilesInv, ImagesInv, ChecksumsInv, CompleteInv, PostedInv, [Next]_vars,
                     NEW p \in posted', NEW n, n = p[1]
     PROVE  n \in DOMAIN dirs' /\ (n = build' => stage' = "idle") /\ PostOk(Dir(n)', p)
  <2>1. PostedInv' <=> \A p \in posted' :
           p[1] \in DOMAIN dirs' /\ (p[1] = build' => stage' = "idle") /\ PostOk(Dir(p[1])', p)
    BY DEF PostedInv
  <2>. QED
    BY <2>1
<1>1. CASE UNCHANGED vars
  <2>1. UNCHANGED <<dirs, build, stage, posted, files>>
    BY <1>1 DEF vars, publishVars, files
  <2>. QED
    BY <2>1, UnchangedSame, PostOkStays DEF PostedInv
<1>2. CASE p \in posted /\ ~UNCHANGED vars
  <2>1. n \in DOMAIN dirs /\ n # build' /\ PostOk(Dir(n), p)
    BY <1>2, BuildOnly DEF PostedInv, FilesInv, DirsInv, Course
  <2>. QED
    BY <2>1, OthersSame, PostOkStays
<1>3. CASE p \notin posted /\ ~UNCHANGED vars
  <2>1. /\ PostQA /\ stage = "post-qa" /\ stage' = "idle" /\ UNCHANGED <<build, files, dirs>>
        /\ n = build /\ p[2] \in published
    BY <1>3, PostedOnly DEF PostQA, End, Goto, steady, files
  <2>2. n \in DOMAIN dirs /\ Here = Dir(n) /\ Here.names = dirs[n]
    BY <2>1 DEF FilesInv, Course, Filling, Here, Dir
  <2>3. /\ OwnImages(Here) /\ SumsRight(Here)
        /\ Summed(Here) => \A f \in SumsFiles : SumsName(f) \in DOMAIN Here.names
    BY <2>1, <2>2 DEF ImagesInv, Filling, ChecksumsInv, CompleteInv, Finished
  <2>. DEFINE m == ImageName(p[2])
  <2>4. /\ m \in DOMAIN Here.names /\ At(Here, m) = Image(p[2])
    BY <2>1, <2>3 DEF OwnImages
  <2>5. Image(p[2]).is = "image" /\ Image(p[2]).arch = p[2] /\ Image(p[2]).from = p[1]
    BY <2>1 DEF Image
  <2>6. WantImage(m) => \A f \in SumsFiles : /\ SumsName(f) \in DOMAIN Here.names
                                            /\ m \in DOMAIN At(Here, SumsName(f)).of
    BY <2>3, <2>4 DEF SumsRight, EntriesRight, Summed
  <2>7. PostOk(Here, p)
    BY <2>4, <2>5, <2>6 DEF PostOk
  <2>. QED
    BY <2>1, <2>2, <2>7, UnchangedSame, PostOkStays
<1>. QED
  BY <1>1, <1>2, <1>3

(* Marks.                                                                      *)
ImagesOf(fs, a) == {m \in DOMAIN fs.names : m[1] = a /\ At(fs, m).is = "image"}

MarkRight(fs, a) ==
    Mark(a) \in DOMAIN fs.names <=>
        \E x \in ImagesOf(fs, a) :
            /\ \A y \in ImagesOf(fs, a) : At(fs, x).from >= At(fs, y).from
            /\ At(fs, x).size > size_limit_extension(x[2])

MarksRight(fs) == \A m \in OfSeries(DOMAIN fs.names) : MarkRight(fs, m[1])

MarksInv ==
    /\ current # 0 => MarksRight(Dir(current))
    /\ stage \in Filling => MarksRight(Here)

LEMMA MarksInit == Init => MarksInv
  BY DEF Init, MarksInv, Filling

LEMMA MarkSame ==
  ASSUME NEW fs, NEW gs, NEW a, MarkRight(fs, a),
         \A m \in DOMAIN fs.names : m[1] = a => m \in DOMAIN gs.names /\ At(gs, m) = At(fs, m),
         \A m \in DOMAIN gs.names : m[1] = a => m \in DOMAIN fs.names
  PROVE  MarkRight(gs, a)
<1>1. ImagesOf(fs, a) = ImagesOf(gs, a) /\ \A m \in ImagesOf(fs, a) : At(gs, m) = At(fs, m)
  BY DEF ImagesOf
<1>2. Mark(a) \in DOMAIN fs.names <=> Mark(a) \in DOMAIN gs.names
  BY DEF Mark
<1>. QED
  BY <1>1, <1>2 DEF MarkRight

LEMMA MarksSame ==
  ASSUME NEW fs, NEW gs, SameFiles(fs, gs), MarksRight(fs)
  PROVE  MarksRight(gs)
  BY MarkSame DEF SameFiles, MarksRight

(* publish_binary compares the size of the image that it has moved, which is   *)
(* the newest one, and the only one of this build.                             *)
LEMMA OwnMark ==
  ASSUME FilesInv, ImagesInv, PublishBinary, NEW a, a = Head(arches), Raw(a) # NoImage, stage' # "idle"
  PROVE  MarkRight(There, a)
<1>. DEFINE image == ImageName(a)
<1>1. /\ image \in DOMAIN There.names /\ At(There, image) = Image(a)
      /\ Mark(a) \in DOMAIN There.names <=> TooLarge(a)
  BY PublishBinaryFiles
<1>2. /\ Images(There, build)
      /\ \A m \in DOMAIN There.names :
             At(There, m).is = "image" /\ At(There, m).from = build => m = ImageName(m[1])
  BY BinaryImages
<1>3. build \in Nat
  BY DEF FilesInv, Course
<1>4. /\ image[1] = a /\ Image(a).is = "image" /\ Image(a).from = build /\ Image(a).size = Raw(a).size
      /\ size_limit_extension(image[2]) = size_limit_extension(detect_image_extension(a))
  BY ImageNameIsOne DEF Image, ImageName
<1>5. image \in ImagesOf(There, a)
  BY <1>1, <1>4 DEF ImagesOf
<1>6. \A y \in ImagesOf(There, a) : At(There, y).from \in 1 .. build
  BY <1>2 DEF Images, ImagesOf
<1>7. \A y \in ImagesOf(There, a) : At(There, image).from >= At(There, y).from
  BY <1>1, <1>3, <1>4, <1>6
<1>8. \A x \in ImagesOf(There, a) : At(There, x).from >= At(There, image).from => x = image
  <2>. SUFFICES ASSUME NEW x \in ImagesOf(There, a), At(There, x).from >= At(There, image).from
       PROVE  x = image
    OBVIOUS
  <2>1. At(There, x).from = build
    BY <1>1, <1>3, <1>4, <1>6
  <2>. QED
    BY <1>2, <2>1 DEF ImagesOf
<1>9. At(There, image).size > size_limit_extension(image[2]) <=> TooLarge(a)
  BY <1>1, <1>4 DEF TooLarge
<1>. HIDE DEF image
<1>. QED
  BY <1>1, <1>5, <1>7, <1>8, <1>9 DEF MarkRight

LEMMA MarksOfBuild ==
  ASSUME FilesInv, ImagesInv, MarksInv, [Next]_vars, stage' \in Filling
  PROVE  MarksRight(Here')
<1>1. ASSUME NEW wanted, NEW made, BuildAll(wanted, made) PROVE FALSE
  BY <1>1 DEF BuildAll, Goto, Filling
<1>2. CASE NewPublishDir
  <2>1. /\ build' = build /\ current = base /\ data' = data
        /\ dirs'[build] = IF current = 0 THEN <<>>
                          ELSE Restrict(dirs[current], OfSeries(DOMAIN dirs[current]))
    BY <1>2 DEF NewPublishDir, FilesInv, Course, Preparing, steady
  <2>2. Here' = There
    BY <2>1 DEF Here, There
  <2>3. ASSUME NEW m \in OfSeries(DOMAIN There.names)
        PROVE  MarkRight(There, m[1])
    <3>1. base \in DOMAIN dirs /\ base \in 1 .. build /\ m \in DOMAIN dirs[base] /\ m[1] \notin NoImages
      BY <1>2, <2>3, NewDirFiles DEF OfSeries
    <3>2. current = base /\ current # 0
      BY <2>1, <3>1
    <3>3. MarkRight(Dir(base), m[1])
      BY <3>1, <3>2 DEF MarksInv, MarksRight, OfSeries, Dir, NoImages
    <3>4. \A k \in DOMAIN dirs[base] : k[1] = m[1] => k \in DOMAIN There.names
      BY <2>1, <3>1, <3>2 DEF Restrict, OfSeries, There, NoImages
    <3>5. \A k \in DOMAIN There.names : k \in DOMAIN dirs[base] /\ At(There, k) = At(Dir(base), k)
      BY <1>2, NewDirFiles
    <3>6. Dir(base).names = dirs[base]
      BY DEF Dir
    <3>. QED
      BY <3>3, <3>4, <3>5, <3>6, MarkSame
  <2>. QED
    BY <2>2, <2>3 DEF MarksRight
<1>3. CASE PublishBinary
  <2>. DEFINE a == Head(arches)
  <2>1. /\ Here' = There /\ Here.names = dirs[build] /\ stage \in Filling /\ DirsInv /\ stage' # "idle"
    BY <1>3 DEF Here, There, PublishBinary, steady, FilesInv, Filling
  <2>2. Fills(Touched(a)) /\ (Raw(a) = NoImage => \A m \in DOMAIN There.names : m[1] # a)
    BY <1>3, PublishBinaryFiles
  <2>3. Raw(a) # NoImage => MarkRight(There, a)
    BY <1>3, <2>1, OwnMark
  <2>4. \A m \in Touched(a) : m[1] = a
    BY TouchedIsOf
  <2>. HIDE DEF a
  <2>5. ASSUME NEW m \in OfSeries(DOMAIN There.names), m[1] # a
        PROVE  MarkRight(There, m[1])
    <3>1. m \in OfSeries(DOMAIN dirs[build])
      BY <2>2, <2>4, <2>5, ThereHas DEF OfSeries
    <3>2. MarkRight(Here, m[1])
      BY <2>1, <3>1 DEF MarksInv, MarksRight
    <3>3. \A k \in DOMAIN dirs[build] : k[1] = m[1] => k \in DOMAIN There.names /\ At(There, k) = At(Here, k)
      BY <2>1, <2>2, <2>4, <2>5, FillsSame
    <3>4. \A k \in DOMAIN There.names : k[1] = m[1] => k \in DOMAIN dirs[build]
      BY <2>2, <2>4, <2>5, ThereHas
    <3>. QED
      BY <2>1, <3>2, <3>3, <3>4, MarkSame
  <2>6. ASSUME NEW m \in OfSeries(DOMAIN There.names), m[1] = a
        PROVE  MarkRight(There, m[1])
    BY <2>2, <2>3, <2>6 DEF OfSeries
  <2>. QED
    BY <2>1, <2>5, <2>6 DEF MarksRight
<1>4. CASE FillStep /\ ~PublishBinary
  <2>1. /\ Here' = There /\ Here.names = dirs[build] /\ stage \in Filling /\ DirsInv
    BY <1>4, FillingNotCurrent DEF Here, There, FilesInv
  <2>2. CASE UNCHANGED files
    BY <1>4, <2>1, <2>2, FillingNotCurrent DEF MarksInv, Here, files
  <2>3. ASSUME NEW names, PlainFill(names) PROVE MarksRight(There)
    <3>1. Fills(names) /\ \A m \in names : m[1] \in NoImages
      BY <2>3 DEF PlainFill
    <3>2. ASSUME NEW m \in OfSeries(DOMAIN There.names)
          PROVE  MarkRight(There, m[1])
      <4>1. m[1] \notin NoImages /\ m \in OfSeries(DOMAIN dirs[build])
        BY <3>1, ThereHas DEF OfSeries, NoImages
      <4>2. MarkRight(Here, m[1])
        BY <2>1, <4>1 DEF MarksInv, MarksRight
      <4>3. \A k \in DOMAIN dirs[build] : k[1] = m[1] => k \in DOMAIN There.names /\ At(There, k) = At(Here, k)
        BY <2>1, <3>1, <4>1, FillsSame
      <4>4. \A k \in DOMAIN There.names : k[1] = m[1] => k \in DOMAIN dirs[build]
        BY <3>1, <4>1, ThereHas
      <4>. QED
        BY <2>1, <4>2, <4>3, <4>4, MarkSame
    <3>. QED
      BY <3>2 DEF MarksRight
  <2>. QED
    BY <1>4, <2>1, <2>2, <2>3, PlainFills
<1>5. CASE Rest
  <2>1. Here' = Here /\ stage \in Filling
    BY <1>5 DEF Rest, Here, files, PrepareCheckInstallable, CheckInstallable, AllMoved, MergeAll, MakeWebIndices,
       UnlinkCurrent, Symlink, WriteManifest, PostQA, Crash, Raise, End, Goto, Filling
  <2>. QED
    BY <2>1 DEF MarksInv
<1>. QED
  BY <1>1, <1>2, <1>3, <1>4, <1>5, Steps

LEMMA MarksNext == FilesInv /\ ImagesInv /\ MarksInv /\ [Next]_vars => MarksInv'
<1>. SUFFICES ASSUME FilesInv, ImagesInv, MarksInv, [Next]_vars PROVE MarksInv'
  OBVIOUS
<1>1. ASSUME current' # 0 PROVE MarksRight(Dir(current)')
  <2>1. PICK n : n = current'
    OBVIOUS
  <2>2. SameFiles(Dir(n), Dir(n)') /\ (n = current \/ (stage = "symlink" /\ n = build))
    BY <1>1, <2>1, CurrentSame
  <2>3. MarksRight(Dir(n))
    <3>1. n = build => Here = Dir(n)
      BY DEF Here, Dir
    <3>. QED
      BY <1>1, <2>1, <2>2, <3>1 DEF MarksInv, Filling
  <2>4. MarksRight(Dir(n)')
    BY <2>2, <2>3, MarksSame
  <2>. QED
    BY <2>1, <2>4 DEF Dir
<1>. QED
  BY <1>1, MarksOfBuild DEF MarksInv

(* What `current' leads to has every checksum file with an entry for all that  *)
(* should have one, signed if there is a key (and neither checksum files nor   *)
(* signatures if nothing should have one), and marks of the newest images;     *)
(* no signature is of another file but one that gpg had not finished when the  *)
(* machine stopped; and the ISO tracker hears of images that are there: after  *)
(* any builds, failures and crashes (publish, checksum_directory, sign_cdimage,*)
(* publish_binary, post-qa).                                                   *)
THEOREM PublishedAreWhole == Spec => []PublishedIsWhole
<1>. DEFINE Inv == /\ FilesInv /\ ChecksumsInv /\ CompleteInv
                   /\ SignaturesInv /\ PostedInv /\ MarksInv
<1>1. Inv => CurrentIsComplete
  <2>. SUFFICES ASSUME Inv, current # 0, NEW f \in SumsFiles, NEW n, n = current
       PROVE  LET summed == {m \in DOMAIN Contents(n) : WantImage(m)}
              IN /\ SumsName(f) \in DOMAIN Contents(n) <=> summed # {}
                 /\ GpgName(f) \in DOMAIN Contents(n) <=> summed # {} /\ Keys
                 /\ summed # {} => DOMAIN Contents(n)[SumsName(f)].of = summed
    BY DEF CurrentIsComplete, SumsName, GpgName
  <2>1. n \in DOMAIN dirs /\ Finished(Dir(n), f) /\ SumsRight(Dir(n))
    BY DEF FilesInv, Course, CompleteInv, ChecksumsInv
  <2>2. /\ DOMAIN Contents(n) = DOMAIN dirs[n] /\ Dir(n).names = dirs[n]
        /\ \A m \in DOMAIN dirs[n] : Contents(n)[m] = At(Dir(n), m)
    BY DEF Contents, Dir, At
  <2>. QED
    BY <2>1, <2>2 DEF Finished, Summed, SumsRight, EntriesRight
<1>2. Inv => SignaturesFit
  <2>. SUFFICES ASSUME Inv, NEW n \in DOMAIN dirs, NEW f \in SumsFiles, GpgName(f) \in DOMAIN dirs[n],
                       ~(n = build /\ stage = "gpg" /\ f = NextSums), ~(crashes > 0 /\ n # current)
       PROVE  Contents(n)[GpgName(f)] = Signature(Contents(n)[SumsName(f)])
    BY DEF SignaturesFit, SumsName, GpgName
  <2>1. Fits(Dir(n), f)
    BY DEF SignaturesInv, Abandoned
  <2>2. /\ Dir(n).names = dirs[n] /\ \A m \in DOMAIN dirs[n] : Contents(n)[m] = At(Dir(n), m)
    BY DEF Contents, Dir, At
  <2>. QED
    BY <2>1, <2>2 DEF Fits
<1>3. Inv => PostedIsThere
  <2>. SUFFICES ASSUME Inv, NEW p \in posted, NEW n, n = p[1]
       PROVE  \E m \in DOMAIN dirs[n] :
                 /\ Contents(n)[m].is = "image" /\ Contents(n)[m].arch = p[2] /\ Contents(n)[m].from = n
                 /\ WantImage(m) => \A f \in SumsFiles : m \in DOMAIN Contents(n)[SumsName(f)].of
    BY DEF PostedIsThere, SumsName
  <2>1. PostOk(Dir(n), p)
    BY DEF PostedInv
  <2>2. /\ Dir(n).names = dirs[n] /\ \A m \in DOMAIN dirs[n] : Contents(n)[m] = At(Dir(n), m)
    BY DEF Contents, Dir, At
  <2>. QED
    BY <2>1, <2>2 DEF PostOk
<1>4. Inv => MarksAreRight
  <2>. DEFINE listed == Contents(current)
              names == OfSeries(DOMAIN listed)
              images(a) == {name \in names : name[1] = a /\ listed[name].is = "image"}
  <2>. SUFFICES ASSUME Inv, current # 0, NEW a \in {name[1] : name \in names}
       PROVE  <<a, "OVERSIZED">> \in names <=>
                \E x \in images(a) :
                    /\ \A y \in images(a) : listed[x].from >= listed[y].from
                    /\ listed[x].size > size_limit_extension(x[2])
    BY Zenon DEF MarksAreRight
  <2>1. PICK n : n = current
    OBVIOUS
  <2>2. /\ DOMAIN listed = DOMAIN dirs[n] /\ Dir(n).names = dirs[n]
        /\ \A x \in DOMAIN dirs[n] : listed[x] = At(Dir(n), x)
    BY <2>1 DEF Contents, Dir, At
  <2>. HIDE DEF listed
  <2>3. PICK m \in names : a = m[1]
    OBVIOUS
  <2>4. MarkRight(Dir(n), a)
    <3>1. MarksRight(Dir(n))
      BY <2>1 DEF MarksInv, Dir
    <3>. QED
      BY <2>2, <2>3, <3>1 DEF MarksRight
  <2>5. images(a) = ImagesOf(Dir(n), a)
    BY <2>2, <2>3 DEF ImagesOf, OfSeries
  <2>6. <<a, "OVERSIZED">> \in names <=> Mark(a) \in DOMAIN dirs[n]
    BY <2>2, <2>3 DEF OfSeries, Mark
  <2>7. \A x \in images(a) : listed[x] = At(Dir(n), x)
    BY <2>2, <2>5 DEF ImagesOf
  <2>. HIDE DEF images, names
  <2>. QED
    BY <2>2, <2>4, <2>5, <2>6, <2>7 DEF MarkRight
<1>5. Spec => []Inv
  <2>1. Spec => []CompleteInv
    BY CompleteInit, CompleteNext, FilesAlways, ImagesAlways, ChecksumsAlways, PTL DEF Spec
  <2>2. Spec => []SignaturesInv
    BY SignaturesInit, SignaturesNext, FilesAlways, PTL DEF Spec
  <2>3. Spec => []PostedInv
    BY PostedInit, PostedNext, FilesAlways, ImagesAlways, ChecksumsAlways, <2>1, PTL DEF Spec
  <2>4. Spec => []MarksInv
    BY MarksInit, MarksNext, FilesAlways, ImagesAlways, PTL DEF Spec
  <2>. QED
    BY <2>1, <2>2, <2>3, <2>4, FilesAlways, ChecksumsAlways, PTL
<1>6. Inv => PublishedIsWhole
  BY <1>1, <1>2, <1>3, <1>4 DEF PublishedIsWhole
<1>. QED
  BY <1>5, <1>6, PTL
=============================================================================
