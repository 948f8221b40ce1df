-------------------------- MODULE DailyTreeProofs --------------------------
(***************************************************************************)
(* Theorems about the tree of daily builds, for every number of image sets *)
(* and days, and with crashes between any two steps.                       *)
(***************************************************************************)
EXTENDS DailyTree, TLAPS

USE NobodyAssumption, NoIdAssumption, KeepDaysAssumption, BoundsAssumption

LEMMA Newness ==
  /\ \A i \in Ids : ~Newer(i, i)
  /\ \A i, j \in Ids : Newer(i, j) => i # j /\ ~Newer(j, i)
  /\ \A i, j, k \in Ids : Newer(i, j) /\ Newer(j, k) => Newer(i, k)
  BY DEF Ids, Newer

\* The part of TypeOK that speaks of what a process keeps to itself.
OwnOK ==
    /\ pc \in [ImageSets -> PCs]
    /\ date \in [ImageSets -> Ids]
    /\ unseen \in [ImageSets -> SUBSET ImageSets]
    /\ found \in [ImageSets -> SUBSET (ImageSets \X Ids)]
    /\ todo \in [ImageSets -> SUBSET Ids]

LEMMA TypeInit == Init => TypeOK
  BY DEF Init, TypeOK, Ids, PCs

LEMMA OwnEnds ==
  ASSUME TypeOK, NEW s \in ImageSets, Ends(s)
  PROVE  OwnOK'
  BY DEF TypeOK, OwnOK, Ids, PCs, Ends

LEMMA OwnGoes ==
  ASSUME TypeOK, NEW s \in ImageSets, NEW from \in PCs, NEW to \in PCs,
         Goto(s, from, to), UNCHANGED own
  PROVE  OwnOK'
  BY DEF TypeOK, OwnOK, Goto, own

LEMMA TypeBuild ==
  ASSUME TypeOK, NEW s \in ImageSets,
         \/ next_build_id(s) \/ Build(s) \/ BuildFails(s) \/ new_publish_dir(s)
         \/ publish_images(s) \/ NoImages(s) \/ ImagesFail(s)
  PROVE  TypeOK'
<1>1. CASE next_build_id(s)
  <2>1. Suffix(s) \in Nat /\ today \in Nat
    BY DEF Suffix, TypeOK, Ids
  <2>2. <<today, Suffix(s)>> \in Ids /\ <<today, Suffix(s) + 1>> \in Ids
    BY <2>1 DEF Ids
  <2> QED
    BY <1>1, <2>2 DEF next_build_id, Goto, TypeOK, tree, lists, PCs
<1>2. CASE Build(s)
  BY <1>2 DEF Build, Goto, TypeOK, tree, lists, own, PCs
<1>3. CASE BuildFails(s)
  BY <1>3, OwnEnds DEF BuildFails, Fails, OwnOK, TypeOK, tree, lists
<1>4. CASE new_publish_dir(s)
  <2>1. OwnOK'
    BY <1>4, OwnEnds, OwnGoes DEF new_publish_dir, Fails, PCs
  <2>2. dirs' \in [ImageSets -> SUBSET Ids]
    BY <1>4 DEF new_publish_dir, TypeOK
  <2>3. complete' \in [ImageSets -> SUBSET Ids]
    BY <1>4 DEF new_publish_dir, TypeOK
  <2> QED
    BY <1>4, <2>1, <2>2, <2>3 DEF new_publish_dir, OwnOK, TypeOK, lists
<1>5. CASE publish_images(s)
  <2>1. OwnOK'
    BY <1>5, OwnGoes DEF publish_images, PCs
  <2>2. complete' \in [ImageSets -> SUBSET Ids]
    BY <1>5 DEF publish_images, TypeOK
  <2> QED
    BY <1>5, <2>1, <2>2 DEF publish_images, OwnOK, TypeOK, lists
<1>6. CASE NoImages(s)
  <2>1. Expired(s) \subseteq Ids
    BY DEF Expired, TypeOK
  <2>2. pc' \in [ImageSets -> PCs] /\ todo' \in [ImageSets -> SUBSET Ids]
    BY <1>6, <2>1 DEF NoImages, Goto, TypeOK, PCs
  <2> QED
    BY <1>6, <2>2 DEF NoImages, TypeOK, tree, lists
<1>7. CASE ImagesFail(s)
  BY <1>7, OwnEnds DEF ImagesFail, Fails, OwnOK, TypeOK, tree, lists
<1> QED
  BY <1>1, <1>2, <1>3, <1>4, <1>5, <1>6, <1>7

LEMMA TypeFlip ==
  ASSUME TypeOK, NEW s \in ImageSets,
         \/ UnlinkCurrent(s) \/ SymlinkCurrent(s) \/ LockManifest(s)
         \/ LockFails(s) \/ \E t \in ImageSets : WalkImageSet(s, t)
         \/ WalkFails(s)
  PROVE  TypeOK'
<1>1. CASE UnlinkCurrent(s)
  BY <1>1 DEF UnlinkCurrent, Goto, TypeOK, lists, own, PCs
<1>2. CASE SymlinkCurrent(s)
  BY <1>2 DEF SymlinkCurrent, Goto, TypeOK, lists, own, PCs
<1>3. CASE LockManifest(s)
  <2>1. OwnOK'
    BY <1>3 DEF LockManifest, StartWalk, Goto, TypeOK, OwnOK, PCs
  <2> QED
    BY <1>3, <2>1 DEF LockManifest, OwnOK, TypeOK, tree
<1>4. CASE LockFails(s)
  BY <1>4, OwnEnds DEF LockFails, Fails, OwnOK, TypeOK, tree, lists
<1>5. ASSUME NEW t \in ImageSets, WalkImageSet(s, t) PROVE TypeOK'
  <2>1. current[t] \in dirs[t] => <<t, current[t]>> \in ImageSets \X Ids
    BY DEF TypeOK
  <2>2. (IF current[t] \in dirs[t] THEN found[s] \cup {<<t, current[t]>>}
                                   ELSE found[s]) \subseteq ImageSets \X Ids
    BY <2>1 DEF TypeOK
  <2>3. found' \in [ImageSets -> SUBSET (ImageSets \X Ids)]
    BY <1>5, <2>2 DEF WalkImageSet, TypeOK
  <2>4. unseen' \in [ImageSets -> SUBSET ImageSets]
    BY <1>5 DEF WalkImageSet, TypeOK
  <2> QED
    BY <1>5, <2>3, <2>4 DEF WalkImageSet, TypeOK, tree, lists
<1>6. CASE WalkFails(s)
  BY <1>6, OwnEnds DEF WalkFails, Fails, OwnOK, TypeOK, tree
<1> QED
  BY <1>1, <1>2, <1>3, <1>4, <1>5, <1>6

LEMMA TypeEnd ==
  ASSUME TypeOK, NEW s \in ImageSets,
         \/ WriteManifest(s) \/ WriteTrace(s) \/ post_qa(s) \/ PostQaFails(s)
         \/ PurgeOldImages(s) \/ Crash(s)
  PROVE  TypeOK'
<1>1. CASE WriteManifest(s)
  <2>1. OwnOK' /\ manifest' \subseteq ImageSets \X Ids
    BY <1>1, OwnGoes DEF WriteManifest, TypeOK, PCs
  <2> QED
    BY <1>1, <2>1 DEF WriteManifest, OwnOK, TypeOK, tree
<1>2. CASE WriteTrace(s)
  <2>1. OwnOK'
    BY <1>2, OwnGoes, OwnEnds DEF WriteTrace, Fails, PCs
  <2> QED
    BY <1>2, <2>1 DEF WriteTrace, OwnOK, TypeOK, tree
<1>3. CASE post_qa(s)
  <2>1. Expired(s) \subseteq Ids
    BY DEF Expired, TypeOK
  <2> QED
    BY <1>3, <2>1 DEF post_qa, Goto, TypeOK, tree, PCs
<1>4. CASE PostQaFails(s)
  <2>1. OwnOK' /\ announced' \in [ImageSets -> Ids \cup {NoId}]
    BY <1>4, OwnEnds DEF PostQaFails, Fails, TypeOK
  <2> QED
    BY <1>4, <2>1 DEF PostQaFails, OwnOK, TypeOK, tree
<1>5. ASSUME NEW id \in todo[s], Purge(s, id) PROVE TypeOK'
  <2>1. todo' \in [ImageSets -> SUBSET Ids]
    BY <1>5 DEF Purge, RemoveDirectory, TypeOK
  <2>2. dirs' \in [ImageSets -> SUBSET Ids]
    BY <1>5 DEF Purge, RemoveDirectory, TypeOK
  <2>3. complete' \in [ImageSets -> SUBSET Ids]
    BY <1>5 DEF Purge, RemoveDirectory, TypeOK
  <2> QED
    BY <1>5, <2>1, <2>2, <2>3 DEF Purge, RemoveDirectory, TypeOK, lists
<1>6. CASE PurgeDone(s)
  BY <1>6, OwnEnds DEF PurgeDone, Fails, OwnOK, TypeOK, tree, lists
<1>7. CASE Crash(s)
  <2>1. OwnOK' /\ crashes' \in 0..MaxCrashes
    BY <1>7, OwnEnds DEF Crash, TypeOK
  <2> QED
    BY <1>7, <2>1 DEF Crash, OwnOK, TypeOK, tree, lists
<1> QED
  BY <1>1, <1>2, <1>3, <1>4, <1>5, <1>6, <1>7 DEF PurgeOldImages

LEMMA TypeNext == TypeOK /\ [CrashNext]_vars => TypeOK'
<1> SUFFICES ASSUME TypeOK, [CrashNext]_vars PROVE TypeOK'
  OBVIOUS
<1>1. CASE Midnight
  BY <1>1 DEF Midnight, TypeOK, tree, lists, own
<1>2. ASSUME NEW s \in ImageSets, Step(s) \/ Crash(s) PROVE TypeOK'
  BY <1>2, TypeBuild, TypeFlip, TypeEnd DEF Step, Publish
<1>3. CASE UNCHANGED vars
  BY <1>3 DEF vars, TypeOK, tree, lists, own
<1> QED
  BY <1>1, <1>2, <1>3 DEF CrashNext, Next

\* The variables keep their types, also across crashes.
THEOREM TypeCorrect == CrashSpec => []TypeOK
<1> QED
  BY TypeInit, TypeNext, PTL DEF CrashSpec
-----------------------------------------------------------------------------
(* Every step is that of one image set's process. *)

\* What the other processes keep while one takes a step.
Same(t) ==
    /\ stamp'[t] = stamp[t] /\ announced'[t] = announced[t]
    /\ dirs'[t] = dirs[t] /\ complete'[t] = complete[t]
    /\ current'[t] = current[t]
    /\ pc'[t] = pc[t] /\ date'[t] = date[t]
    /\ unseen'[t] = unseen[t] /\ found'[t] = found[t] /\ todo'[t] = todo[t]

LEMMA Apart ==
  ASSUME TypeOK, NEW s \in ImageSets, NEW t \in ImageSets \ {s},
         Step(s) \/ Crash(s)
  PROVE  Same(t) /\ today' = today
<1> USE DEF Same, TypeOK
<1>1. CASE \/ next_build_id(s) \/ Build(s) \/ BuildFails(s)
           \/ new_publish_dir(s)
  BY <1>1 DEF next_build_id, Build, BuildFails, new_publish_dir, Goto, Fails,
              Ends, tree, lists, own
<1>2. CASE publish_images(s) \/ NoImages(s) \/ ImagesFail(s)
  BY <1>2 DEF publish_images, NoImages, ImagesFail, Goto, Fails, Ends, tree,
              lists, own
<1>3. CASE \/ UnlinkCurrent(s) \/ SymlinkCurrent(s) \/ LockManifest(s)
           \/ LockFails(s)
  BY <1>3 DEF UnlinkCurrent, SymlinkCurrent, LockManifest, StartWalk,
              LockFails, Goto, Fails, Ends, tree, lists, own
<1>4. ASSUME NEW u \in ImageSets, WalkImageSet(s, u)
      PROVE  Same(t) /\ today' = today
  BY <1>4 DEF WalkImageSet, tree, lists
<1>5. CASE WalkFails(s) \/ WriteManifest(s) \/ WriteTrace(s)
  BY <1>5 DEF WalkFails, WriteManifest, WriteTrace, Goto, Fails, Ends, tree,
              own
<1>6. CASE post_qa(s) \/ PostQaFails(s) \/ PurgeDone(s) \/ Crash(s)
  BY <1>6 DEF post_qa, PostQaFails, PurgeDone, Crash, Goto, Fails, Ends, tree,
              lists
<1>7. ASSUME NEW id \in todo[s], Purge(s, id)
      PROVE  Same(t) /\ today' = today
  BY <1>7 DEF Purge, RemoveDirectory, lists
<1> QED
  BY <1>1, <1>2, <1>3, <1>4, <1>5, <1>6, <1>7
  DEF Step, Publish, PurgeOldImages
-----------------------------------------------------------------------------
(* Build IDs. *)

\* The steps of publish at which the build has not been announced.
Unannounced == {"build", "newdir", "fill", "unlink", "symlink", "lock", "walk",
                "trace", "postqa"}

\* The stamp file is ahead of everything that its image set ever had, and the
\* build ID of a running build ahead of what was there before it.
AgesOf(s) ==
    /\ stamp[s][1] <= today
    /\ \A i \in dirs[s] : Newer(stamp[s], i)
    /\ announced[s] # NoId => Newer(stamp[s], announced[s])
    /\ pc[s] # "idle" => Newer(stamp[s], date[s])
    /\ pc[s] \in {"build", "newdir"} => \A i \in dirs[s] : Newer(date[s], i)
    /\ pc[s] = "fill" => \A i \in dirs[s] \ {date[s]} : Newer(date[s], i)
    /\ pc[s] \in Unannounced /\ announced[s] # NoId
         => Newer(date[s], announced[s])

Ages == \A s \in ImageSets : AgesOf(s)

\* A step that gives out no build ID, makes no directory, announces nothing.
Calm(s) ==
    /\ today' = today /\ stamp'[s] = stamp[s] /\ announced'[s] = announced[s]
    /\ dirs'[s] \subseteq dirs[s]
    /\ \/ pc'[s] = "idle"
       \/ /\ date'[s] = date[s]
          /\ pc[s] # "idle"
          /\ pc'[s] \in {"build", "newdir"} => pc[s] \in {"build", "newdir"}
          /\ pc'[s] = "fill" => pc[s] = "fill"
          /\ pc'[s] \in Unannounced => pc[s] \in Unannounced

LEMMA CalmSteps ==
  ASSUME TypeOK, NEW s \in ImageSets, Step(s) \/ Crash(s)
  PROVE  \/ next_build_id(s) \/ new_publish_dir(s)
         \/ post_qa(s) \/ PostQaFails(s)
         \/ Calm(s)
<1> USE DEF Calm, TypeOK, Unannounced
<1>1. CASE \/ Build(s) \/ BuildFails(s) \/ publish_images(s) \/ NoImages(s)
           \/ ImagesFail(s)
  BY <1>1 DEF Build, BuildFails, publish_images, NoImages, ImagesFail, Goto,
              Fails, Ends, tree, lists, own
<1>2. CASE UnlinkCurrent(s) \/ SymlinkCurrent(s)
  BY <1>2 DEF UnlinkCurrent, SymlinkCurrent, Goto, lists, own
<1>3. CASE LockManifest(s) \/ LockFails(s)
  BY <1>3 DEF LockManifest, StartWalk, LockFails, Goto, Fails, Ends, tree,
              lists
<1>4. ASSUME NEW u \in ImageSets, WalkImageSet(s, u) PROVE Calm(s)
  BY <1>4 DEF WalkImageSet, tree, lists
<1>5. CASE WalkFails(s) \/ WriteManifest(s) \/ WriteTrace(s)
  BY <1>5 DEF WalkFails, WriteManifest, WriteTrace, Goto, Fails, Ends, tree,
              own
<1>6. CASE PurgeDone(s) \/ Crash(s)
  BY <1>6 DEF PurgeDone, Crash, Fails, Ends, tree, lists
<1>7. ASSUME NEW id \in todo[s], Purge(s, id) PROVE Calm(s)
  BY <1>7 DEF Purge, RemoveDirectory, lists
<1> QED
  BY <1>1, <1>2, <1>3, <1>4, <1>5, <1>6, <1>7
  DEF Step, Publish, PurgeOldImages

\* The build ID that next_build_id hands out is newer than all that the stamp
\* file is newer than, and older than what it leaves in the stamp file.
LEMMA HandedOut ==
  ASSUME TypeOK, NEW s \in ImageSets, stamp[s][1] <= today, NEW i \in Ids,
         Newer(stamp[s], i)
  PROVE  Newer(<<today, Suffix(s)>>, i) /\ Newer(<<today, Suffix(s) + 1>>, i)
<1> DEFINE d == stamp[s][1]
           n == stamp[s][2]
<1>1. d \in Nat /\ n \in Nat /\ i[1] \in Nat /\ i[2] \in Nat /\ today \in Nat
  BY BoundsAssumption DEF TypeOK, Ids
<1>2. d > i[1] \/ (d = i[1] /\ n > i[2])
  BY DEF Newer
<1>3. CASE d = today
  <2>1. Suffix(s) = n
    BY <1>3 DEF Suffix
  <2> QED
    BY <1>1, <1>2, <1>3, <2>1 DEF Newer
<1>4. CASE d < today
  <2>1. today > i[1]
    BY <1>1, <1>2, <1>4
  <2> QED
    BY <2>1 DEF Newer
<1> QED
  BY <1>1, <1>3, <1>4

LEMMA AgesStep ==
  ASSUME TypeOK, NEW s \in ImageSets, AgesOf(s), Step(s) \/ Crash(s)
  PROVE  AgesOf(s)'
<1>1. CASE next_build_id(s)
  <2> DEFINE new == <<today, Suffix(s)>>
             next == <<today, Suffix(s) + 1>>
  <2>1. /\ today' = today /\ dirs' = dirs /\ announced' = announced
        /\ date'[s] = new /\ stamp'[s] = next /\ pc'[s] = "build"
    BY <1>1 DEF next_build_id, Goto, tree, lists, TypeOK
  <2>2. \A i \in dirs[s] : Newer(new, i) /\ Newer(next, i)
    BY HandedOut DEF AgesOf, TypeOK
  <2>3. announced[s] # NoId => Newer(new, announced[s])
                               /\ Newer(next, announced[s])
    BY HandedOut DEF AgesOf, TypeOK
  <2>4. Newer(next, new) /\ next[1] <= today
    BY DEF TypeOK, Ids, Newer, Suffix
  <2> HIDE DEF new, next
  <2> QED
    BY <2>1, <2>2, <2>3, <2>4 DEF AgesOf
<1>2. CASE new_publish_dir(s)
  <2>1. /\ today' = today /\ stamp' = stamp /\ announced' = announced
        /\ dirs'[s] = dirs[s] \cup {date[s]} /\ pc[s] = "newdir"
        /\ pc'[s] = "idle" \/ (pc'[s] = "fill" /\ date' = date)
    BY <1>2 DEF new_publish_dir, Goto, Fails, Ends, own, lists, TypeOK
  <2> QED
    BY <2>1 DEF AgesOf, Unannounced
<1>3. CASE post_qa(s) \/ PostQaFails(s)
  BY <1>3 DEF post_qa, PostQaFails, Goto, Fails, Ends, tree, TypeOK, AgesOf,
              Unannounced
<1>4. CASE Calm(s)
  <2>1. \A i \in dirs'[s] : Newer(stamp'[s], i)
    BY <1>4 DEF Calm, AgesOf
  <2>2. pc'[s] # "idle" => date'[s] = date[s] /\ pc[s] # "idle"
    BY <1>4 DEF Calm
  <2>3. pc'[s] \in {"build", "newdir"} => \A i \in dirs'[s] : Newer(date'[s], i)
    BY <1>4, <2>2 DEF Calm, AgesOf
  <2>4. pc'[s] = "fill" => \A i \in dirs'[s] \ {date'[s]} : Newer(date'[s], i)
    BY <1>4, <2>2 DEF Calm, AgesOf
  <2>5. pc'[s] \in Unannounced => pc[s] \in Unannounced /\ pc'[s] # "idle"
    BY <1>4 DEF Calm, Unannounced
  <2> QED
    BY <1>4, <2>1, <2>2, <2>3, <2>4, <2>5 DEF Calm, AgesOf
<1> QED
  BY <1>1, <1>2, <1>3, <1>4, CalmSteps

LEMMA AgesNext == TypeOK /\ Ages /\ [CrashNext]_vars => Ages'
<1> SUFFICES ASSUME TypeOK, Ages, [CrashNext]_vars PROVE Ages'
  OBVIOUS
<1>1. CASE Midnight
  <2>1. /\ today' = today + 1
        /\ stamp' = stamp /\ announced' = announced /\ dirs' = dirs
        /\ pc' = pc /\ date' = date
    BY <1>1 DEF Midnight, tree, lists, own
  <2>2. \A s \in ImageSets : stamp[s][1] <= today => stamp[s][1] <= today + 1
    BY DEF TypeOK, Ids
  <2> QED
    BY <2>1, <2>2 DEF Ages, AgesOf
<1>2. ASSUME NEW s \in ImageSets, Step(s) \/ Crash(s) PROVE Ages'
  <2>1. ASSUME NEW t \in ImageSets \ {s} PROVE AgesOf(t)'
    BY <1>2, <2>1, Apart DEF Same, Ages, AgesOf
  <2>2. AgesOf(s)'
    BY <1>2, AgesStep DEF Ages
  <2> QED
    BY <2>1, <2>2 DEF Ages
<1>3. CASE UNCHANGED vars
  BY <1>3 DEF vars, tree, lists, own, Ages, AgesOf
<1> QED
  BY <1>1, <1>2, <1>3 DEF CrashNext, Next

LEMMA AgesInit == Init => Ages
<1> SUFFICES ASSUME Init, NEW s \in ImageSets PROVE AgesOf(s)
  BY DEF Ages
<1>1. /\ stamp[s] = <<0, 1>> /\ today = 1 /\ dirs[s] = {}
      /\ announced[s] = NoId /\ pc[s] = "idle"
  BY DEF Init
<1>2. stamp[s][1] <= today
  BY <1>1
<1> QED
  BY <1>1, <1>2 DEF AgesOf, Unannounced

LEMMA AgesFresh == TypeOK /\ Ages => FreshBuildId
  BY Newness DEF TypeOK, Ages, AgesOf, FreshBuildId

\* next_build_id never gives out the name of a directory that exists, whatever
\* was built, purged or broken off before (build_id.py, lines 26-55).
THEOREM FreshIds == CrashSpec => []FreshBuildId
<1>1. TypeOK /\ Ages /\ [CrashNext]_vars => (TypeOK /\ Ages)'
  BY TypeNext, AgesNext
<1> QED
  BY <1>1, TypeInit, AgesInit, AgesFresh, PTL DEF CrashSpec
-----------------------------------------------------------------------------
(* `current`. *)

\* What keeps `current` on a whole build: no whole build is written to again,
\* and the build that `current` is about to lead to is whole.
WholeOf(s) ==
    /\ complete[s] \subseteq dirs[s]
    /\ current[s] # NoId => current[s] \in complete[s]
    /\ pc[s] \in {"unlink", "symlink"} => date[s] \in complete[s]
    /\ pc[s] = "fill" => date[s] \in dirs[s]

Whole == \A s \in ImageSets : WholeOf(s)

\* A step that changes nothing in www/full.
Still(s) ==
    /\ dirs'[s] = dirs[s] /\ complete'[s] = complete[s]
    /\ current'[s] = current[s]
    /\ pc'[s] \in {"fill", "unlink", "symlink"}
         => pc'[s] = pc[s] /\ date'[s] = date[s]

LEMMA StillSteps ==
  ASSUME TypeOK, NEW s \in ImageSets, Step(s) \/ Crash(s)
  PROVE  \/ new_publish_dir(s) \/ publish_images(s)
         \/ UnlinkCurrent(s) \/ SymlinkCurrent(s)
         \/ \E id \in todo[s] : Purge(s, id)
         \/ Still(s)
<1> USE DEF Still, TypeOK
<1>1. CASE \/ next_build_id(s) \/ Build(s) \/ BuildFails(s) \/ NoImages(s)
           \/ ImagesFail(s)
  BY <1>1 DEF next_build_id, Build, BuildFails, NoImages, ImagesFail, Goto,
              Fails, Ends, tree
<1>2. CASE LockManifest(s) \/ LockFails(s) \/ WalkFails(s) \/ WriteManifest(s)
  BY <1>2 DEF LockManifest, StartWalk, LockFails, WalkFails, WriteManifest,
              Goto, Fails, Ends, tree
<1>3. ASSUME NEW u \in ImageSets, WalkImageSet(s, u) PROVE Still(s)
  BY <1>3 DEF WalkImageSet, tree
<1>4. CASE \/ WriteTrace(s) \/ post_qa(s) \/ PostQaFails(s) \/ PurgeDone(s)
           \/ Crash(s)
  BY <1>4 DEF WriteTrace, post_qa, PostQaFails, PurgeDone, Crash, Goto, Fails,
              Ends, tree
<1> QED
  BY <1>1, <1>2, <1>3, <1>4 DEF Step, Publish, PurgeOldImages

LEMMA WholeStep ==
  ASSUME TypeOK, NEW s \in ImageSets, AgesOf(s), WholeOf(s),
         Step(s) \/ Crash(s)
  PROVE  WholeOf(s)'
<1>1. CASE new_publish_dir(s)
  <2>1. date[s] \notin dirs[s]
    BY <1>1, Newness DEF new_publish_dir, Goto, Fails, AgesOf, TypeOK
  <2>2. /\ dirs'[s] = dirs[s] \cup {date[s]}
        /\ complete'[s] = complete[s] \ {date[s]} /\ current' = current
        /\ pc'[s] = "fill" /\ date' = date
    BY <1>1, <2>1 DEF new_publish_dir, Goto, own, TypeOK
  <2> QED
    BY <2>1, <2>2 DEF WholeOf
<1>2. CASE publish_images(s)
  <2>1. /\ dirs' = dirs /\ current' = current /\ date' = date
        /\ complete'[s] = complete[s] \cup {date[s]}
        /\ pc[s] = "fill" /\ pc'[s] = "unlink"
    BY <1>2 DEF publish_images, Goto, own, TypeOK
  <2> QED
    BY <2>1 DEF WholeOf
<1>3. CASE UnlinkCurrent(s)
  BY <1>3 DEF UnlinkCurrent, Goto, own, TypeOK, WholeOf
<1>4. CASE SymlinkCurrent(s)
  BY <1>4 DEF SymlinkCurrent, Goto, own, TypeOK, WholeOf
<1>5. ASSUME NEW id \in todo[s], Purge(s, id) PROVE WholeOf(s)'
  <2>1. /\ dirs'[s] = dirs[s] \ {id} /\ complete'[s] = complete[s] \ {id}
        /\ current' = current /\ id # current[s]
        /\ pc' = pc /\ pc[s] = "purge"
    BY <1>5 DEF Purge, RemoveDirectory, TypeOK
  <2> QED
    BY <2>1 DEF WholeOf
<1>6. CASE Still(s)
  BY <1>6 DEF Still, WholeOf
<1> QED
  BY <1>1, <1>2, <1>3, <1>4, <1>5, <1>6, StillSteps

LEMMA WholeNext == TypeOK /\ Ages /\ Whole /\ [CrashNext]_vars => Whole'
<1> SUFFICES ASSUME TypeOK, Ages, Whole, [CrashNext]_vars PROVE Whole'
  OBVIOUS
<1>1. CASE Midnight
  BY <1>1 DEF Midnight, tree, own, Whole, WholeOf
<1>2. ASSUME NEW s \in ImageSets, Step(s) \/ Crash(s) PROVE Whole'
  <2>1. ASSUME NEW t \in ImageSets \ {s} PROVE WholeOf(t)'
    BY <1>2, <2>1, Apart DEF Same, Whole, WholeOf
  <2>2. WholeOf(s)'
    BY <1>2, WholeStep DEF Ages, Whole
  <2> QED
    BY <2>1, <2>2 DEF Whole
<1>3. CASE UNCHANGED vars
  BY <1>3 DEF vars, tree, own, Whole, WholeOf
<1> QED
  BY <1>1, <1>2, <1>3 DEF CrashNext, Next

LEMMA WholeInit == Init => Whole
<1> SUFFICES ASSUME Init, NEW s \in ImageSets PROVE WholeOf(s)
  BY DEF Whole
<1>1. complete[s] = {} /\ current[s] = NoId /\ pc[s] = "idle"
  BY DEF Init
<1> QED
  BY <1>1 DEF WholeOf

LEMMA WholeCurrent == Whole => CurrentIsComplete
  BY DEF Whole, WholeOf, CurrentIsComplete

\* `current` only ever leads to a whole build that exists, whatever fails or
\* crashes (tree.py, lines 578-580, and purge-old-images, line 76).
THEOREM WholeBuilds == CrashSpec => []CurrentIsComplete
<1>1. TypeOK /\ Ages /\ Whole /\ [CrashNext]_vars => (TypeOK /\ Ages /\ Whole)'
  BY TypeNext, AgesNext, WholeNext
<1> QED
  BY <1>1, TypeInit, AgesInit, WholeInit, WholeCurrent, PTL DEF CrashSpec
-----------------------------------------------------------------------------
(* The purge and the newest build. *)

\* Where `current` leads, or is about to.
Top(s) == IF pc[s] \in {"unlink", "symlink"} THEN date[s] ELSE current[s]

TopOf(s) ==
    complete[s] # {}
      => /\ Top(s) \in complete[s]
         /\ \A i \in complete[s] \ {Top(s)} : Newer(Top(s), i)

Tops == \A s \in ImageSets : TopOf(s)

\* Without crashes nothing comes between the whole build and `current`.
LEMMA FlipSteps ==
  ASSUME NEW s \in ImageSets, Step(s), pc[s] \in {"unlink", "symlink"}
  PROVE  UnlinkCurrent(s) \/ SymlinkCurrent(s)
<1>1. ~(next_build_id(s) \/ Build(s) \/ BuildFails(s) \/ new_publish_dir(s))
  BY DEF next_build_id, Build, BuildFails, new_publish_dir, Goto, Fails
<1>2. ~(publish_images(s) \/ NoImages(s) \/ ImagesFail(s))
  BY DEF publish_images, NoImages, ImagesFail, Goto, Fails
<1>3. ~(LockManifest(s) \/ LockFails(s) \/ \E t \in ImageSets : WalkImageSet(s, t))
  BY DEF LockManifest, StartWalk, LockFails, WalkImageSet, Goto, Fails
<1>4. ~(WalkFails(s) \/ WriteManifest(s) \/ WriteTrace(s))
  BY DEF WalkFails, WriteManifest, WriteTrace, Goto, Fails
<1>5. ~(post_qa(s) \/ PostQaFails(s) \/ PurgeOldImages(s))
  BY DEF post_qa, PostQaFails, PurgeOldImages, Purge, PurgeDone, Goto, Fails
<1> QED
  BY <1>1, <1>2, <1>3, <1>4, <1>5 DEF Step, Publish

LEMMA TopStep ==
  ASSUME TypeOK, NEW s \in ImageSets, AgesOf(s), WholeOf(s), TopOf(s), Step(s)
  PROVE  /\ TopOf(s)'
         /\ complete[s] # {} => Top(s) \in complete'[s]
<1>1. CASE new_publish_dir(s)
  <2>1. date[s] \notin complete[s]
    BY <1>1, Newness DEF new_publish_dir, Goto, Fails, AgesOf, WholeOf, TypeOK
  <2>2. complete'[s] = complete[s] /\ current' = current
    BY <1>1, <2>1 DEF new_publish_dir, TypeOK
  <2>3. /\ pc[s] = "newdir" /\ pc'[s] \in {"fill", "idle"}
    BY <1>1 DEF new_publish_dir, Goto, Fails, Ends, TypeOK
  <2> QED
    BY <2>2, <2>3 DEF TopOf, Top
<1>2. CASE publish_images(s)
  <2>1. /\ current' = current /\ date' = date
        /\ complete'[s] = complete[s] \cup {date[s]}
        /\ pc[s] = "fill" /\ pc'[s] = "unlink"
    BY <1>2 DEF publish_images, Goto, own, TypeOK
  <2>2. \A i \in complete[s] \ {date[s]} : Newer(date[s], i)
    BY <2>1 DEF AgesOf, WholeOf
  <2> QED
    BY <2>1, <2>2 DEF TopOf, Top
<1>3. CASE UnlinkCurrent(s)
  <2>1. /\ complete' = complete /\ date' = date
        /\ pc[s] = "unlink" /\ pc'[s] = "symlink"
    BY <1>3 DEF UnlinkCurrent, Goto, own, TypeOK
  <2> QED
    BY <2>1 DEF TopOf, Top
<1>4. CASE SymlinkCurrent(s)
  <2>1. /\ complete' = complete /\ current'[s] = date[s]
        /\ pc[s] = "symlink" /\ pc'[s] = "lock"
    BY <1>4 DEF SymlinkCurrent, Goto, own, TypeOK
  <2> QED
    BY <2>1 DEF TopOf, Top
<1>5. ASSUME NEW id \in todo[s], Purge(s, id)
      PROVE  TopOf(s)' /\ (complete[s] # {} => Top(s) \in complete'[s])
  <2>1. /\ complete'[s] = complete[s] \ {id}
        /\ current' = current /\ id # current[s]
        /\ pc' = pc /\ pc[s] = "purge"
    BY <1>5 DEF Purge, RemoveDirectory, TypeOK
  <2> QED
    BY <2>1 DEF TopOf, Top
<1>6. CASE Still(s) /\ pc[s] \notin {"unlink", "symlink"}
  BY <1>6 DEF Still, TopOf, Top
<1> QED
  BY <1>1, <1>2, <1>3, <1>4, <1>5, <1>6, StillSteps, FlipSteps

\* One step of any process, for the invariant and for what is removed.
LEMMA TopNext ==
  ASSUME TypeOK, Ages, Whole, Tops, [Next]_vars
  PROVE  /\ Tops'
         /\ \A s \in ImageSets : complete[s] # {} => Top(s) \in complete'[s]
<1> DEFINE Good(s) ==
      TopOf(s)' /\ (complete[s] # {} => Top(s) \in complete'[s])
<1>1. CASE Midnight \/ UNCHANGED vars
  BY <1>1 DEF Midnight, vars, tree, own, Tops, TopOf, Top
<1>2. ASSUME NEW s \in ImageSets, Step(s), NEW t \in ImageSets PROVE Good(t)
  <2>1. CASE t = s
    BY <1>2, <2>1, TopStep DEF Ages, Whole, Tops
  <2>2. CASE t # s
    BY <1>2, <2>2, Apart DEF Same, Tops, TopOf, Top
  <2> QED
    BY <2>1, <2>2
<1> QED
  BY <1>1, <1>2 DEF Next, Tops

LEMMA NewestIsTop ==
  ASSUME TypeOK, Tops, NEW s \in ImageSets, complete[s] # {}
  PROVE  Newest(complete[s]) = Top(s)
<1>1. complete[s] \subseteq Ids /\ TopOf(s)
  BY DEF TypeOK, Tops
<1>2. ASSUME NEW i \in complete[s],
             \A j \in complete[s] \ {i} : Newer(i, j)
      PROVE  i = Top(s)
  BY <1>1, <1>2, Newness DEF TopOf
<1> QED
  BY <1>1, <1>2 DEF Newest, TopOf

LEMMA TopsInit == Init => Tops
<1> SUFFICES ASSUME Init, NEW s \in ImageSets PROVE TopOf(s)
  BY DEF Tops
<1>1. complete[s] = {}
  BY DEF Init
<1> QED
  BY <1>1 DEF TopOf

\* As long as no process dies, a purge never begins to remove the newest whole
\* build of an image set, however old it is (purge-old-images, lines 59-86).
THEOREM NewestKept == Spec => MostRecentBuildKept
<1> DEFINE Inv == TypeOK /\ Ages /\ Whole /\ Tops
<1>1. Init => Inv
  BY TypeInit, AgesInit, WholeInit, TopsInit
<1>2. Inv /\ [Next]_vars => Inv'
  BY TypeNext, AgesNext, WholeNext, TopNext DEF CrashNext
<1>3. Inv /\ [Next]_vars
        => [\A s \in ImageSets :
              complete[s] # {} => Newest(complete[s]) \in complete'[s]]_vars
  BY TopNext, NewestIsTop
<1> QED
  BY <1>1, <1>2, <1>3, PTL DEF Spec, MostRecentBuildKept

\* Nothing but a crash counts as one.
LEMMA CrashesKept ==
  ASSUME NEW s \in ImageSets, Step(s)
  PROVE  crashes' = crashes
<1>1. CASE \/ next_build_id(s) \/ Build(s) \/ BuildFails(s) \/ new_publish_dir(s)
           \/ publish_images(s) \/ NoImages(s) \/ ImagesFail(s)
  BY <1>1 DEF next_build_id, Build, BuildFails, new_publish_dir, publish_images,
     NoImages, ImagesFail
<1>2. CASE \/ UnlinkCurrent(s) \/ SymlinkCurrent(s) \/ LockManifest(s) \/ LockFails(s)
           \/ \E t \in ImageSets : WalkImageSet(s, t)
  BY <1>2 DEF UnlinkCurrent, SymlinkCurrent, LockManifest, LockFails, WalkImageSet
<1>3. CASE \/ WalkFails(s) \/ WriteManifest(s) \/ WriteTrace(s) \/ post_qa(s)
           \/ PostQaFails(s)
  BY <1>3 DEF WalkFails, WriteManifest, WriteTrace, post_qa, PostQaFails
<1>4. CASE PurgeOldImages(s)
  BY <1>4 DEF PurgeOldImages, Purge, RemoveDirectory, PurgeDone
<1> QED
  BY <1>1, <1>2, <1>3, <1>4 DEF Step, Publish

\* The newest whole build survives every purge for as long as no process has
\* died, also in a behaviour in which one dies later.
THEOREM NewestUntilCrash == CrashSpec => NewestKeptUntilCrash
<1> DEFINE Inv == TypeOK /\ Ages /\ Whole /\ (crashes = 0 => Tops)
           Kept == \A s \in ImageSets :
                     complete[s] # {} => Newest(complete[s]) \in complete'[s]
<1>1. Init => Inv
  BY TypeInit, AgesInit, WholeInit, TopsInit
<1>2. ASSUME Inv, [CrashNext]_vars
      PROVE  (crashes = 0 => Kept) /\ (crashes' = 0 => Tops')
  <2>1. CASE [Next]_vars
    <3>1. crashes' = crashes
      BY <2>1, CrashesKept DEF Next, Midnight, vars
    <3>2. ASSUME crashes = 0 PROVE Kept /\ Tops'
      BY <1>2, <2>1, <3>2, TopNext, NewestIsTop
    <3> QED
      BY <3>1, <3>2
  <2>2. ASSUME NEW s \in ImageSets, Crash(s)
        PROVE  (crashes = 0 => Kept) /\ (crashes' = 0 => Tops')
    <3>1. crashes' = crashes + 1 /\ complete' = complete
      BY <2>2 DEF Crash, tree
    <3>2. ASSUME crashes = 0, NEW t \in ImageSets, complete[t] # {}
          PROVE  Newest(complete[t]) \in complete[t]
      BY <1>2, <3>2, NewestIsTop DEF Tops, TopOf
    <3>3. crashes' # 0
      BY <1>2, <3>1 DEF TypeOK
    <3> QED
      BY <3>1, <3>2, <3>3
  <2> QED
    BY <1>2, <2>1, <2>2 DEF CrashNext
<1>3. Inv /\ [CrashNext]_vars => Inv'
  BY <1>2, TypeNext, AgesNext, WholeNext
<1>4. Inv /\ [CrashNext]_vars
        => [crashes = 0 =>
              \A s \in ImageSets :
                complete[s] # {} => Newest(complete[s]) \in complete'[s]]_vars
  BY <1>2
<1> QED
  BY <1>1, <1>3, <1>4, PTL DEF CrashSpec, NewestKeptUntilCrash
-----------------------------------------------------------------------------
(* The manifest. *)

\* Those who are between lockfile and the removal of the lock file hold it.
Held == \A s \in ImageSets : pc[s] \in {"walk", "trace"} => mlock = s

Flipped ==
    \A s \in ImageSets :
        pc[s] \in {"lock", "walk", "trace", "postqa"} => current[s] = date[s]

\* The images that `current` leads to have been, or may be, announced.
Covered(s) ==
    \/ announced[s] # NoId /\ announced[s] = current[s]
    \/ pc[s] \in {"trace", "postqa"}

\* The walk of w lists what `current` of s leads to, or will.
SeenBy(w, s) == s \in unseen[w] \/ <<s, current[s]>> \in found[w]

ListedOf(s) ==
    /\ Covered(s) => <<s, current[s]>> \in manifest
    /\ \A w \in ImageSets :
           pc[w] = "walk" /\ (Covered(s) \/ w = s) => SeenBy(w, s)

Listed == \A s \in ImageSets : ListedOf(s)

\* A step that has nothing to do with `current` and the manifest.
Aside(s) ==
    /\ current' = current /\ manifest' = manifest /\ mlock' = mlock
    /\ announced' = announced
    /\ pc'[s] \notin {"lock", "walk", "trace", "postqa"}

LEMMA AsideSteps ==
  ASSUME TypeOK, NEW s \in ImageSets, Step(s) \/ Crash(s)
  PROVE  \/ UnlinkCurrent(s) \/ SymlinkCurrent(s) \/ LockManifest(s)
         \/ \E t \in ImageSets : WalkImageSet(s, t)
         \/ WalkFails(s) \/ WriteManifest(s) \/ WriteTrace(s)
         \/ post_qa(s) \/ PostQaFails(s)
         \/ Aside(s)
<1> USE DEF Aside, TypeOK
<1>1. CASE \/ next_build_id(s) \/ Build(s) \/ BuildFails(s)
           \/ new_publish_dir(s)
  BY <1>1 DEF next_build_id, Build, BuildFails, new_publish_dir, Goto, Fails,
              Ends, tree, lists
<1>2. CASE publish_images(s) \/ NoImages(s) \/ ImagesFail(s) \/ LockFails(s)
  BY <1>2 DEF publish_images, NoImages, ImagesFail, LockFails, Goto, Fails,
              Ends, tree, lists
<1>3. CASE PurgeDone(s) \/ Crash(s)
  BY <1>3 DEF PurgeDone, Crash, Fails, Ends, tree, lists
<1>4. ASSUME NEW id \in todo[s], Purge(s, id) PROVE Aside(s)
  BY <1>4 DEF Purge, RemoveDirectory, lists
<1> QED
  BY <1>1, <1>2, <1>3, <1>4 DEF Step, Publish, PurgeOldImages

LEMMA HeldNext == TypeOK /\ Held /\ Flipped /\ [CrashNext]_vars => (Held /\ Flipped)'
<1> SUFFICES ASSUME TypeOK, Held, Flipped, [CrashNext]_vars
             PROVE  (Held /\ Flipped)'
  OBVIOUS
<1>1. CASE Midnight \/ UNCHANGED vars
  BY <1>1 DEF Midnight, vars, tree, lists, own, Held, Flipped
<1>2. ASSUME NEW s \in ImageSets, Step(s) \/ Crash(s)
      PROVE  (Held /\ Flipped)'
  <2> DEFINE Others == \A t \in ImageSets \ {s} : Same(t)
  <2>1. Others
    BY <1>2, Apart
  <2> HIDE DEF Others
  <2>2. CASE UnlinkCurrent(s) \/ SymlinkCurrent(s)
    <3>1. /\ mlock' = mlock /\ date' = date
          /\ \/ pc'[s] = "symlink"
             \/ pc'[s] = "lock" /\ current'[s] = date[s]
      BY <2>2 DEF UnlinkCurrent, SymlinkCurrent, Goto, lists, own, TypeOK
    <3> QED
      BY <2>1, <3>1 DEF Others, Same, Held, Flipped
  <2>3. CASE LockManifest(s)
    <3>1. /\ mlock = Nobody /\ mlock' = s
          /\ current' = current /\ date' = date
          /\ pc[s] = "lock" /\ pc'[s] = "walk"
      BY <2>3 DEF LockManifest, StartWalk, Goto, tree, TypeOK
    <3> QED
      BY <2>1, <3>1, NobodyAssumption DEF Others, Same, Held, Flipped
  <2>4. ASSUME NEW t \in ImageSets, WalkImageSet(s, t)
        PROVE  (Held /\ Flipped)'
    BY <2>4 DEF WalkImageSet, tree, lists, Held, Flipped
  <2>5. CASE WalkFails(s) \/ WriteManifest(s) \/ WriteTrace(s)
    <3>1. /\ pc[s] \in {"walk", "trace"} /\ current' = current
          /\ \/ mlock' = mlock /\ pc'[s] = "trace" /\ date' = date
             \/ mlock' = Nobody /\ pc'[s] = "postqa" /\ date' = date
             \/ mlock' = Nobody /\ pc'[s] = "idle"
      BY <2>5 DEF WalkFails, WriteManifest, WriteTrace, Goto, Fails, Ends,
                  tree, own, TypeOK
    <3>2. mlock = s
      BY <3>1 DEF Held
    <3> QED
      BY <2>1, <3>1, <3>2 DEF Others, Same, Held, Flipped
  <2>6. CASE post_qa(s) \/ PostQaFails(s)
    <3>1. pc'[s] \in {"purge", "idle"} /\ mlock' = mlock
      BY <2>6 DEF post_qa, PostQaFails, Goto, Fails, Ends, TypeOK
    <3> QED
      BY <2>1, <3>1 DEF Others, Same, Held, Flipped
  <2>7. CASE Aside(s)
    BY <2>1, <2>7 DEF Others, Same, Aside, Held, Flipped
  <2> QED
    BY <1>2, <2>2, <2>3, <2>4, <2>5, <2>6, <2>7, AsideSteps
<1> QED
  BY <1>1, <1>2 DEF CrashNext, Next

\* A step of s that leaves the manifest, and after which s does not walk.
LEMMA ListedNarrower ==
  ASSUME TypeOK, NEW s \in ImageSets, Listed,
         \A t \in ImageSets \ {s} : Same(t),
         manifest' = manifest, pc'[s] # "walk",
         Covered(s)' => Covered(s) /\ current'[s] = current[s]
  PROVE  Listed'
<1> SUFFICES ASSUME NEW t \in ImageSets PROVE ListedOf(t)'
  BY DEF Listed
<1>1. Covered(t)' => Covered(t) /\ current'[t] = current[t]
  BY DEF Same, Covered
<1>2. ASSUME NEW w \in ImageSets, pc'[w] = "walk"
      PROVE  /\ w # s /\ pc[w] = "walk"
             /\ unseen'[w] = unseen[w] /\ found'[w] = found[w]
  BY <1>2 DEF Same
<1>3. ASSUME NEW w \in ImageSets, pc'[w] = "walk", Covered(t)' \/ w = t
      PROVE  SeenBy(w, t)'
  <2>1. w = t => current'[t] = current[t]
    BY <1>2, <1>3 DEF Same
  <2> QED
    BY <1>1, <1>2, <1>3, <2>1 DEF SeenBy, Listed, ListedOf
<1> QED
  BY <1>1, <1>3 DEF Listed, ListedOf

LEMMA ListedStep ==
  ASSUME TypeOK, Ages, Whole, Held, Flipped, Listed,
         NEW s \in ImageSets, Step(s) \/ Crash(s)
  PROVE  Listed'
<1>1. \A t \in ImageSets \ {s} : Same(t)
  BY Apart
<1>2. CASE UnlinkCurrent(s)
  <2>1. /\ manifest' = manifest /\ announced' = announced
        /\ current'[s] = NoId /\ pc'[s] = "symlink"
    BY <1>2 DEF UnlinkCurrent, Goto, lists, TypeOK
  <2> QED
    BY <1>1, <2>1, ListedNarrower DEF Covered
<1>3. CASE SymlinkCurrent(s)
  <2>1. /\ manifest' = manifest /\ announced' = announced
        /\ current'[s] = date[s] /\ pc[s] = "symlink" /\ pc'[s] = "lock"
    BY <1>3 DEF SymlinkCurrent, Goto, lists, TypeOK
  <2>2. announced[s] # NoId => announced[s] # date[s]
    BY <2>1, Newness DEF Ages, AgesOf, Unannounced, TypeOK
  <2> QED
    BY <1>1, <2>1, <2>2, ListedNarrower DEF Covered
<1>4. CASE LockManifest(s)
  <2>1. /\ manifest' = manifest /\ announced' = announced
        /\ current' = current /\ pc[s] = "lock" /\ pc'[s] = "walk"
        /\ unseen'[s] = ImageSets
    BY <1>4 DEF LockManifest, StartWalk, Goto, tree, TypeOK
  <2>2. \A t \in ImageSets : Covered(t)' => Covered(t)
    BY <1>1, <2>1 DEF Same, Covered
  <2> QED
    BY <1>1, <2>1, <2>2 DEF Same, Listed, ListedOf, SeenBy
<1>5. ASSUME NEW u \in ImageSets, WalkImageSet(s, u) PROVE Listed'
  <2>1. /\ manifest' = manifest /\ announced' = announced
        /\ current' = current /\ pc' = pc /\ pc[s] = "walk"
        /\ unseen'[s] = unseen[s] \ {u}
        /\ found'[s] = IF current[u] \in dirs[u]
                         THEN found[s] \cup {<<u, current[u]>>} ELSE found[s]
    BY <1>5 DEF WalkImageSet, tree, lists, TypeOK
  <2>2. \A t \in ImageSets : Covered(t)' <=> Covered(t)
    BY <2>1 DEF Covered
  <2>3. Covered(u) \/ s = u => current[u] \in dirs[u]
    <3>1. Covered(u) \/ s = u => current[u] # NoId
      BY <2>1, NoIdAssumption DEF Covered, Flipped, TypeOK, Ids
    <3> QED
      BY <3>1 DEF Whole, WholeOf
  <2>4. \A t \in ImageSets : (Covered(t) \/ s = t) => SeenBy(s, t)'
    BY <2>1, <2>3 DEF SeenBy, Listed, ListedOf
  <2>5. \A w, t \in ImageSets : w # s /\ SeenBy(w, t) => SeenBy(w, t)'
    BY <1>1, <2>1 DEF SeenBy, Same
  <2> QED
    BY <2>1, <2>2, <2>4, <2>5 DEF Listed, ListedOf
<1>6. CASE WriteManifest(s)
  <2>1. /\ manifest' = found[s] /\ unseen[s] = {} /\ announced' = announced
        /\ current' = current /\ pc[s] = "walk" /\ pc'[s] = "trace"
    BY <1>6 DEF WriteManifest, Goto, tree, TypeOK
  <2>2. \A w \in ImageSets : pc'[w] # "walk"
    BY <1>1, <2>1 DEF Same, Held
  <2>3. \A t \in ImageSets : Covered(t)' => Covered(t) \/ t = s
    BY <1>1, <2>1 DEF Same, Covered
  <2>4. \A t \in ImageSets : Covered(t) \/ t = s
                               => <<t, current[t]>> \in found[s]
    BY <2>1 DEF Listed, ListedOf, SeenBy
  <2> QED
    BY <2>1, <2>2, <2>3, <2>4 DEF Listed, ListedOf
<1>7. CASE WalkFails(s) \/ WriteTrace(s)
  <2>1. /\ manifest' = manifest /\ announced' = announced
        /\ current' = current /\ pc'[s] # "walk"
        /\ pc'[s] \in {"trace", "postqa"} => pc[s] \in {"trace", "postqa"}
    BY <1>7 DEF WalkFails, WriteTrace, Goto, Fails, Ends, tree, TypeOK
  <2> QED
    BY <1>1, <2>1, ListedNarrower DEF Covered
<1>8. CASE post_qa(s) \/ PostQaFails(s)
  <2>1. /\ manifest' = manifest /\ current' = current
        /\ pc[s] = "postqa" /\ pc'[s] \in {"purge", "idle"}
    BY <1>8 DEF post_qa, PostQaFails, Goto, Fails, Ends, tree, TypeOK
  <2> QED
    BY <1>1, <2>1, ListedNarrower DEF Covered
<1>9. CASE Aside(s)
  <2>1. Covered(s)' => Covered(s)
    BY <1>9 DEF Aside, Covered
  <2> QED
    BY <1>1, <1>9, <2>1, ListedNarrower DEF Aside
<1> QED
  BY <1>2, <1>3, <1>4, <1>5, <1>6, <1>7, <1>8, <1>9, AsideSteps

LEMMA ListedNext ==
  TypeOK /\ Ages /\ Whole /\ Held /\ Flipped /\ Listed /\ [CrashNext]_vars
    => Listed'
<1>1. ASSUME Listed, Midnight \/ UNCHANGED vars PROVE Listed'
  BY <1>1 DEF Midnight, vars, tree, lists, own, Listed, ListedOf, Covered,
              SeenBy
<1> QED
  BY <1>1, ListedStep DEF CrashNext, Next

LEMMA ManifestInit == Init => Held /\ Flipped /\ Listed
<1> SUFFICES ASSUME Init PROVE Held /\ Flipped /\ Listed
  OBVIOUS
<1>1. \A s \in ImageSets : pc[s] = "idle" /\ announced[s] = NoId
  BY DEF Init
<1> QED
  BY <1>1 DEF Held, Flipped, Listed, ListedOf, Covered

LEMMA ListedAnnounced == Listed => AnnouncedInManifest
  BY DEF Listed, ListedOf, Covered, AnnouncedInManifest

\* What post-qa has announced stays in .manifest-daily as long as `current`
\* leads to it, however many image sets walk, flip and purge at once, because
\* they walk under one lock (tree.py, lines 578-611).
THEOREM Announced == CrashSpec => []AnnouncedInManifest
<1> DEFINE Inv == TypeOK /\ Ages /\ Whole /\ Held /\ Flipped /\ Listed
<1>1. Init => Inv
  BY TypeInit, AgesInit, WholeInit, ManifestInit
<1>2. Inv /\ [CrashNext]_vars => Inv'
  BY TypeNext, AgesNext, WholeNext, HeldNext, ListedNext
<1>3. Inv => AnnouncedInManifest
  BY ListedAnnounced
<1> QED
  BY <1>1, <1>2, <1>3, PTL DEF CrashSpec

\* Only who took the lock writes the manifest or removes the lock file.
LEMMA LockKept ==
  ASSUME TypeOK, Held, [CrashNext]_vars, mlock # Nobody,
         pc[mlock] \notin {"walk", "trace"}
  PROVE  mlock' = mlock /\ manifest' = manifest
<1>1. CASE Midnight \/ UNCHANGED vars
  BY <1>1 DEF Midnight, vars, lists
<1>2. ASSUME NEW s \in ImageSets, Step(s) \/ Crash(s)
      PROVE  mlock' = mlock /\ manifest' = manifest
  <2>1. CASE UnlinkCurrent(s) \/ SymlinkCurrent(s) \/ LockManifest(s)
    BY <2>1 DEF UnlinkCurrent, SymlinkCurrent, LockManifest, lists
  <2>2. ASSUME NEW t \in ImageSets, WalkImageSet(s, t)
        PROVE  mlock' = mlock /\ manifest' = manifest
    BY <2>2 DEF WalkImageSet, lists
  <2>3. ~(WalkFails(s) \/ WriteManifest(s) \/ WriteTrace(s))
    BY DEF WalkFails, WriteManifest, WriteTrace, Goto, Fails, Held
  <2>4. CASE post_qa(s) \/ PostQaFails(s) \/ Aside(s)
    BY <2>4 DEF post_qa, PostQaFails, Aside
  <2> QED
    BY <1>2, <2>1, <2>2, <2>3, <2>4, AsideSteps
<1> QED
  BY <1>1, <1>2 DEF CrashNext, Next

\* When a process dies between lockfile and the removal of the lock file, the
\* lock file stays and the manifest is never written again (tree.py, line 585).
THEOREM LockForever == CrashSpec => ManifestLockIsForever
<1> DEFINE Inv == TypeOK /\ Held /\ Flipped
<1>1. Init => Inv
  BY TypeInit, ManifestInit
<1>2. Inv /\ [CrashNext]_vars => Inv'
  BY TypeNext, HeldNext
<1>3. Inv /\ [CrashNext]_vars
        => [ mlock # Nobody /\ pc[mlock] \notin {"walk", "trace"}
               => mlock' = mlock /\ manifest' = manifest ]_vars
  BY LockKept
<1> QED
  BY <1>1, <1>2, <1>3, PTL DEF CrashSpec, ManifestLockIsForever
=============================================================================
