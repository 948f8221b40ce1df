----------------------------- MODULE DailyTree -----------------------------
(***************************************************************************)
(* www/full, the tree of daily builds, from the build ID to the purge:     *)
(*                                                                         *)
(*   lib/cdimage/build_id.py   next_build_id                               *)
(*   lib/cdimage/tree.py       DailyTreePublisher.publish, DailyTree       *)
(*   bin/purge-old-images                                                  *)
(*                                                                         *)
(* One process per image set runs them one after the other, as             *)
(* bin/build-image-set does under the image set's lock                     *)
(* (BuildImageSetProofs!Exclusion).  Image sets meet in .manifest-daily    *)
(* and in the walk over the whole tree that writes it.                     *)
(*                                                                         *)
(* A build ID <<day, n>> is the directory name "day" (n = 0) or "day.n".   *)
(***************************************************************************)
EXTENDS Naturals

CONSTANTS
    ImageSets,
    Nobody,
    NoId,       \* no build ID: a missing `current`, nothing announced
    KeepDays,   \* KeepDays[s]: etc/purge-days, 0 where nothing is purged
    LastDay,    \* bound of the model: the last day
    MaxSuffix,  \* bound of the model: build IDs of each image set on each day
    MaxCrashes  \* bound of the model: crashes in one behaviour

ASSUME NobodyAssumption == Nobody \notin ImageSets
ASSUME NoIdAssumption == NoId \notin Nat \X Nat
ASSUME KeepDaysAssumption == KeepDays \in [ImageSets -> Nat]
ASSUME BoundsAssumption ==
    LastDay \in Nat \ {0} /\ MaxCrashes \in Nat
ASSUME MaxSuffixAssumption == MaxSuffix \in [ImageSets -> [1..LastDay -> Nat]]

VARIABLES
    today,      \* the day
    stamp,      \* stamp[s]: day and next suffix in .next-build-suffix-...
    dirs,       \* dirs[s]: the build directories that exist
    complete,   \* complete[s]: those that hold a whole published build
    current,    \* current[s]: the target of the `current` symlink
    manifest,   \* .manifest-daily: image sets and the build listed for each
    mlock,      \* who created .lock-manifest-daily
    announced,  \* announced[s]: the last build post-qa posted
    pc,         \* pc[s]: the next step of the process of s
    date,       \* date[s]: its CDIMAGE_DATE
    unseen,     \* unseen[s]: the image sets its walk of the tree has yet to see
    found,      \* found[s]: what the walk has found
    todo,       \* todo[s]: the old directories its purge has yet to look at
    crashes     \* crashes so far

tree  == <<dirs, complete, current>>
lists == <<manifest, mlock, announced>>
own   == <<date, unseen, found, todo>>
vars  == <<today, stamp, tree, lists, pc, own, crashes>>

Ids == Nat \X Nat

PCs == {"idle", "build", "newdir", "fill", "unlink", "symlink", "lock", "walk",
        "trace", "postqa", "purge"}

TypeOK ==
    /\ today \in 0..LastDay
    /\ stamp \in [ImageSets -> Ids]
    /\ dirs \in [ImageSets -> SUBSET Ids]
    /\ complete \in [ImageSets -> SUBSET Ids]
    /\ current \in [ImageSets -> Ids \cup {NoId}]
    /\ manifest \subseteq ImageSets \X Ids
    /\ mlock \in ImageSets \cup {Nobody}
    /\ announced \in [ImageSets -> Ids \cup {NoId}]
    /\ pc \in [ImageSets -> PCs]
    /\ date \in [ImageSets -> Ids]
    /\ unseen \in [ImageSets -> SUBSET ImageSets]
    /\ found \in [ImageSets -> SUBSET (ImageSets \X Ids)]
    /\ todo \in [ImageSets -> SUBSET Ids]
    /\ crashes \in 0..MaxCrashes

\* A new installation: no stamp file reads like one of an earlier day.
Init ==
    /\ today = 1
    /\ stamp = [s \in ImageSets |-> <<0, 1>>]
    /\ dirs = [s \in ImageSets |-> {}]
    /\ complete = [s \in ImageSets |-> {}]
    /\ current = [s \in ImageSets |-> NoId]
    /\ manifest = {}
    /\ mlock = Nobody
    /\ announced = [s \in ImageSets |-> NoId]
    /\ pc = [s \in ImageSets |-> "idle"]
    /\ date = [s \in ImageSets |-> <<0, 0>>]
    /\ unseen = [s \in ImageSets |-> {}]
    /\ found = [s \in ImageSets |-> {}]
    /\ todo = [s \in ImageSets |-> {}]
    /\ crashes = 0

Goto(s, from, to) ==
    /\ pc[s] = from
    /\ pc' = [pc EXCEPT ![s] = to]

\* The script ends and forgets its variables.
Ends(s) ==
    /\ pc' = [pc EXCEPT ![s] = "idle"]
    /\ date' = [date EXCEPT ![s] = <<0, 0>>]
    /\ unseen' = [unseen EXCEPT ![s] = {}]
    /\ found' = [found EXCEPT ![s] = {}]
    /\ todo' = [todo EXCEPT ![s] = {}]

\* An exception, or a command that fails under "set -e".
Fails(s, from) ==
    /\ pc[s] = from
    /\ Ends(s)

\* What purge-old-images finds older than its cut-off date when it starts.
Expired(s) ==
    {id \in dirs[s] : KeepDays[s] # 0 /\ id[1] + KeepDays[s] < today}

Midnight ==
    /\ today < LastDay
    /\ today' = today + 1
    /\ UNCHANGED <<stamp, tree, lists, pc, own, crashes>>
-----------------------------------------------------------------------------
(* Building and filling the build's directory. *)

\* The suffix that the stamp file gives today, 0 if it speaks of another day.
Suffix(s) == IF stamp[s][1] = today THEN stamp[s][2] ELSE 0

\* Mutant: the suffix is written back as it was read.
StampUnmoved(s) ==
    /\ Goto(s, "idle", "build")
    /\ Suffix(s) < MaxSuffix[s][today]
    /\ date' = [date EXCEPT ![s] = <<today, Suffix(s)>>]
    /\ stamp' = [stamp EXCEPT
           ![s] = <<today, IF Suffix(s) = 0 THEN 1 ELSE Suffix(s)>>]
    /\ UNCHANGED <<today, tree, lists, unseen, found, todo, crashes>>

next_build_id(s) ==
    /\ Goto(s, "idle", "build")
    /\ Suffix(s) < MaxSuffix[s][today]
    /\ date' = [date EXCEPT ![s] = <<today, Suffix(s)>>]
    /\ stamp' = [stamp EXCEPT ![s] = <<today, Suffix(s) + 1>>]
    /\ UNCHANGED <<today, tree, lists, unseen, found, todo, crashes>>

Build(s) ==
    /\ Goto(s, "build", "newdir")
    /\ UNCHANGED <<today, stamp, tree, lists, own, crashes>>

BuildFails(s) ==
    /\ Fails(s, "build")
    /\ UNCHANGED <<today, stamp, tree, lists, crashes>>

\* os.link fails where the directory has the file already.
new_publish_dir(s) ==
    /\ dirs' = [dirs EXCEPT ![s] = @ \cup {date[s]}]
    /\ \/ Goto(s, "newdir", "fill") /\ UNCHANGED own
       \/ date[s] \in dirs[s] /\ Fails(s, "newdir")
    /\ complete' = [complete EXCEPT ![s] = @ \ {date[s]}]
    /\ UNCHANGED <<today, stamp, current, lists, crashes>>

\* Images, report, checksums, web indices, metalinks.
publish_images(s) ==
    /\ Goto(s, "fill", "unlink")
    /\ complete' = [complete EXCEPT ![s] = @ \cup {date[s]}]
    /\ UNCHANGED <<today, stamp, dirs, current, lists, own, crashes>>

\* "No CDs produced!": publish returns, and the purge is run all the same.
NoImages(s) ==
    /\ Goto(s, "fill", "purge")
    /\ todo' = [todo EXCEPT ![s] = Expired(s)]
    /\ UNCHANGED <<today, stamp, tree, lists, date, unseen, found, crashes>>

\* Mutant: an exception in the middle is swallowed.
ImagesGoOn(s) ==
    /\ Goto(s, "fill", "unlink")
    /\ UNCHANGED <<today, stamp, tree, lists, own, crashes>>

ImagesFail(s) ==
    /\ Fails(s, "fill")
    /\ UNCHANGED <<today, stamp, tree, lists, crashes>>
-----------------------------------------------------------------------------
(* The `current` symlink and the manifest. *)

UnlinkCurrent(s) ==
    /\ Goto(s, "unlink", "symlink")
    /\ current' = [current EXCEPT ![s] = NoId]
    /\ UNCHANGED <<today, stamp, dirs, complete, lists, own, crashes>>

SymlinkCurrent(s) ==
    /\ Goto(s, "symlink", "lock")
    /\ current' = [current EXCEPT ![s] = date[s]]
    /\ UNCHANGED <<today, stamp, dirs, complete, lists, own, crashes>>

StartWalk(s) ==
    /\ Goto(s, "lock", "walk")
    /\ unseen' = [unseen EXCEPT ![s] = ImageSets]
    /\ found' = [found EXCEPT ![s] = {}]
    /\ UNCHANGED <<date, todo>>

\* Mutant: lockfile's status is not checked.
WalkUnlocked(s) ==
    /\ StartWalk(s)
    /\ mlock' = s
    /\ UNCHANGED <<today, stamp, tree, manifest, announced, crashes>>

\* Mutant: the lock file is taken over from a process that is gone.
LockAbandoned(s) ==
    /\ StartWalk(s)
    /\ mlock # Nobody => pc[mlock] \notin {"walk", "trace"}
    /\ mlock' = s
    /\ UNCHANGED <<today, stamp, tree, manifest, announced, crashes>>

LockManifest(s) ==
    /\ StartWalk(s)
    /\ mlock = Nobody
    /\ mlock' = s
    /\ UNCHANGED <<today, stamp, tree, manifest, announced, crashes>>

\* lockfile -r 4 gives up: "Couldn't acquire manifest-daily lock!"
LockFails(s) ==
    /\ mlock # Nobody
    /\ Fails(s, "lock")
    /\ UNCHANGED <<today, stamp, tree, lists, crashes>>

\* os.walk: what is under the `current` of t now.
WalkImageSet(s, t) ==
    /\ pc[s] = "walk"
    /\ t \in unseen[s]
    /\ unseen' = [unseen EXCEPT ![s] = @ \ {t}]
    /\ found' = [found EXCEPT ![s] =
           IF current[t] \in dirs[t] THEN @ \cup {<<t, current[t]>>} ELSE @]
    /\ UNCHANGED <<today, stamp, tree, lists, pc, date, todo, crashes>>

\* os.stat of a name that another image set's process removes meanwhile.
WalkFails(s) ==
    /\ Fails(s, "walk")
    /\ \E t \in ImageSets \ {s} : pc[t] \in {"symlink", "lock", "purge"}
    /\ mlock' = Nobody
    /\ UNCHANGED <<today, stamp, tree, manifest, announced, crashes>>

\* AtomicFile renames .manifest-daily.new.
WriteManifest(s) ==
    /\ Goto(s, "walk", "trace")
    /\ unseen[s] = {}
    /\ manifest' = found[s]
    /\ UNCHANGED <<today, stamp, tree, mlock, announced, own, crashes>>

\* The timestamp, which may fail; the lock file is removed in any case.
WriteTrace(s) ==
    /\ \/ Goto(s, "trace", "postqa") /\ UNCHANGED own
       \/ Fails(s, "trace")
    /\ mlock' = Nobody
    /\ UNCHANGED <<today, stamp, tree, manifest, announced, crashes>>

post_qa(s) ==
    /\ Goto(s, "postqa", "purge")
    /\ announced' = [announced EXCEPT ![s] = date[s]]
    /\ todo' = [todo EXCEPT ![s] = Expired(s)]
    /\ UNCHANGED <<today, stamp, tree, manifest, mlock, date, unseen, found,
                   crashes>>

\* It may have posted the build before it fails.
PostQaFails(s) ==
    /\ Fails(s, "postqa")
    /\ announced' \in {announced, [announced EXCEPT ![s] = date[s]]}
    /\ UNCHANGED <<today, stamp, tree, manifest, mlock, crashes>>
-----------------------------------------------------------------------------
(* bin/purge-old-images *)

\* rm -rf: not one step in truth, but what is left of it after a crash is a
\* directory without a whole build, like that of a build that failed.
RemoveDirectory(s, id) ==
    /\ id \in todo[s]
    /\ todo' = [todo EXCEPT ![s] = @ \ {id}]
    /\ dirs' = [dirs EXCEPT ![s] = @ \ {id}]
    /\ complete' = [complete EXCEPT ![s] = @ \ {id}]
    /\ UNCHANGED <<today, stamp, current, lists, pc, date, unseen, found,
                   crashes>>

\* Mutant: `current` is not looked at.
PurgeAny(s, id) ==
    /\ pc[s] = "purge"
    /\ RemoveDirectory(s, id)

\* `current` leads elsewhere.
Purge(s, id) ==
    /\ pc[s] = "purge"
    /\ id # current[s]
    /\ RemoveDirectory(s, id)

PurgeDone(s) ==
    /\ Fails(s, "purge")
    /\ todo[s] \subseteq {current[s]}
    /\ UNCHANGED <<today, stamp, tree, lists, crashes>>
-----------------------------------------------------------------------------
Publish(s) ==
    \/ new_publish_dir(s) \/ publish_images(s) \/ NoImages(s) \/ ImagesFail(s)
    \/ UnlinkCurrent(s) \/ SymlinkCurrent(s)
    \/ LockManifest(s) \/ LockFails(s)
    \/ \E t \in ImageSets : WalkImageSet(s, t)
    \/ WalkFails(s) \/ WriteManifest(s) \/ WriteTrace(s)
    \/ post_qa(s) \/ PostQaFails(s)

PurgeOldImages(s) ==
    \/ \E id \in todo[s] : Purge(s, id)
    \/ PurgeDone(s)

Step(s) ==
    \/ next_build_id(s) \/ Build(s) \/ BuildFails(s)
    \/ Publish(s) \/ PurgeOldImages(s)

Next == Midnight \/ \E s \in ImageSets : Step(s)

Spec == Init /\ [][Next]_vars

\* The machine goes down, or the process and all it runs are killed.
Crash(s) ==
    /\ crashes < MaxCrashes
    /\ pc[s] # "idle"
    /\ Ends(s)
    /\ crashes' = crashes + 1
    /\ UNCHANGED <<today, stamp, tree, lists>>

CrashNext == Next \/ \E s \in ImageSets : Crash(s)

CrashSpec == Init /\ [][CrashNext]_vars
-----------------------------------------------------------------------------
(* Properties. *)

\* A build ID is never given to two builds of an image set: the directory that
\* new_publish_dir is about to make does not exist, whatever builds failed,
\* were purged or crashed before (build_id.py, lines 26-55).
FreshBuildId == \A s \in ImageSets : pc[s] = "newdir" => date[s] \notin dirs[s]

\* `current` never leads to a directory that is half filled, half purged or
\* gone: what the tree's users see is always a whole build.
CurrentIsComplete ==
    \A s \in ImageSets :
        current[s] # NoId => current[s] \in complete[s] \cap dirs[s]

\* Images that post-qa has announced are in .manifest-daily as long as
\* `current` leads to them, however many image sets are published at once.
AnnouncedInManifest ==
    \A s \in ImageSets :
        announced[s] # NoId /\ announced[s] = current[s]
            => <<s, announced[s]>> \in manifest

Newer(i, j) == i[1] > j[1] \/ (i[1] = j[1] /\ i[2] > j[2])

Newest(ids) == CHOOSE i \in ids : \A j \in ids \ {i} : Newer(i, j)

\* "Purge images older than 2 days => keep the most recent build."
\* (etc/purge-days, line 3): no purge begins to remove the newest whole build.
MostRecentBuildKept ==
    [][\A s \in ImageSets :
           complete[s] # {} => Newest(complete[s]) \in complete'[s]]_vars

\* What saves the newest whole build is that `current` leads to it: while no
\* process has died, no purge removes it (purge-old-images, lines 75-77).
NewestKeptUntilCrash ==
    [][crashes = 0 =>
           \A s \in ImageSets :
               complete[s] # {} => Newest(complete[s]) \in complete'[s]]_vars

\* The lock on the manifest has no -l (tree.py, line 586): when a process dies
\* with it, the manifest is never written again and no build is announced.
ManifestLockIsForever ==
    [][ mlock # Nobody /\ pc[mlock] \notin {"walk", "trace"}
          => mlock' = mlock /\ manifest' = manifest ]_vars
=============================================================================
