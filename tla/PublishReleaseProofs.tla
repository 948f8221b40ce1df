------------------------- MODULE PublishReleaseProofs -------------------------
(* What PublishRelease keeps, for any types, architectures, statuses and dates *)
(* and any number of publications and failures.                                *)
EXTENDS PublishRelease, TLAPS, SequenceTheorems

LinksAreFunction == links = [d \in Releases |-> links[d]]

-----------------------------------------------------------------------------
(* Links.                                                                      *)

(* A link is in the directory that its type belongs to.                        *)
InTheirDirectory == \A d \in Releases : \A n \in links[d] : DirOf(n[2]) = d

(* An image is linked after it has been copied.                                *)
CopiedBeforeLinked == stage \in {"forget", "link"} => Name(Head(todo)) \in DOMAIN pool

(* When the pool is purged, the directory has no links of other statuses.      *)
PurgedBeforePool ==
    stage = "purgePool" /\ Dir \in Releases => \A n \in links[Dir] : n[1] = args.status

(* OwnLinksResolve, link by link.                                              *)
Resolves == \A d \in Releases : \A n \in links[d] : n \in DOMAIN pool \/ n \in lost

LinkInv ==
    /\ LinksAreFunction
    /\ InTheirDirectory
    /\ CopiedBeforeLinked
    /\ PurgedBeforePool
    /\ Resolves

LEMMA LinkInit == Init => LinkInv
  BY DEF Init, SimpleInit, LinkInv, LinksAreFunction, InTheirDirectory,
     CopiedBeforeLinked, PurgedBeforePool, Resolves

(* A step that neither links, nor removes images, nor comes to a stage that    *)
(* asks for more.                                                              *)
LEMMA LinksStay ==
  ASSUME LinkInv, links' = links, lost' = lost, DOMAIN pool \subseteq DOMAIN pool',
         stage' \notin {"forget", "link", "purgePool"}
  PROVE  LinkInv'
  BY DEF LinkInv, LinksAreFunction, InTheirDirectory, CopiedBeforeLinked,
     PurgedBeforePool, Resolves

(* One that removes some of the links of its directory.                        *)
LEMMA LinksGo ==
  ASSUME LinkInv, NEW kept, links' = [links EXCEPT ![Dir] = kept], kept \subseteq links[Dir],
         UNCHANGED <<pool, lost, args>>, stage' \notin {"forget", "link"},
         stage' = "purgePool" => \A n \in kept : n[1] = args.status
  PROVE  LinkInv'
<1>1. \A d \in Releases : links'[d] \subseteq links[d]
  BY DEF LinkInv, LinksAreFunction
<1>2. Dir \in Releases => links'[Dir] = kept
  BY DEF LinkInv, LinksAreFunction
<1>3. Dir' = Dir
  BY DEF Dir
<1>4. LinksAreFunction'
  BY DEF LinkInv, LinksAreFunction
<1>5. InTheirDirectory' /\ Resolves'
  BY <1>1 DEF LinkInv, InTheirDirectory, Resolves
<1>6. PurgedBeforePool'
  BY <1>2, <1>3 DEF PurgedBeforePool
<1>. QED
  BY <1>4, <1>5, <1>6 DEF LinkInv, CopiedBeforeLinked

LEMMA CopyKeeps == LinkInv /\ Copy => LinkInv'
<1>. SUFFICES ASSUME LinkInv, Copy PROVE LinkInv'
  OBVIOUS
<1>. DEFINE name == Name(Head(todo))
<1>1. /\ links' = links /\ lost' = lost /\ args' = args /\ todo' = todo
      /\ DOMAIN pool' = {name} \cup DOMAIN pool
      /\ stage' \in {"forget", "idle"}
  BY DEF Copy, Store, Failed, Goto
<1>2. name' = name
  BY <1>1 DEF Name
<1>3. CopiedBeforeLinked'
  BY <1>1, <1>2 DEF CopiedBeforeLinked
<1>4. PurgedBeforePool'
  BY <1>1 DEF PurgedBeforePool
<1>. QED
  BY <1>1, <1>3, <1>4 DEF LinkInv, LinksAreFunction, InTheirDirectory, Resolves

LEMMA ForgetInPoolKeeps == LinkInv /\ ForgetInPool => LinkInv'
<1>. SUFFICES ASSUME LinkInv, ForgetInPool PROVE LinkInv'
  OBVIOUS
<1>1. UNCHANGED <<links, pool, lost, args>>
  BY DEF ForgetInPool
<1>2. CASE PublishDist
  <2>1. UNCHANGED todo /\ stage = "forget" /\ stage' = "link"
    BY <1>2 DEF ForgetInPool, Goto
  <2>. QED
    BY <1>1, <2>1 DEF LinkInv, LinksAreFunction, InTheirDirectory, CopiedBeforeLinked,
       PurgedBeforePool, Resolves, Name
<1>3. CASE ~PublishDist
  <2>1. stage' \in {"copy", "sumPool"}
    BY <1>3 DEF ForgetInPool, NextImage, Goto
  <2>. QED
    BY <1>1, <2>1, LinksStay
<1>. QED
  BY <1>2, <1>3

LEMMA LinkKeeps == LinkInv /\ Link => LinkInv'
<1>. SUFFICES ASSUME LinkInv, Link PROVE LinkInv'
  OBVIOUS
<1>. DEFINE name == Name(Head(todo))
<1>1. /\ UNCHANGED <<pool, lost, args, todo>>
      /\ stage = "link" /\ stage' = "forgetLink"
      /\ links' = [links EXCEPT ![Dir] = @ \cup {name}]
  BY DEF Link, Goto
<1>2. \A d \in Releases : \A n \in links'[d] : n \in links[d] \/ (d = Dir /\ n = name)
  BY <1>1 DEF LinkInv, LinksAreFunction
<1>3. DirOf(name[2]) = Dir
  BY DEF Name, Dir
<1>4. name \in DOMAIN pool
  BY <1>1 DEF LinkInv, CopiedBeforeLinked
<1>5. LinksAreFunction'
  BY <1>1 DEF LinkInv, LinksAreFunction
<1>6. InTheirDirectory' /\ Resolves'
  BY <1>1, <1>2, <1>3, <1>4 DEF LinkInv, InTheirDirectory, Resolves
<1>. QED
  BY <1>1, <1>5, <1>6 DEF LinkInv, CopiedBeforeLinked, PurgedBeforePool

LEMMA PurgePoolKeeps == LinkInv /\ PurgePool => LinkInv'
<1>. SUFFICES ASSUME LinkInv, PurgePool PROVE LinkInv'
  OBVIOUS
<1>1. /\ UNCHANGED <<links, args>>
      /\ stage = "purgePool" /\ stage' = "sumPool"
      /\ DOMAIN pool' = {n \in DOMAIN pool : n[1] = args.status}
      /\ lost' = lost \cup {n \in DOMAIN pool \ DOMAIN pool' : DirOf(n[2]) # Dir}
  BY DEF PurgePool, Restrict, Kept, Goto
<1>2. ASSUME NEW d \in Releases, NEW n \in links[d]
      PROVE  n \in DOMAIN pool' \/ n \in lost'
  <2>1. n \in DOMAIN pool \/ n \in lost
    BY DEF LinkInv, Resolves
  <2>2. DirOf(n[2]) = d
    BY DEF LinkInv, InTheirDirectory
  <2>3. d = Dir => n[1] = args.status
    BY <1>1 DEF LinkInv, PurgedBeforePool
  <2>. QED
    BY <1>1, <2>1, <2>2, <2>3
<1>. QED
  BY <1>1, <1>2 DEF LinkInv, LinksAreFunction, InTheirDirectory, CopiedBeforeLinked,
     PurgedBeforePool, Resolves

LEMMA LinkStep == LinkInv /\ [Next]_vars => LinkInv'
<1>. SUFFICES ASSUME LinkInv, [Next]_vars PROVE LinkInv'
  OBVIOUS
<1>1. ASSUME NEW r \in Requests, NEW date \in Dates, NEW status \in Statuses,
             NEW official \in {"yes", "poolonly"}, Start(r[1], r[2], date, official, status)
      PROVE  LinkInv'
  <2>1. UNCHANGED <<links, pool, lost>> /\ stage' \in {"unlink", "copy"}
    BY <1>1 DEF Start, simpleVars, Goto
  <2>. QED
    BY <2>1, LinksStay
<1>2. CASE UnlinkReleased
  <2>. DEFINE old == {n \in links[Dir] : n[1] = Release /\ n[2] = args.type}
  <2>1. /\ UNCHANGED <<pool, lost, args>> /\ stage' = "copy"
        /\ links' = [links EXCEPT ![Dir] = links[Dir] \ old]
    BY <1>2 DEF UnlinkReleased, Goto
  <2>. QED
    BY <2>1, LinksGo
<1>3. CASE Copy
  BY <1>3, CopyKeeps
<1>4. CASE ForgetInPool
  BY <1>4, ForgetInPoolKeeps
<1>5. CASE Link
  BY <1>5, LinkKeeps
<1>6. CASE ForgetLink
  <2>1. UNCHANGED <<links, pool, lost>> /\ stage' \in {"copy", "purgeLinks", "sumPool"}
    BY <1>6 DEF ForgetLink, NextImage, Goto
  <2>. QED
    BY <2>1, LinksStay
<1>7. CASE PurgeLinks
  <2>1. /\ UNCHANGED <<pool, lost, args>> /\ stage' = "purgePool"
        /\ links' = [links EXCEPT ![Dir] = Kept(links[Dir])]
    BY <1>7 DEF PurgeLinks, KeptLinks, Goto
  <2>. QED
    BY <2>1, LinksGo DEF Kept
<1>8. CASE PurgePool
  BY <1>8, PurgePoolKeeps
<1>9. CASE SumPool \/ SumLinks \/ WriteManifest
  <2>1. UNCHANGED <<links, pool, lost>> /\ stage' \in {"sumLinks", "manifest", "idle"}
    BY <1>9 DEF SumPool, SumLinks, WriteManifest, Goto
  <2>. QED
    BY <2>1, LinksStay
<1>10. CASE Fail
  <2>1. UNCHANGED <<links, pool, lost>> /\ stage' = "idle"
    BY <1>10 DEF Fail, Failed, simpleVars, Goto
  <2>. QED
    BY <2>1, LinksStay
<1>11. CASE TriggerMirrors /\ UNCHANGED <<runVars, endVars, count, lost, replaced>>
  <2>1. UNCHANGED <<links, pool, lost, stage, args, todo>>
    BY <1>11 DEF TriggerMirrors, CheckManifest, FetchTree, runVars
  <2>. QED
    BY <2>1 DEF LinkInv, LinksAreFunction, InTheirDirectory, CopiedBeforeLinked,
       PurgedBeforePool, Resolves, Name, Dir
<1>12. CASE UNCHANGED vars
  BY <1>12 DEF vars, simpleVars, runVars, LinkInv, LinksAreFunction, InTheirDirectory,
     CopiedBeforeLinked, PurgedBeforePool, Resolves, Name, Dir
<1>. QED
  BY <1>1, <1>2, <1>3, <1>4, <1>5, <1>6, <1>7, <1>8, <1>9, <1>10, <1>11, <1>12 DEF Next, Publish

(* At no moment, wherever a publication fails, does a link lead nowhere whose  *)
(* image its own directory's publications have removed (publish-release:250-   *)
(* 425).                                                                       *)
THEOREM LinksLead == Spec => []OwnLinksResolve
<1>1. LinkInv => OwnLinksResolve
  BY DEF LinkInv, Resolves, OwnLinksResolve, Linked
<1>. QED
  BY LinkInit, LinkStep, <1>1, PTL DEF Spec

-----------------------------------------------------------------------------
(* The manifest.                                                               *)

(* Whoever relies on it has not seen it, or it is right.                       *)
ManifestInv ==
    /\ LinksAreFunction
    /\ \A p \in manifest : p[1] \in Releases \cup {"pool"}
    /\ ManifestHolds

LEMMA ManifestInit == Init => ManifestInv
  BY DEF Init, SimpleInit, ManifestInv, LinksAreFunction, ManifestHolds

(* A step that removes no path, and lets nobody look.                          *)
LEMMA PathsStay ==
  ASSUME ManifestInv, LinksAreFunction', DOMAIN pool \subseteq DOMAIN pool',
         \A d \in Releases : links[d] \subseteq links'[d],
         UNCHANGED <<manifest, sync, unnoticed>>
  PROVE  ManifestInv'
  BY DEF ManifestInv, ManifestHolds, Exists, Names

(* One that tells both who rely on the manifest.                               *)
LEMMA AllNoticed ==
  ASSUME ManifestInv, LinksAreFunction', manifest' = manifest, unnoticed' = Lookers
  PROVE  ManifestInv'
  BY DEF ManifestInv, ManifestHolds, Lookers

LEMMA NothingChanges ==
  ASSUME ManifestInv, UNCHANGED <<pool, links, manifest, sync, unnoticed>>
  PROVE  ManifestInv'
  BY DEF ManifestInv, LinksAreFunction, ManifestHolds, Exists, Names

(* Links of a directory are removed, or none was there to be removed.          *)
LEMMA LinksAreNoticed ==
  ASSUME ManifestInv, NEW kept, links' = [links EXCEPT ![Dir] = kept],
         Notice(links' # links), UNCHANGED <<pool, manifest, sync>>
  PROVE  ManifestInv'
<1>1. LinksAreFunction'
  BY DEF ManifestInv, LinksAreFunction
<1>2. CASE links' = links
  BY <1>2, NothingChanges DEF Notice
<1>3. CASE links' # links
  BY <1>1, <1>3, AllNoticed DEF Notice
<1>. QED
  BY <1>2, <1>3

LEMMA UnlinkNoticed == ManifestInv /\ UnlinkReleased => ManifestInv'
<1>. SUFFICES ASSUME ManifestInv, UnlinkReleased PROVE ManifestInv'
  OBVIOUS
<1>. DEFINE old == {n \in links[Dir] : n[1] = Release /\ n[2] = args.type}
<1>1. links' = [links EXCEPT ![Dir] = links[Dir] \ old] /\ Notice(old # {})
  BY DEF UnlinkReleased
<1>2. UNCHANGED <<pool, manifest, sync>>
  BY DEF UnlinkReleased
<1>3. LinksAreFunction'
  BY <1>1 DEF ManifestInv, LinksAreFunction
<1>4. CASE old = {}
  <2>1. \A d \in Releases : links'[d] = links[d]
    BY <1>1, <1>4 DEF ManifestInv, LinksAreFunction
  <2>2. links' = links
    BY <1>3, <2>1 DEF ManifestInv, LinksAreFunction
  <2>. QED
    BY <1>1, <1>2, <1>4, <2>2, NothingChanges DEF Notice
<1>5. CASE old # {}
  BY <1>1, <1>2, <1>3, <1>5, AllNoticed DEF Notice
<1>. QED
  BY <1>4, <1>5

LEMMA ManifestStep == ManifestInv /\ [Next]_vars => ManifestInv'
<1>. SUFFICES ASSUME ManifestInv, [Next]_vars PROVE ManifestInv'
  OBVIOUS
<1>1. ASSUME NEW r \in Requests, NEW date \in Dates, NEW status \in Statuses,
             NEW official \in {"yes", "poolonly"}, Start(r[1], r[2], date, official, status)
      PROVE  ManifestInv'
  BY <1>1, NothingChanges DEF Start, simpleVars
<1>2. CASE UnlinkReleased
  BY <1>2, UnlinkNoticed
<1>3. CASE Copy
  <2>1. UNCHANGED <<links, manifest, sync, unnoticed>> /\ DOMAIN pool \subseteq DOMAIN pool'
    BY <1>3 DEF Copy, Store
  <2>. QED
    BY <2>1, PathsStay DEF ManifestInv, LinksAreFunction
<1>4. CASE ForgetInPool \/ ForgetLink \/ SumPool \/ SumLinks
  BY <1>4, NothingChanges DEF ForgetInPool, ForgetLink, SumPool, SumLinks
<1>5. CASE Link
  <2>1. UNCHANGED <<pool, manifest, sync, unnoticed>>
    BY <1>5 DEF Link
  <2>2. /\ LinksAreFunction'
        /\ \A d \in Releases : links[d] \subseteq links'[d]
    BY <1>5 DEF Link, ManifestInv, LinksAreFunction
  <2>. QED
    BY <2>1, <2>2, PathsStay
<1>6. CASE PurgeLinks
  BY <1>6, LinksAreNoticed DEF PurgeLinks
<1>7. CASE PurgePool
  <2>1. UNCHANGED <<links, manifest, sync>> /\ Notice(pool' # pool)
    BY <1>7 DEF PurgePool
  <2>2. CASE pool' = pool
    BY <2>1, <2>2, NothingChanges DEF Notice
  <2>3. CASE pool' # pool
    BY <2>1, <2>3, AllNoticed DEF Notice, ManifestInv, LinksAreFunction
  <2>. QED
    BY <2>2, <2>3
<1>8. CASE WriteManifest
  <2>1. /\ manifest' = ManifestFiles /\ UNCHANGED <<pool, links>>
        /\ \A p \in ManifestFiles : Exists(p)
    BY <1>8 DEF WriteManifest, SiteManifest, StatFails
  <2>2. \A p \in manifest' : Exists(p)'
    BY <2>1 DEF Exists, Names
  <2>3. \A p \in manifest' : p[1] \in Releases \cup {"pool"}
    BY <2>1 DEF ManifestFiles
  <2>. QED
    BY <2>1, <2>2, <2>3 DEF ManifestInv, LinksAreFunction, ManifestHolds
<1>9. CASE Fail
  BY <1>9, NothingChanges DEF Fail, simpleVars
<1>10. CASE CheckManifest
  <2>1. UNCHANGED <<pool, links, manifest>> /\ \A p \in manifest : Exists(p)
    BY <1>10 DEF CheckManifest, ManifestChecked
  <2>. QED
    BY <2>1 DEF ManifestInv, LinksAreFunction, ManifestHolds, Exists, Names
<1>11. CASE FetchTree
  BY <1>11 DEF FetchTree, ManifestInv, LinksAreFunction, ManifestHolds, Exists, Names
<1>12. CASE UNCHANGED vars
  BY <1>12, NothingChanges DEF vars, simpleVars
<1>. QED
  BY <1>1, <1>2, <1>3, <1>4, <1>5, <1>6, <1>7, <1>8, <1>9, <1>10, <1>11, <1>12
  DEF Next, Publish, TriggerMirrors

(* Who has looked since the last removal, at the manifest when it was written  *)
(* (publish-release:520-528) or at the files when sync-mirrors checked it      *)
(* (mirror.py:53-61), finds all that it lists.                                 *)
THEOREM ManifestTrue == Spec => []ManifestHolds
<1>1. ManifestInv => ManifestHolds
  BY DEF ManifestInv
<1>. QED
  BY ManifestInit, ManifestStep, <1>1, PTL DEF Spec

-----------------------------------------------------------------------------
(* The course of a publication.                                                *)

InLoop == stage \in {"copy", "forget", "link", "forgetLink"}

(* Architectures that the loop is done with.                                   *)
Treated == args.arches \ ToSet(todo)

Course ==
    /\ stage \in {"idle", "unlink", "copy", "forget", "link", "forgetLink", "purgeLinks",
                  "purgePool", "sumPool", "sumLinks", "manifest"}
    /\ stage # "idle" => todo \in Seq(args.arches) /\ args.arches \subseteq ArchesOf(args.type)
    /\ stage = "unlink" \/ InLoop => todo # <<>>
    /\ stage \in {"purgeLinks", "purgePool", "sumPool", "sumLinks", "manifest"} => todo = <<>>
    /\ stage \in {"unlink", "link", "forgetLink", "purgeLinks", "purgePool", "sumLinks"} => PublishDist
    /\ stage = "unlink" => Treated = {}

(* The loop goes on with the next image.                                       *)
LEMMA NextIsNext ==
  ASSUME Course, InLoop, args' = args, NextImage
  PROVE  /\ Course'
         /\ Head(todo) \in args.arches \cap ToSet(todo)
         /\ Treated' \subseteq Treated \cup {Head(todo)}
         /\ stage' = "copy" \/ stage' = (IF PublishDist THEN "purgeLinks" ELSE "sumPool")
<1>1. todo \in Seq(args.arches) /\ todo # <<>> /\ todo' = Tail(todo)
  BY DEF Course, InLoop, NextImage
<1>2. /\ DOMAIN todo = 1 .. Len(todo) /\ Len(todo) \in Nat \ {0} /\ Head(todo) = todo[1]
      /\ Tail(todo) \in Seq(args.arches) /\ Len(Tail(todo)) = Len(todo) - 1
      /\ \A i \in 1 .. Len(todo) - 1 : Tail(todo)[i] = todo[i + 1]
  BY <1>1
<1>3. Head(todo) \in args.arches \cap ToSet(todo)
  BY <1>1, <1>2 DEF ToSet
<1>4. ToSet(todo) \subseteq ToSet(Tail(todo)) \cup {Head(todo)}
  <2>1. ASSUME NEW i \in DOMAIN todo, i # 1
        PROVE  todo[i] \in ToSet(Tail(todo))
    <3>1. i - 1 \in 1 .. Len(todo) - 1 /\ (i - 1) + 1 = i
      BY <1>2, <2>1
    <3>2. DOMAIN Tail(todo) = 1 .. Len(todo) - 1
      BY <1>2
    <3>3. Tail(todo)[i - 1] = todo[i]
      BY <1>2, <3>1
    <3>. QED
      BY <3>1, <3>2, <3>3 DEF ToSet
  <2>. QED
    BY <1>2, <2>1 DEF ToSet
<1>5. Treated' \subseteq Treated \cup {Head(todo)}
  BY <1>1, <1>4 DEF Treated
<1>6. \/ stage' = "copy" /\ todo' # <<>>
      \/ stage' = (IF PublishDist THEN "purgeLinks" ELSE "sumPool") /\ todo' = <<>>
  <2>1. ASSUME Len(todo) > 1 PROVE Tail(todo) # <<>>
    <3>1. Len(Tail(todo)) # 0 /\ Tail(todo) \in Seq(args.arches)
      BY <1>2, <2>1
    <3>. QED
      BY <3>1, EmptySeq
  <2>2. ASSUME ~(Len(todo) > 1) PROVE Tail(todo) = <<>>
    <3>1. Len(Tail(todo)) = 0 /\ Tail(todo) \in Seq(args.arches)
      BY <1>2, <2>2
    <3>. QED
      BY <3>1, EmptySeq
  <2>. QED
    BY <1>1, <2>1, <2>2 DEF NextImage, Goto
<1>7. Course'
  BY <1>1, <1>2, <1>6 DEF Course, InLoop, PublishDist
<1>. QED
  BY <1>3, <1>5, <1>6, <1>7

LEMMA CourseStep == Course /\ [Next]_vars => Course'
<1>. SUFFICES ASSUME Course, [Next]_vars PROVE Course'
  OBVIOUS
<1>1. ASSUME NEW r \in Requests, NEW date \in Dates, NEW status \in Statuses,
             NEW official \in {"yes", "poolonly"}, Start(r[1], r[2], date, official, status)
      PROVE  Course'
  <2>1. /\ args'.type = r[1] /\ args'.arches = ToSet(r[2]) /\ args'.official = official
        /\ todo' = r[2] /\ stage' = IF official = "yes" THEN "unlink" ELSE "copy"
    BY <1>1 DEF Start, Goto
  <2>2. r[2] \in Seq(ArchesOf(r[1])) /\ r[2] # <<>>
    BY RequestsAssumption
  <2>3. DOMAIN r[2] = 1 .. Len(r[2]) /\ Len(r[2]) \in Nat
    BY <2>2
  <2>4. r[2] \in Seq(ToSet(r[2])) /\ ToSet(r[2]) \subseteq ArchesOf(r[1])
    BY <2>2, <2>3 DEF ToSet
  <2>5. Treated' = {}
    BY <2>1 DEF Treated
  <2>. QED
    BY <2>1, <2>2, <2>4, <2>5 DEF Course, InLoop, PublishDist
<1>2. ASSUME stage' = "idle" PROVE Course'
  BY <1>2 DEF Course, InLoop
<1>3. CASE UnlinkReleased \/ Copy \/ Link \/ PurgeLinks \/ PurgePool \/ SumPool \/ SumLinks
  <2>1. UNCHANGED <<args, todo>>
    BY <1>3 DEF UnlinkReleased, Copy, Link, PurgeLinks, PurgePool, SumPool, SumLinks
  <2>2. \/ stage' = "idle"
        \/ stage \in {"unlink", "copy", "link"} /\ stage' \in {"copy", "forget", "forgetLink"}
           /\ (stage' = "forgetLink" => stage = "link")
        \/ stage \in {"purgeLinks", "purgePool", "sumPool", "sumLinks"}
           /\ stage' \in {"purgePool", "sumPool", "sumLinks", "manifest"}
           /\ (stage' = "purgePool" => stage = "purgeLinks")
           /\ (stage' = "sumLinks" => PublishDist)
    BY <1>3 DEF UnlinkReleased, Copy, Link, PurgeLinks, PurgePool, SumPool, SumLinks, Goto, Failed
  <2>. QED
    BY <1>2, <2>1, <2>2 DEF Course, InLoop, PublishDist
<1>4. CASE ForgetInPool
  <2>1. stage = "forget" /\ args' = args
    BY <1>4 DEF ForgetInPool
  <2>2. CASE PublishDist
    BY <1>4, <2>1, <2>2 DEF ForgetInPool, Course, InLoop, Goto, PublishDist
  <2>3. CASE ~PublishDist
    BY <1>4, <2>1, <2>3, NextIsNext DEF ForgetInPool, InLoop
  <2>. QED
    BY <2>2, <2>3
<1>5. CASE ForgetLink
  BY <1>5, NextIsNext DEF ForgetLink, InLoop
<1>6. CASE WriteManifest \/ Fail
  BY <1>2, <1>6 DEF WriteManifest, Fail, Failed, Goto
<1>7. CASE UNCHANGED runVars
  BY <1>7 DEF runVars, Course, InLoop, PublishDist, Treated
<1>. QED
  BY <1>1, <1>3, <1>4, <1>5, <1>6, <1>7 DEF Next, Publish, vars

-----------------------------------------------------------------------------
(* Checksums of what the publication under way has treated.                    *)
SumsAreFunction == sums = [d \in Releases \cup {"pool"} |-> sums[d]]

Copied(a) == Name(a) \in DOMAIN pool /\ pool[Name(a)] = Built(args.date, args.type, a)
Placed(a) == Copied(a) /\ (PublishDist => Name(a) \in links[Dir])

(* Its old checksum is gone, until it has a new one.                           *)
Summed(d, a, again) ==
    IF again THEN Name(a) \in DOMAIN sums[d] /\ sums[d][Name(a)] = pool[Name(a)]
    ELSE Name(a) \notin DOMAIN sums[d]

PoolSummed == stage \in {"sumLinks", "manifest"}
DirSummed == stage = "manifest"

(* The image that the loop is at.                                              *)
CurrentImage ==
    /\ stage \in {"forget", "link", "forgetLink"} => Copied(Head(todo))
    /\ stage \in {"link", "forgetLink"} => Summed("pool", Head(todo), FALSE)
    /\ stage = "forgetLink" => Name(Head(todo)) \in links[Dir]

TreatedImages ==
    stage # "idle" => \A a \in Treated :
        /\ Placed(a)
        /\ Summed("pool", a, PoolSummed)
        /\ PublishDist => Summed(Dir, a, DirSummed)

PublishedInv ==
    /\ LinksAreFunction /\ SumsAreFunction
    /\ CurrentImage /\ TreatedImages /\ PublishedSumsTrue

LEMMA DirIsRelease == Dir \in Releases /\ Dir # "pool"
  BY ReleasesAssumption DEF Dir, DirOf

LEMMA PublishedInit == Init => PublishedInv
  BY DEF Init, SimpleInit, PublishedInv, LinksAreFunction, SumsAreFunction, CurrentImage,
     TreatedImages, PublishedSumsTrue, Done

(* An image that the checksum file does not have gets a true checksum, from    *)
(* the image or from the daily build that it was copied from.                  *)
LEMMA MergedIsTrue ==
  ASSUME NEW old, NEW names, NEW a \in ArchesOf(args.type), Copied(a),
         Name(a) \in names, Name(a) \notin DOMAIN old
  PROVE  Merged(old, Daily, names)[Name(a)] = pool[Name(a)]
<1>1. Name(a)[3] = a
  BY DEF Name
<1>2. Name(a) \in DOMAIN Daily.sums => Daily.sums[Name(a)] = Built(args.date, args.type, a)
  BY <1>1 DEF Daily
<1>. QED
  BY <1>2 DEF Merged, Content, Copied

(* A publication that fails leaves nothing to show.                            *)
LEMMA StopKeeps ==
  ASSUME PublishedInv, UNCHANGED <<links, sums>>, stage' = "idle", ended' = "failed"
  PROVE  PublishedInv'
  BY DEF PublishedInv, LinksAreFunction, SumsAreFunction, CurrentImage, TreatedImages,
     PublishedSumsTrue, Done

LEMMA CopyPublishes == Course /\ PublishedInv /\ Copy => PublishedInv'
<1>. SUFFICES ASSUME Course, PublishedInv, Copy PROVE PublishedInv'
  OBVIOUS
<1>. DEFINE name == Name(Head(todo))
<1>1. stage = "copy" /\ UNCHANGED <<links, sums, args, todo>>
  BY DEF Copy
<1>2. CASE stage' = "idle" /\ ended' = "failed"
  BY <1>1, <1>2, StopKeeps
<1>3. CASE Store(name, Built(args.date, args.type, Head(todo))) /\ stage' = "forget"
  <2>1. /\ DOMAIN pool' = DOMAIN pool \cup {name}
        /\ pool'[name] = Built(args.date, args.type, Head(todo))
        /\ \A n \in DOMAIN pool : n # name => pool'[n] = pool[n]
    BY <1>3 DEF Store
  <2>2. Head(todo) \in ToSet(todo)
    <3>1. todo \in Seq(args.arches) /\ todo # <<>>
      BY <1>1 DEF Course, InLoop
    <3>2. 1 \in DOMAIN todo /\ Head(todo) = todo[1]
      BY <3>1
    <3>. QED
      BY <3>2 DEF ToSet
  <2>3. \A a \in Treated : Name(a) # name
    BY <2>2 DEF Treated, Name
  <2>4. CurrentImage'
    BY <1>1, <1>3, <2>1 DEF CurrentImage, Copied, Name
  <2>5. ASSUME NEW a \in Treated PROVE Placed(a)' /\ Summed("pool", a, FALSE)'
                                       /\ (PublishDist => Summed(Dir, a, FALSE)')
    <3>1. /\ Placed(a) /\ Summed("pool", a, FALSE)
          /\ PublishDist => Summed(Dir, a, FALSE)
      <4>1. PoolSummed = FALSE /\ DirSummed = FALSE
        BY <1>1 DEF PoolSummed, DirSummed
      <4>. QED
        BY <1>1, <4>1 DEF PublishedInv, TreatedImages
    <3>2. Placed(a)'
      BY <1>1, <2>1, <2>3, <3>1 DEF Placed, Copied, Name, PublishDist, Dir
    <3>. QED
      BY <1>1, <3>1, <3>2 DEF Summed, Name, Dir
  <2>6. TreatedImages'
    <3>1. PoolSummed' = FALSE /\ DirSummed' = FALSE
      BY <1>3 DEF PoolSummed, DirSummed
    <3>. QED
      BY <1>1, <2>5, <3>1 DEF TreatedImages, Treated, PublishDist
  <2>. QED
    BY <1>1, <1>3, <2>4, <2>6
    DEF PublishedInv, LinksAreFunction, SumsAreFunction, PublishedSumsTrue, Done
<1>. QED
  BY <1>2, <1>3 DEF Copy, Failed, Goto

LEMMA ForgetInPoolPublishes == Course /\ PublishedInv /\ ForgetInPool => PublishedInv'
<1>. SUFFICES ASSUME Course, PublishedInv, ForgetInPool PROVE PublishedInv'
  OBVIOUS
<1>. DEFINE name == Name(Head(todo))
<1>1. /\ stage = "forget" /\ UNCHANGED <<pool, links, args>>
      /\ sums' = [sums EXCEPT !["pool"] = Restrict(@, DOMAIN @ \ {name})]
  BY DEF ForgetInPool, Forget
<1>2. /\ SumsAreFunction' /\ DOMAIN sums'["pool"] = DOMAIN sums["pool"] \ {name}
      /\ \A d \in Releases : sums'[d] = sums[d]
  BY <1>1, ReleasesAssumption DEF PublishedInv, SumsAreFunction, Restrict
<1>3. PoolSummed = FALSE /\ DirSummed = FALSE
  BY <1>1 DEF PoolSummed, DirSummed
<1>4. \A a \in Treated :
         /\ Placed(a)' /\ Summed("pool", a, FALSE)'
         /\ PublishDist => Summed(Dir, a, FALSE)'
  <2>1. \A a \in Treated :
           /\ Placed(a) /\ Summed("pool", a, FALSE)
           /\ PublishDist => Summed(Dir, a, FALSE)
    BY <1>1, <1>3 DEF PublishedInv, TreatedImages
  <2>. QED
    BY <1>1, <1>2, <2>1, DirIsRelease DEF Placed, Copied, Summed, Name, Dir, PublishDist
<1>5. Copied(Head(todo)) /\ Name(Head(todo)) \notin DOMAIN sums'["pool"]
  BY <1>1, <1>2 DEF PublishedInv, CurrentImage
<1>6. CASE PublishDist
  <2>1. stage' = "link" /\ todo' = todo
    BY <1>6 DEF ForgetInPool, Goto
  <2>2. PoolSummed' = FALSE /\ DirSummed' = FALSE
    BY <2>1 DEF PoolSummed, DirSummed
  <2>3. CurrentImage'
    BY <1>1, <1>5, <2>1 DEF CurrentImage, Copied, Summed, Name
  <2>4. TreatedImages'
    BY <1>1, <1>4, <2>1, <2>2 DEF TreatedImages, Treated, PublishDist
  <2>. QED
    BY <1>1, <1>2, <2>1, <2>3, <2>4 DEF PublishedInv, LinksAreFunction, PublishedSumsTrue, Done
<1>7. CASE ~PublishDist
  <2>1. /\ Treated' \subseteq Treated \cup {Head(todo)}
        /\ stage' \in {"copy", "sumPool"}
    BY <1>1, <1>7, NextIsNext DEF ForgetInPool, InLoop
  <2>2. PoolSummed' = FALSE /\ DirSummed' = FALSE
    BY <2>1 DEF PoolSummed, DirSummed
  <2>3. CurrentImage'
    BY <2>1 DEF CurrentImage
  <2>4. \A a : a = Head(todo) => Placed(a)' /\ Summed("pool", a, FALSE)'
    BY <1>1, <1>5, <1>7 DEF Placed, Copied, Summed, Name, PublishDist
  <2>5. TreatedImages'
    BY <1>1, <1>4, <1>7, <2>1, <2>2, <2>4 DEF TreatedImages, PublishDist
  <2>. QED
    BY <1>1, <1>2, <2>1, <2>3, <2>5 DEF PublishedInv, LinksAreFunction, PublishedSumsTrue, Done
<1>. QED
  BY <1>6, <1>7

LEMMA LinkPublishes == Course /\ PublishedInv /\ Link => PublishedInv'
<1>. SUFFICES ASSUME Course, PublishedInv, Link PROVE PublishedInv'
  OBVIOUS
<1>. DEFINE name == Name(Head(todo))
<1>1. /\ stage = "link" /\ stage' = "forgetLink" /\ UNCHANGED <<pool, sums, args, todo>>
      /\ links' = [links EXCEPT ![Dir] = @ \cup {name}]
  BY DEF Link, Goto
<1>2. /\ LinksAreFunction' /\ name \in links'[Dir] /\ links[Dir] \subseteq links'[Dir]
  BY <1>1, DirIsRelease DEF PublishedInv, LinksAreFunction
<1>3. CurrentImage'
  BY <1>1, <1>2 DEF PublishedInv, CurrentImage, Copied, Summed, Name, Dir
<1>4. /\ PoolSummed = FALSE /\ DirSummed = FALSE
      /\ PoolSummed' = FALSE /\ DirSummed' = FALSE
  BY <1>1 DEF PoolSummed, DirSummed
<1>5. \A a \in Treated :
         /\ Placed(a) /\ Summed("pool", a, FALSE)
         /\ PublishDist => Summed(Dir, a, FALSE)
  BY <1>1, <1>4 DEF PublishedInv, TreatedImages
<1>6. TreatedImages'
  BY <1>1, <1>2, <1>4, <1>5
  DEF TreatedImages, Treated, Placed, Copied, Summed, Name, Dir, PublishDist
<1>. QED
  BY <1>1, <1>2, <1>3, <1>6 DEF PublishedInv, SumsAreFunction, PublishedSumsTrue, Done

LEMMA ForgetLinkPublishes == Course /\ PublishedInv /\ ForgetLink => PublishedInv'
<1>. SUFFICES ASSUME Course, PublishedInv, ForgetLink PROVE PublishedInv'
  OBVIOUS
<1>. DEFINE name == Name(Head(todo))
<1>1. /\ stage = "forgetLink" /\ UNCHANGED <<pool, links, args>>
      /\ sums' = [sums EXCEPT ![Dir] = Restrict(@, DOMAIN @ \ {name})]
  BY DEF ForgetLink, Forget
<1>2. /\ SumsAreFunction' /\ sums'["pool"] = sums["pool"]
      /\ DOMAIN sums'[Dir] = DOMAIN sums[Dir] \ {name}
  BY <1>1, DirIsRelease DEF PublishedInv, SumsAreFunction, Restrict
<1>3. /\ Treated' \subseteq Treated \cup {Head(todo)}
      /\ stage' \in {"copy", "purgeLinks", "sumPool"}
  BY <1>1, NextIsNext DEF ForgetLink, InLoop
<1>4. /\ PoolSummed = FALSE /\ DirSummed = FALSE
      /\ PoolSummed' = FALSE /\ DirSummed' = FALSE
  BY <1>1, <1>3 DEF PoolSummed, DirSummed
<1>5. \A a \in Treated :
         /\ Placed(a) /\ Summed("pool", a, FALSE)
         /\ PublishDist => Summed(Dir, a, FALSE)
  BY <1>1, <1>4 DEF PublishedInv, TreatedImages
<1>6. Placed(Head(todo)) /\ Summed("pool", Head(todo), FALSE)
  BY <1>1 DEF PublishedInv, CurrentImage, Placed
<1>7. \A a \in Treated \cup {Head(todo)} :
         Placed(a)' /\ Summed("pool", a, FALSE)' /\ (PublishDist => Summed(Dir, a, FALSE)')
  <2>1. \A a \in Treated \cup {Head(todo)} : Placed(a) /\ Name(a) \notin DOMAIN sums["pool"]
    BY <1>5, <1>6 DEF Summed
  <2>2. \A a \in Treated \cup {Head(todo)} : PublishDist => Name(a) \notin DOMAIN sums'[Dir]
    BY <1>2, <1>5 DEF Summed
  <2>. QED
    BY <1>1, <1>2, <2>1, <2>2 DEF Placed, Copied, Summed, Name, Dir, PublishDist
<1>8. TreatedImages'
  BY <1>1, <1>3, <1>4, <1>7 DEF TreatedImages, PublishDist, Dir
<1>9. CurrentImage'
  BY <1>3 DEF CurrentImage
<1>. QED
  BY <1>1, <1>2, <1>3, <1>8, <1>9 DEF PublishedInv, LinksAreFunction, PublishedSumsTrue, Done

LEMMA PurgePublishes == Course /\ PublishedInv /\ (PurgeLinks \/ PurgePool) => PublishedInv'
<1>. SUFFICES ASSUME Course, PublishedInv, PurgeLinks \/ PurgePool PROVE PublishedInv'
  OBVIOUS
<1>1. /\ stage \in {"purgeLinks", "purgePool"} /\ stage' \in {"purgePool", "sumPool"}
      /\ UNCHANGED <<sums, args, todo>>
  BY DEF PurgeLinks, PurgePool, Goto
<1>2. /\ PoolSummed = FALSE /\ DirSummed = FALSE
      /\ PoolSummed' = FALSE /\ DirSummed' = FALSE
  BY <1>1 DEF PoolSummed, DirSummed
<1>3. \A a : Name(a)[1] = args.status
  BY DEF Name
<1>4. LinksAreFunction' /\ \A a : Name(a) \in links[Dir] => Name(a) \in links'[Dir]
  BY <1>3, DirIsRelease DEF PublishedInv, LinksAreFunction, PurgeLinks, PurgePool, KeptLinks, Kept
<1>5. \A a : Name(a) \in DOMAIN pool => Name(a) \in DOMAIN pool' /\ pool'[Name(a)] = pool[Name(a)]
  BY <1>3 DEF PurgeLinks, PurgePool, Restrict, Kept
<1>6. \A a \in Treated :
         /\ Placed(a) /\ Summed("pool", a, FALSE)
         /\ PublishDist => Summed(Dir, a, FALSE)
  BY <1>1, <1>2 DEF PublishedInv, TreatedImages
<1>7. \A a \in Treated : Placed(a)' /\ Summed("pool", a, FALSE)'
                           /\ (PublishDist => Summed(Dir, a, FALSE)')
  BY <1>1, <1>4, <1>5, <1>6 DEF Placed, Copied, Summed, Name, Dir, PublishDist
<1>8. TreatedImages'
  BY <1>1, <1>2, <1>7 DEF TreatedImages, Treated, PublishDist
<1>. QED
  BY <1>1, <1>4, <1>8 DEF PublishedInv, SumsAreFunction, CurrentImage, PublishedSumsTrue, Done

LEMMA SumPublishes == Course /\ PublishedInv /\ (SumPool \/ SumLinks) => PublishedInv'
<1>. SUFFICES ASSUME Course, PublishedInv, SumPool \/ SumLinks PROVE PublishedInv'
  OBVIOUS
<1>1. UNCHANGED <<pool, links, args, todo>> /\ Treated \subseteq ArchesOf(args.type)
  BY DEF SumPool, SumLinks, Course, Treated
<1>2. \A a \in Treated : Placed(a)
  BY DEF PublishedInv, TreatedImages, SumPool, SumLinks
<1>3. \A a \in Treated : Placed(a)'
  BY <1>1, <1>2 DEF Placed, Copied, Name, Dir, PublishDist
<1>4. CASE SumPool
  <2>1. /\ stage = "sumPool" /\ stage' = IF PublishDist THEN "sumLinks" ELSE "manifest"
        /\ sums' = [sums EXCEPT !["pool"] = Merged(@, Daily, DOMAIN pool)]
    BY <1>4 DEF SumPool, ChecksumDirectory, Names, Goto
  <2>2. /\ SumsAreFunction' /\ sums'["pool"] = Merged(sums["pool"], Daily, DOMAIN pool)
        /\ \A d \in Releases : sums'[d] = sums[d]
    BY <2>1, ReleasesAssumption DEF PublishedInv, SumsAreFunction
  <2>3. /\ PoolSummed = FALSE /\ DirSummed = FALSE /\ PoolSummed' = TRUE
        /\ PublishDist => DirSummed' = FALSE
    BY <2>1 DEF PoolSummed, DirSummed
  <2>4. ASSUME NEW a \in Treated
        PROVE  /\ Summed("pool", a, TRUE)' /\ (PublishDist => Summed(Dir, a, FALSE)')
    <3>1. /\ Name(a) \notin DOMAIN sums["pool"] /\ (PublishDist => Summed(Dir, a, FALSE))
      BY <2>1, <2>3 DEF PublishedInv, TreatedImages, Summed
    <3>2. DOMAIN Merged(sums["pool"], Daily, DOMAIN pool) = DOMAIN pool
      BY DEF Merged
    <3>3. Name(a) \in DOMAIN pool /\ a \in ArchesOf(args.type)
      BY <1>1, <1>2 DEF Placed, Copied
    <3>4. sums'["pool"][Name(a)] = pool[Name(a)]
      BY <1>2, <2>2, <3>1, <3>3, MergedIsTrue DEF Placed
    <3>. QED
      BY <1>1, <2>2, <3>1, <3>2, <3>3, <3>4, DirIsRelease DEF Summed, Name, Dir
  <2>5. TreatedImages'
    BY <1>1, <1>3, <2>3, <2>4 DEF TreatedImages, Treated, PublishDist, Dir
  <2>. QED
    BY <1>1, <2>1, <2>2, <2>5 DEF PublishedInv, LinksAreFunction, CurrentImage, PublishedSumsTrue, Done
<1>5. CASE SumLinks
  <2>1. /\ stage = "sumLinks" /\ stage' = "manifest" /\ PublishDist
        /\ sums' = [sums EXCEPT ![Dir] = Merged(@, Daily, links[Dir])]
    BY <1>5, DirIsRelease DEF SumLinks, ChecksumDirectory, Names, Goto, Course
  <2>2. /\ SumsAreFunction' /\ sums'["pool"] = sums["pool"]
        /\ sums'[Dir] = Merged(sums[Dir], Daily, links[Dir])
    BY <2>1, DirIsRelease DEF PublishedInv, SumsAreFunction
  <2>3. PoolSummed = TRUE /\ DirSummed = FALSE /\ PoolSummed' = TRUE /\ DirSummed' = TRUE
    BY <2>1 DEF PoolSummed, DirSummed
  <2>4. ASSUME NEW a \in Treated
        PROVE  /\ Summed("pool", a, TRUE)' /\ Summed(Dir, a, TRUE)'
    <3>1. /\ Name(a) \notin DOMAIN sums[Dir] /\ Summed("pool", a, TRUE)
      BY <2>1, <2>3 DEF PublishedInv, TreatedImages, Summed
    <3>2. DOMAIN Merged(sums[Dir], Daily, links[Dir]) = links[Dir]
      BY DEF Merged
    <3>3. /\ Name(a) \in links[Dir] /\ Copied(a) /\ a \in ArchesOf(args.type)
      BY <1>1, <1>2, <2>1 DEF Placed
    <3>4. sums'[Dir][Name(a)] = pool[Name(a)]
      BY <2>2, <3>1, <3>3, MergedIsTrue
    <3>. QED
      BY <1>1, <2>2, <3>1, <3>2, <3>3, <3>4 DEF Summed, Name, Dir
  <2>5. TreatedImages'
    BY <1>1, <1>3, <2>3, <2>4 DEF TreatedImages, Treated, PublishDist, Dir
  <2>. QED
    BY <1>1, <2>1, <2>2, <2>5 DEF PublishedInv, LinksAreFunction, CurrentImage, PublishedSumsTrue, Done
<1>. QED
  BY <1>4, <1>5

LEMMA ManifestPublishes == Course /\ PublishedInv /\ WriteManifest => PublishedInv'
<1>. SUFFICES ASSUME Course, PublishedInv, WriteManifest PROVE PublishedInv'
  OBVIOUS
<1>1. /\ stage = "manifest" /\ stage' = "idle" /\ UNCHANGED <<pool, links, sums, args, todo>>
  BY DEF WriteManifest, Goto
<1>2. Treated = args.arches
  <2>1. todo = <<>>
    BY <1>1 DEF Course
  <2>2. ToSet(todo) = {}
    BY <2>1 DEF ToSet
  <2>. QED
    BY <2>2 DEF Treated
<1>3. PoolSummed = TRUE /\ DirSummed = TRUE
  BY <1>1 DEF PoolSummed, DirSummed
<1>4. \A a \in args.arches :
         /\ Copied(a) /\ Summed("pool", a, TRUE)
         /\ PublishDist => Summed(Dir, a, TRUE)
  BY <1>1, <1>2, <1>3 DEF PublishedInv, TreatedImages, Placed
<1>5. PublishedSumsTrue
  BY <1>4 DEF PublishedSumsTrue, Copied, Summed, Content
<1>6. PublishedSumsTrue'
  BY <1>1, <1>4 DEF PublishedSumsTrue, Copied, Summed, Content, Name, Dir, PublishDist
<1>. QED
  BY <1>1, <1>6 DEF PublishedInv, LinksAreFunction, SumsAreFunction, CurrentImage, TreatedImages

LEMMA PublishedStep == Course /\ PublishedInv /\ [Next]_vars => PublishedInv'
<1>. SUFFICES ASSUME Course, PublishedInv, [Next]_vars PROVE PublishedInv'
  OBVIOUS
<1>1. ASSUME NEW r \in Requests, NEW date \in Dates, NEW status \in Statuses,
             NEW official \in {"yes", "poolonly"}, Start(r[1], r[2], date, official, status)
      PROVE  PublishedInv'
  <2>1. /\ args'.arches = ToSet(r[2]) /\ todo' = r[2] /\ stage' \in {"unlink", "copy"}
        /\ ended' = "" /\ UNCHANGED <<pool, links, sums>>
    BY <1>1 DEF Start, simpleVars, Goto
  <2>2. Treated' = {}
    BY <2>1 DEF Treated
  <2>. QED
    BY <2>1, <2>2 DEF PublishedInv, LinksAreFunction, SumsAreFunction, CurrentImage,
       TreatedImages, PublishedSumsTrue, Done
<1>2. CASE UnlinkReleased
  <2>1. /\ stage = "unlink" /\ stage' = "copy" /\ UNCHANGED <<pool, sums, args, todo>>
        /\ LinksAreFunction'
    BY <1>2 DEF UnlinkReleased, Goto, PublishedInv, LinksAreFunction
  <2>2. Treated' = {}
    BY <2>1 DEF Treated, Course
  <2>. QED
    BY <2>1, <2>2 DEF PublishedInv, SumsAreFunction, CurrentImage, TreatedImages,
       PublishedSumsTrue, Done
<1>3. CASE Fail
  BY <1>3, StopKeeps DEF Fail, Failed, Goto, simpleVars
<1>4. CASE UNCHANGED <<pool, links, sums, runVars, endVars>>
  <2>1. UNCHANGED <<pool, links, sums, stage, args, todo, ended>>
    BY <1>4 DEF runVars, endVars
  <2>2. CurrentImage'
    BY <2>1 DEF PublishedInv, CurrentImage, Copied, Summed, Name, Dir
  <2>3. TreatedImages'
    BY <2>1 DEF PublishedInv, TreatedImages, Treated, Placed, Copied, Summed, Name, Dir,
       PublishDist, PoolSummed, DirSummed
  <2>4. PublishedSumsTrue'
    BY <2>1 DEF PublishedInv, PublishedSumsTrue, Done, PublishDist, Dir, Name, Content
  <2>. QED
    BY <2>1, <2>2, <2>3, <2>4 DEF PublishedInv, LinksAreFunction, SumsAreFunction
<1>5. CASE TriggerMirrors /\ UNCHANGED <<runVars, endVars, count, lost, replaced>>
  BY <1>4, <1>5 DEF TriggerMirrors, CheckManifest, FetchTree
<1>6. CASE UNCHANGED vars
  BY <1>4, <1>6 DEF vars, simpleVars
<1>. QED
  BY <1>1, <1>2, <1>3, <1>5, <1>6, CopyPublishes, ForgetInPoolPublishes, LinkPublishes,
     ForgetLinkPublishes, PurgePublishes, SumPublishes, ManifestPublishes DEF Next, Publish

-----------------------------------------------------------------------------
(* All checksums in the tree.                                                  *)

(* Checksums are of names in the directory where they belong.                  *)
AtHome == \A d \in Releases : \A n \in DOMAIN sums[d] : DirOf(n[2]) = d

NoneFailed == failures = 0 /\ ~replaced

(* The image that has been copied, until its checksums are removed.            *)
Renewed(n) == n = Name(Head(todo))
InPoolRenewed == stage = "forget"
InDirRenewed == PublishDist /\ stage \in {"forget", "link", "forgetLink"}

(* While they are not summed again, images and links of the publication under  *)
(* way may have no checksums.                                                  *)
Own(n) == \E a \in args.arches : n = Name(a)
PoolOpen == InLoop \/ stage \in {"purgeLinks", "purgePool", "sumPool"}
DirOpen == PublishDist /\ (PoolOpen \/ stage = "sumLinks")
DirInUse == PublishDist /\ (PoolOpen \/ stage \in {"unlink", "sumLinks"})

PoolSumsTrue ==
    \A n \in DOMAIN pool :
        IF n \in DOMAIN sums["pool"]
        THEN sums["pool"][n] = pool[n] \/ (InPoolRenewed /\ Renewed(n))
        ELSE PoolOpen /\ Own(n)

DirSumsTrue ==
    \A d \in Releases :
        /\ \A n \in DOMAIN sums[d] \cap DOMAIN pool :
               sums[d][n] = pool[n] \/ (d = Dir /\ InDirRenewed /\ Renewed(n))
        /\ \A n \in links[d] \ DOMAIN sums[d] : d = Dir /\ DirOpen /\ Own(n)
        /\ DOMAIN sums[d] \subseteq links[d] \/ (d = Dir /\ DirInUse)

AllInv ==
    /\ failures \in Nat /\ AtHome
    /\ NoneFailed => PoolSumsTrue /\ DirSumsTrue

LEMMA AllInit == Init => AllInv
<1>. SUFFICES ASSUME Init PROVE AllInv
  OBVIOUS
<1>1. pool = <<>> /\ links = [d \in Releases |-> {}] /\ failures = 0
      /\ sums = [d \in Releases \cup {"pool"} |-> <<>>]
  BY DEF Init, SimpleInit
<1>2. DOMAIN <<>> = {}
  OBVIOUS
<1>3. DOMAIN pool = {} /\ \A d \in Releases : links[d] = {} /\ DOMAIN sums[d] = {}
  BY <1>1, <1>2
<1>4. AtHome
  BY <1>3 DEF AtHome
<1>5. PoolSumsTrue
  BY <1>3 DEF PoolSumsTrue
<1>6. DirSumsTrue
  BY <1>3 DEF DirSumsTrue
<1>. QED
  BY <1>1, <1>4, <1>5, <1>6 DEF AllInv

(* What all that follows is about.                                             *)
Settled == Course /\ LinkInv /\ PublishedInv /\ AllInv

LEMMA CopySums == Settled /\ Copy => AllInv'
<1>. SUFFICES ASSUME Settled, Copy PROVE AllInv'
  OBVIOUS
<1>. DEFINE name == Name(Head(todo))
<1>1. stage = "copy" /\ UNCHANGED <<links, sums, args, todo>> /\ failures \in Nat
  BY DEF Copy, Settled, AllInv
<1>2. AtHome'
  BY <1>1 DEF Settled, AllInv, AtHome
<1>3. CASE failures' = failures + 1
  BY <1>1, <1>2, <1>3 DEF AllInv, NoneFailed
<1>4. CASE /\ Store(name, Built(args.date, args.type, Head(todo)))
           /\ stage' = "forget" /\ failures' = failures
           /\ replaced' = (replaced \/ (name \in Linked /\ ~PublishDist))
  <2>. SUFFICES ASSUME NoneFailed' PROVE PoolSumsTrue' /\ DirSumsTrue'
    BY <1>1, <1>2, <1>4 DEF AllInv
  <2>1. /\ NoneFailed /\ (name \in Linked => PublishDist)
    BY <1>4 DEF NoneFailed
  <2>2. PoolSumsTrue /\ DirSumsTrue
    BY <2>1 DEF Settled, AllInv
  <2>3. /\ DOMAIN pool' = DOMAIN pool \cup {name}
        /\ \A n \in DOMAIN pool : n # name => pool'[n] = pool[n]
    BY <1>4 DEF Store
  <2>4. Head(todo) \in args.arches
    BY <1>1 DEF Settled, Course, InLoop
  <2>5. Own(name)
    BY <2>4 DEF Own
  <2>6. PoolSumsTrue'
    BY <1>1, <1>4, <2>2, <2>3, <2>5
    DEF PoolSumsTrue, InPoolRenewed, Renewed, PoolOpen, InLoop, Own, Name
  <2>7. ASSUME NEW d \in Releases, name \in DOMAIN sums[d]
        PROVE  d = Dir /\ PublishDist
    <3>1. d = Dir
      BY <2>7 DEF Settled, AllInv, AtHome, Name, Dir
    <3>2. name \in links[d] \/ PublishDist
      BY <1>1, <2>2, <2>7 DEF DirSumsTrue, DirInUse
    <3>. QED
      BY <2>1, <3>1, <3>2 DEF Linked
  <2>8. DirSumsTrue'
    <3>. SUFFICES ASSUME NEW d \in Releases
         PROVE  /\ \A n \in DOMAIN sums[d] \cap DOMAIN pool' :
                       sums[d][n] = pool'[n] \/ (d = Dir /\ PublishDist /\ n = name)
                /\ \A n \in links[d] \ DOMAIN sums[d] : d = Dir /\ PublishDist /\ Own(n)
                /\ DOMAIN sums[d] \subseteq links[d] \/ (d = Dir /\ PublishDist)
      BY <1>1, <1>4
      DEF DirSumsTrue, InDirRenewed, Renewed, DirOpen, DirInUse, PoolOpen, InLoop, Own, Name, Dir,
          PublishDist
    <3>1. /\ \A n \in DOMAIN sums[d] \cap DOMAIN pool : sums[d][n] = pool[n]
          /\ \A n \in links[d] \ DOMAIN sums[d] : d = Dir /\ PublishDist /\ Own(n)
          /\ DOMAIN sums[d] \subseteq links[d] \/ (d = Dir /\ PublishDist)
      BY <1>1, <2>2 DEF DirSumsTrue, InDirRenewed, DirOpen, DirInUse
    <3>. QED
      BY <2>3, <2>7, <3>1
  <2>. QED
    BY <2>6, <2>8
<1>. QED
  BY <1>3, <1>4 DEF Copy, Failed, Goto, endVars

(* A step that fails, or replaces what links lead to, has nothing to keep.     *)
LEMMA FailedSums ==
  ASSUME AllInv, sums' = sums, failures' = failures + 1
  PROVE  AllInv'
  BY DEF AllInv, AtHome, NoneFailed

(* Between publications, all checksums are there and true.                     *)
WholeSums ==
    /\ \A n \in DOMAIN pool : n \in DOMAIN sums["pool"] /\ sums["pool"][n] = pool[n]
    /\ \A d \in Releases :
           /\ DOMAIN sums[d] = links[d]
           /\ \A n \in DOMAIN sums[d] \cap DOMAIN pool : sums[d][n] = pool[n]

LEMMA WholeWhenIdle ==
  ASSUME AllInv, NoneFailed, stage = "idle"
  PROVE  WholeSums
<1>1. ~PoolOpen /\ ~DirOpen /\ ~DirInUse /\ ~InPoolRenewed /\ ~InDirRenewed
  BY DEF PoolOpen, InLoop, DirOpen, DirInUse, InPoolRenewed, InDirRenewed
<1>2. PoolSumsTrue /\ DirSumsTrue
  BY DEF AllInv
<1>. QED
  BY <1>1, <1>2 DEF PoolSumsTrue, DirSumsTrue, WholeSums

LEMMA StartSums ==
  ASSUME AllInv, stage = "idle", UNCHANGED <<pool, links, sums, failures, replaced>>
  PROVE  AllInv'
<1>1. AtHome' /\ failures' \in Nat /\ (NoneFailed' => NoneFailed)
  BY DEF AllInv, AtHome, NoneFailed
<1>2. NoneFailed' => PoolSumsTrue' /\ DirSumsTrue'
  <2>. SUFFICES ASSUME NoneFailed' PROVE PoolSumsTrue' /\ DirSumsTrue'
    OBVIOUS
  <2>1. WholeSums
    BY <1>1, WholeWhenIdle
  <2>2. PoolSumsTrue'
    BY <2>1 DEF WholeSums, PoolSumsTrue
  <2>3. DirSumsTrue'
    BY <2>1 DEF WholeSums, DirSumsTrue
  <2>. QED
    BY <2>2, <2>3
<1>. QED
  BY <1>1, <1>2 DEF AllInv

LEMMA UnlinkSums == Settled /\ UnlinkReleased => AllInv'
<1>. SUFFICES ASSUME Settled, UnlinkReleased PROVE AllInv'
  OBVIOUS
<1>1. /\ stage = "unlink" /\ stage' = "copy" /\ PublishDist
      /\ UNCHANGED <<pool, sums, args, todo, failures, replaced>>
  BY DEF UnlinkReleased, Goto, endVars, Settled, Course
<1>2. /\ \A d \in Releases : links'[d] \subseteq links[d]
      /\ \A d \in Releases : d # Dir => links'[d] = links[d]
  BY DEF UnlinkReleased, Settled, PublishedInv, LinksAreFunction
<1>3. AtHome' /\ failures' \in Nat /\ (NoneFailed' => NoneFailed)
  BY <1>1 DEF Settled, AllInv, AtHome, NoneFailed
<1>4. ASSUME NoneFailed PROVE PoolSumsTrue' /\ DirSumsTrue'
  <2>1. PoolSumsTrue /\ DirSumsTrue
    BY <1>4 DEF Settled, AllInv
  <2>2. ~PoolOpen /\ ~InPoolRenewed /\ ~DirOpen /\ ~InDirRenewed
    BY <1>1 DEF PoolOpen, InLoop, InPoolRenewed, DirOpen, InDirRenewed
  <2>3. PoolSumsTrue'
    BY <1>1, <2>1, <2>2 DEF PoolSumsTrue
  <2>4. Dir' = Dir /\ DirInUse'
    BY <1>1 DEF Dir, DirInUse, PublishDist, PoolOpen, InLoop
  <2>5. DirSumsTrue'
    BY <1>1, <1>2, <2>1, <2>2, <2>4 DEF DirSumsTrue
  <2>. QED
    BY <2>3, <2>5
<1>. QED
  BY <1>3, <1>4 DEF AllInv

LEMMA ForgetInPoolSums == Settled /\ ForgetInPool => AllInv'
<1>. SUFFICES ASSUME Settled, ForgetInPool PROVE AllInv'
  OBVIOUS
<1>. DEFINE name == Name(Head(todo))
<1>1. /\ stage = "forget" /\ UNCHANGED <<pool, links, args, failures, replaced>>
      /\ sums' = [sums EXCEPT !["pool"] = Restrict(@, DOMAIN @ \ {name})]
  BY DEF ForgetInPool, Forget, endVars
<1>2. /\ DOMAIN sums'["pool"] = DOMAIN sums["pool"] \ {name}
      /\ \A n \in DOMAIN sums'["pool"] : sums'["pool"][n] = sums["pool"][n]
      /\ \A d \in Releases : sums'[d] = sums[d]
  BY <1>1, ReleasesAssumption DEF Settled, PublishedInv, SumsAreFunction, Restrict
<1>3. /\ stage' \in {"link", "copy", "sumPool"}
      /\ PublishDist => stage' = "link" /\ todo' = todo
  BY <1>1, NextIsNext DEF ForgetInPool, Goto, Settled, InLoop
<1>4. AtHome' /\ failures' \in Nat /\ (NoneFailed' => NoneFailed)
  BY <1>1, <1>2 DEF Settled, AllInv, AtHome, NoneFailed
<1>5. ASSUME NoneFailed PROVE PoolSumsTrue' /\ DirSumsTrue'
  <2>1. PoolSumsTrue /\ DirSumsTrue
    BY <1>5 DEF Settled, AllInv
  <2>2. Own(name)
    <3>1. Head(todo) \in args.arches
      BY <1>1 DEF Settled, Course, InLoop
    <3>. QED
      BY <3>1 DEF Own
  <2>3. PoolOpen' /\ \A n : Own(n)' <=> Own(n)
    BY <1>1, <1>3 DEF PoolOpen, InLoop, Own, Name
  <2>4. PoolSumsTrue'
    BY <1>1, <1>2, <2>1, <2>2, <2>3 DEF PoolSumsTrue, Renewed
  <2>5. CASE PublishDist
    <3>1. Dir' = Dir /\ InDirRenewed' /\ DirOpen' /\ DirInUse' /\ \A n : Renewed(n)' <=> Renewed(n)
      BY <1>1, <1>3, <2>5
      DEF Dir, InDirRenewed, DirOpen, DirInUse, PoolOpen, InLoop, PublishDist, Renewed, Name
    <3>2. DirSumsTrue'
      BY <1>1, <1>2, <2>1, <2>3, <3>1 DEF DirSumsTrue
    <3>. QED
      BY <2>4, <3>2
  <2>6. CASE ~PublishDist
    <3>1. ~InDirRenewed /\ ~DirOpen /\ ~DirInUse
      BY <2>6 DEF InDirRenewed, DirOpen, DirInUse
    <3>2. DirSumsTrue'
      <4>. SUFFICES ASSUME NEW d \in Releases
           PROVE  /\ \A n \in DOMAIN sums'[d] \cap DOMAIN pool : sums'[d][n] = pool[n]
                  /\ links[d] \ DOMAIN sums'[d] = {} /\ DOMAIN sums'[d] \subseteq links[d]
        BY <1>1 DEF DirSumsTrue
      <4>1. /\ \A n \in DOMAIN sums[d] \cap DOMAIN pool : sums[d][n] = pool[n]
            /\ links[d] \ DOMAIN sums[d] = {} /\ DOMAIN sums[d] \subseteq links[d]
        BY <2>1, <3>1 DEF DirSumsTrue
      <4>. QED
        BY <1>2, <4>1
    <3>. QED
      BY <2>4, <3>2
  <2>. QED
    BY <2>5, <2>6
<1>. QED
  BY <1>4, <1>5 DEF AllInv

LEMMA LinkSums == Settled /\ Link => AllInv'
<1>. SUFFICES ASSUME Settled, Link PROVE AllInv'
  OBVIOUS
<1>. DEFINE name == Name(Head(todo))
<1>1. /\ stage = "link" /\ stage' = "forgetLink" /\ PublishDist
      /\ UNCHANGED <<pool, sums, args, todo, failures, replaced>>
  BY DEF Link, Goto, endVars, Settled, Course
<1>2. /\ links'[Dir] = links[Dir] \cup {name}
      /\ \A d \in Releases : d # Dir => links'[d] = links[d]
  BY DirIsRelease DEF Link, Settled, PublishedInv, LinksAreFunction
<1>3. AtHome' /\ failures' \in Nat /\ (NoneFailed' => NoneFailed)
  BY <1>1 DEF Settled, AllInv, AtHome, NoneFailed
<1>4. ASSUME NoneFailed PROVE PoolSumsTrue' /\ DirSumsTrue'
  <2>1. PoolSumsTrue /\ DirSumsTrue
    BY <1>4 DEF Settled, AllInv
  <2>2. Own(name)
    <3>1. Head(todo) \in args.arches
      BY <1>1 DEF Settled, Course, InLoop
    <3>. QED
      BY <3>1 DEF Own
  <2>3. PoolOpen' /\ ~InPoolRenewed /\ \A n : Own(n)' <=> Own(n)
    BY <1>1 DEF PoolOpen, InPoolRenewed, InLoop, Own, Name
  <2>4. PoolSumsTrue'
    BY <1>1, <2>1, <2>3 DEF PoolSumsTrue
  <2>5. Dir' = Dir /\ InDirRenewed' /\ DirOpen' /\ DirInUse' /\ \A n : Renewed(n)' <=> Renewed(n)
    BY <1>1 DEF Dir, InDirRenewed, DirOpen, DirInUse, PoolOpen, InLoop, PublishDist, Renewed, Name
  <2>6. DirSumsTrue'
    BY <1>1, <1>2, <2>1, <2>2, <2>3, <2>5 DEF DirSumsTrue
  <2>. QED
    BY <2>4, <2>6
<1>. QED
  BY <1>3, <1>4 DEF AllInv

LEMMA ForgetLinkSums == Settled /\ ForgetLink => AllInv'
<1>. SUFFICES ASSUME Settled, ForgetLink PROVE AllInv'
  OBVIOUS
<1>. DEFINE name == Name(Head(todo))
<1>1. /\ stage = "forgetLink" /\ PublishDist /\ UNCHANGED <<pool, links, args, failures, replaced>>
      /\ sums' = [sums EXCEPT ![Dir] = Restrict(@, DOMAIN @ \ {name})]
  BY DEF ForgetLink, Forget, endVars, Settled, Course
<1>2. /\ DOMAIN sums'[Dir] = DOMAIN sums[Dir] \ {name}
      /\ \A n \in DOMAIN sums'[Dir] : sums'[Dir][n] = sums[Dir][n]
      /\ \A d \in Releases \cup {"pool"} : d # Dir => sums'[d] = sums[d]
  BY <1>1, DirIsRelease DEF Settled, PublishedInv, SumsAreFunction, Restrict
<1>3. stage' \in {"copy", "purgeLinks", "sumPool"}
  BY <1>1, NextIsNext DEF ForgetLink, Settled, InLoop
<1>4. AtHome' /\ failures' \in Nat /\ (NoneFailed' => NoneFailed)
  BY <1>1, <1>2 DEF Settled, AllInv, AtHome, NoneFailed
<1>5. ASSUME NoneFailed PROVE PoolSumsTrue' /\ DirSumsTrue'
  <2>1. PoolSumsTrue /\ DirSumsTrue
    BY <1>5 DEF Settled, AllInv
  <2>2. Own(name)
    <3>1. Head(todo) \in args.arches
      BY <1>1 DEF Settled, Course, InLoop
    <3>. QED
      BY <3>1 DEF Own
  <2>3. PoolOpen' /\ ~InPoolRenewed /\ \A n : Own(n)' <=> Own(n)
    BY <1>1, <1>3 DEF PoolOpen, InPoolRenewed, InLoop, Own, Name
  <2>4. sums'["pool"] = sums["pool"]
    BY <1>2, DirIsRelease
  <2>5. PoolSumsTrue'
    BY <1>1, <2>1, <2>3, <2>4 DEF PoolSumsTrue
  <2>6. Dir' = Dir /\ DirOpen' /\ DirInUse'
    BY <1>1, <2>3 DEF Dir, DirOpen, DirInUse, PublishDist
  <2>7. DirSumsTrue'
    <3>1. ASSUME NEW d \in Releases, d # Dir
          PROVE  /\ \A n \in DOMAIN sums[d] \cap DOMAIN pool : sums[d][n] = pool[n]
                 /\ links[d] \ DOMAIN sums[d] = {} /\ DOMAIN sums[d] \subseteq links[d]
      BY <2>1, <3>1 DEF DirSumsTrue
    <3>2. /\ \A n \in DOMAIN sums[Dir] \cap DOMAIN pool : sums[Dir][n] = pool[n] \/ n = name
          /\ \A n \in links[Dir] \ DOMAIN sums[Dir] : Own(n)
      BY <2>1, DirIsRelease DEF DirSumsTrue, Renewed
    <3>3. ASSUME NEW d \in Releases
          PROVE  /\ \A n \in DOMAIN sums'[d] \cap DOMAIN pool : sums'[d][n] = pool[n]
                 /\ \A n \in links[d] \ DOMAIN sums'[d] : d = Dir /\ Own(n)
                 /\ DOMAIN sums'[d] \subseteq links[d] \/ d = Dir
      <4>1. CASE d # Dir
        <5>1. sums'[d] = sums[d]
          BY <1>2, <4>1
        <5>. QED
          BY <3>1, <4>1, <5>1
      <4>2. CASE d = Dir
        BY <1>2, <2>2, <3>2, <4>2
      <4>. QED
        BY <4>1, <4>2
    <3>. QED
      BY <1>1, <2>3, <2>6, <3>3 DEF DirSumsTrue
  <2>. QED
    BY <2>5, <2>7
<1>. QED
  BY <1>4, <1>5 DEF AllInv

LEMMA PurgeLinksSums == Settled /\ PurgeLinks => AllInv'
<1>. SUFFICES ASSUME Settled, PurgeLinks PROVE AllInv'
  OBVIOUS
<1>1. /\ stage = "purgeLinks" /\ stage' = "purgePool" /\ PublishDist
      /\ UNCHANGED <<pool, sums, args, todo, failures, replaced>>
  BY DEF PurgeLinks, Goto, endVars, Settled, Course
<1>2. /\ \A d \in Releases : links'[d] \subseteq links[d]
      /\ \A d \in Releases : d # Dir => links'[d] = links[d]
  BY DEF PurgeLinks, KeptLinks, Kept, Settled, PublishedInv, LinksAreFunction
<1>3. AtHome' /\ failures' \in Nat /\ (NoneFailed' => NoneFailed)
  BY <1>1 DEF Settled, AllInv, AtHome, NoneFailed
<1>4. ASSUME NoneFailed PROVE PoolSumsTrue' /\ DirSumsTrue'
  <2>1. PoolSumsTrue /\ DirSumsTrue
    BY <1>4 DEF Settled, AllInv
  <2>2. /\ ~InPoolRenewed /\ ~InDirRenewed /\ PoolOpen' /\ Dir' = Dir /\ DirOpen' /\ DirInUse'
        /\ \A n : Own(n)' <=> Own(n)
    BY <1>1 DEF InPoolRenewed, InDirRenewed, PoolOpen, Dir, DirOpen, DirInUse, PublishDist, Own, Name
  <2>3. PoolSumsTrue'
    BY <1>1, <2>1, <2>2 DEF PoolSumsTrue
  <2>4. DirSumsTrue'
    BY <1>1, <1>2, <2>1, <2>2 DEF DirSumsTrue
  <2>. QED
    BY <2>3, <2>4
<1>. QED
  BY <1>3, <1>4 DEF AllInv

LEMMA PurgePoolSums == Settled /\ PurgePool => AllInv'
<1>. SUFFICES ASSUME Settled, PurgePool PROVE AllInv'
  OBVIOUS
<1>1. /\ stage = "purgePool" /\ stage' = "sumPool" /\ PublishDist
      /\ UNCHANGED <<links, sums, args, todo, failures, replaced>>
  BY DEF PurgePool, Goto, endVars, Settled, Course
<1>2. /\ DOMAIN pool' \subseteq DOMAIN pool
      /\ \A n \in DOMAIN pool' : pool'[n] = pool[n]
  BY DEF PurgePool, Restrict, Kept
<1>3. AtHome' /\ failures' \in Nat /\ (NoneFailed' => NoneFailed)
  BY <1>1 DEF Settled, AllInv, AtHome, NoneFailed
<1>4. ASSUME NoneFailed PROVE PoolSumsTrue' /\ DirSumsTrue'
  <2>1. PoolSumsTrue /\ DirSumsTrue
    BY <1>4 DEF Settled, AllInv
  <2>2. /\ ~InPoolRenewed /\ ~InDirRenewed /\ PoolOpen' /\ Dir' = Dir /\ DirOpen' /\ DirInUse'
        /\ \A n : Own(n)' <=> Own(n)
    BY <1>1 DEF InPoolRenewed, InDirRenewed, PoolOpen, Dir, DirOpen, DirInUse, PublishDist, Own, Name
  <2>3. PoolSumsTrue'
    BY <1>1, <1>2, <2>1, <2>2 DEF PoolSumsTrue
  <2>4. DirSumsTrue'
    BY <1>1, <1>2, <2>1, <2>2 DEF DirSumsTrue
  <2>. QED
    BY <2>3, <2>4
<1>. QED
  BY <1>3, <1>4 DEF AllInv

(* What the publication under way has published is not read, or it is true:    *)
(* the checksum file gets a true checksum of it.                               *)
LEMMA OwnIsSummed ==
  ASSUME Settled, stage \in {"sumPool", "sumLinks"}, NEW old, NEW names,
         NEW n \in names, Own(n), n \notin DOMAIN old
  PROVE  Merged(old, Daily, names)[n] = pool[n]
<1>1. PICK a \in args.arches : n = Name(a)
  BY DEF Own
<1>2. todo = <<>>
  BY DEF Settled, Course
<1>3. ToSet(todo) = {}
  BY <1>2 DEF ToSet
<1>4. a \in Treated /\ a \in ArchesOf(args.type)
  BY <1>3 DEF Treated, Settled, Course
<1>5. Copied(a)
  BY <1>4 DEF Settled, PublishedInv, TreatedImages, Placed
<1>. QED
  BY <1>1, <1>4, <1>5, MergedIsTrue

LEMMA SumPoolSums == Settled /\ SumPool => AllInv'
<1>. SUFFICES ASSUME Settled, SumPool PROVE AllInv'
  OBVIOUS
<1>. DEFINE merged == Merged(sums["pool"], Daily, DOMAIN pool)
<1>1. /\ stage = "sumPool" /\ UNCHANGED <<pool, links, args, todo, failures, replaced>>
      /\ stage' = IF PublishDist THEN "sumLinks" ELSE "manifest"
      /\ sums' = [sums EXCEPT !["pool"] = merged]
  BY DEF SumPool, ChecksumDirectory, Names, Goto, endVars
<1>2. sums'["pool"] = merged /\ \A d \in Releases : sums'[d] = sums[d]
  BY <1>1, ReleasesAssumption DEF Settled, PublishedInv, SumsAreFunction
<1>3. DOMAIN merged = DOMAIN pool
  BY DEF Merged
<1>4. AtHome' /\ failures' \in Nat /\ (NoneFailed' => NoneFailed)
  BY <1>1, <1>2 DEF Settled, AllInv, AtHome, NoneFailed
<1>5. ASSUME NoneFailed PROVE PoolSumsTrue' /\ DirSumsTrue'
  <2>1. PoolSumsTrue /\ DirSumsTrue
    BY <1>5 DEF Settled, AllInv
  <2>2. ASSUME NEW n \in DOMAIN pool PROVE merged[n] = pool[n]
    <3>1. CASE n \in DOMAIN sums["pool"]
      <4>1. sums["pool"][n] = pool[n]
        BY <1>1, <2>1, <3>1 DEF PoolSumsTrue, InPoolRenewed
      <4>. QED
        BY <3>1, <4>1 DEF Merged
    <3>2. CASE n \notin DOMAIN sums["pool"]
      <4>1. Own(n)
        BY <2>1, <3>2 DEF PoolSumsTrue
      <4>. QED
        BY <1>1, <3>2, <4>1, OwnIsSummed
    <3>. QED
      BY <3>1, <3>2
  <2>3. PoolSumsTrue'
    <3>. HIDE DEF merged
    <3>. QED
      BY <1>1, <1>2, <1>3, <2>2 DEF PoolSumsTrue
  <2>4. CASE PublishDist
    <3>1. /\ ~InDirRenewed /\ Dir' = Dir /\ DirOpen' /\ DirInUse'
          /\ \A n : Own(n)' <=> Own(n)
      BY <1>1, <2>4 DEF InDirRenewed, Dir, DirOpen, DirInUse, PublishDist, Own, Name
    <3>2. DirSumsTrue'
      BY <1>1, <1>2, <2>1, <3>1 DEF DirSumsTrue
    <3>. QED
      BY <2>3, <3>2
  <2>5. CASE ~PublishDist
    <3>1. ~InDirRenewed /\ ~DirOpen /\ ~DirInUse
      BY <2>5 DEF InDirRenewed, DirOpen, DirInUse
    <3>2. DirSumsTrue'
      BY <1>1, <1>2, <2>1, <3>1 DEF DirSumsTrue
    <3>. QED
      BY <2>3, <3>2
  <2>. QED
    BY <2>4, <2>5
<1>. QED
  BY <1>4, <1>5 DEF AllInv

LEMMA SumLinksSums == Settled /\ SumLinks => AllInv'
<1>. SUFFICES ASSUME Settled, SumLinks PROVE AllInv'
  OBVIOUS
<1>. DEFINE merged == Merged(sums[Dir], Daily, links[Dir])
<1>1. /\ stage = "sumLinks" /\ stage' = "manifest"
      /\ UNCHANGED <<pool, links, args, todo, failures, replaced>>
      /\ sums' = [sums EXCEPT ![Dir] = merged]
  BY DirIsRelease DEF SumLinks, ChecksumDirectory, Names, Goto, endVars
<1>2. /\ sums'[Dir] = merged
      /\ \A d \in Releases \cup {"pool"} : d # Dir => sums'[d] = sums[d]
  BY <1>1, DirIsRelease DEF Settled, PublishedInv, SumsAreFunction
<1>3. DOMAIN merged = links[Dir]
  BY DEF Merged
<1>4. failures' \in Nat /\ (NoneFailed' => NoneFailed)
  BY <1>1 DEF Settled, AllInv, NoneFailed
<1>5. AtHome'
  <2>. HIDE DEF merged
  <2>1. ASSUME NEW d \in Releases, NEW n \in DOMAIN sums'[d] PROVE DirOf(n[2]) = d
    <3>1. CASE d = Dir
      BY <1>2, <1>3, <3>1 DEF Settled, LinkInv, InTheirDirectory
    <3>2. CASE d # Dir
      BY <1>2, <3>2 DEF Settled, AllInv, AtHome
    <3>. QED
      BY <3>1, <3>2
  <2>. QED
    BY <2>1 DEF AtHome
<1>6. ASSUME NoneFailed PROVE PoolSumsTrue' /\ DirSumsTrue'
  <2>1. PoolSumsTrue /\ DirSumsTrue
    BY <1>6 DEF Settled, AllInv
  <2>2. sums'["pool"] = sums["pool"] /\ ~PoolOpen /\ ~InPoolRenewed
    BY <1>1, <1>2, DirIsRelease DEF PoolOpen, InLoop, InPoolRenewed
  <2>3. PoolSumsTrue'
    BY <1>1, <2>1, <2>2 DEF PoolSumsTrue
  <2>4. ASSUME NEW n \in links[Dir] \cap DOMAIN pool PROVE merged[n] = pool[n]
    <3>1. CASE n \in DOMAIN sums[Dir]
      <4>1. sums[Dir][n] = pool[n]
        BY <1>1, <2>1, <3>1, DirIsRelease DEF DirSumsTrue, InDirRenewed
      <4>. QED
        BY <3>1, <4>1 DEF Merged
    <3>2. CASE n \notin DOMAIN sums[Dir]
      <4>1. Own(n)
        BY <2>1, <3>2, DirIsRelease DEF DirSumsTrue
      <4>. QED
        BY <1>1, <3>2, <4>1, OwnIsSummed
    <3>. QED
      BY <3>1, <3>2
  <2>5. ASSUME NEW d \in Releases
        PROVE  /\ \A n \in DOMAIN sums'[d] \cap DOMAIN pool : sums'[d][n] = pool[n]
               /\ links[d] \ DOMAIN sums'[d] = {} /\ DOMAIN sums'[d] \subseteq links[d]
    <3>. HIDE DEF merged
    <3>1. CASE d = Dir
      BY <1>2, <1>3, <2>4, <3>1
    <3>2. CASE d # Dir
      <4>1. sums'[d] = sums[d]
        BY <1>2, <3>2
      <4>2. /\ \A n \in DOMAIN sums[d] \cap DOMAIN pool : sums[d][n] = pool[n]
            /\ links[d] \ DOMAIN sums[d] = {} /\ DOMAIN sums[d] \subseteq links[d]
        BY <2>1, <3>2 DEF DirSumsTrue
      <4>. QED
        BY <4>1, <4>2
    <3>. QED
      BY <3>1, <3>2
  <2>6. DirSumsTrue'
    BY <1>1, <2>5 DEF DirSumsTrue
  <2>. QED
    BY <2>3, <2>6
<1>. QED
  BY <1>4, <1>5, <1>6 DEF AllInv

LEMMA ManifestSums == Settled /\ WriteManifest => AllInv'
<1>. SUFFICES ASSUME Settled, WriteManifest PROVE AllInv'
  OBVIOUS
<1>1. /\ stage = "manifest" /\ UNCHANGED <<pool, links, sums, failures, replaced>>
  BY DEF WriteManifest
<1>2. ~PoolOpen /\ ~DirOpen /\ ~DirInUse /\ ~InPoolRenewed /\ ~InDirRenewed
  BY <1>1 DEF PoolOpen, InLoop, DirOpen, DirInUse, InPoolRenewed, InDirRenewed
<1>3. AtHome' /\ failures' \in Nat /\ (NoneFailed' => NoneFailed)
  BY <1>1 DEF Settled, AllInv, AtHome, NoneFailed
<1>4. ASSUME NoneFailed PROVE PoolSumsTrue' /\ DirSumsTrue'
  <2>1. PoolSumsTrue /\ DirSumsTrue
    BY <1>4 DEF Settled, AllInv
  <2>2. PoolSumsTrue'
    BY <1>1, <1>2, <2>1 DEF PoolSumsTrue
  <2>3. DirSumsTrue'
    BY <1>1, <1>2, <2>1 DEF DirSumsTrue
  <2>. QED
    BY <2>2, <2>3
<1>. QED
  BY <1>3, <1>4 DEF AllInv

LEMMA AllStep == Settled /\ [Next]_vars => AllInv'
<1>. SUFFICES ASSUME Settled, [Next]_vars PROVE AllInv'
  OBVIOUS
<1>1. ASSUME NEW r \in Requests, NEW date \in Dates, NEW status \in Statuses,
             NEW official \in {"yes", "poolonly"}, Start(r[1], r[2], date, official, status)
      PROVE  AllInv'
  BY <1>1, StartSums DEF Start, simpleVars, Settled
<1>2. CASE Fail
  BY <1>2, FailedSums DEF Fail, Failed, simpleVars, Settled
<1>3. CASE UNCHANGED <<pool, links, sums, runVars, endVars, replaced>>
  <2>1. UNCHANGED <<pool, links, sums, stage, args, todo, failures, replaced>>
    BY <1>3 DEF runVars, endVars
  <2>2. AtHome' /\ failures' \in Nat /\ (NoneFailed' => NoneFailed)
    BY <2>1 DEF Settled, AllInv, AtHome, NoneFailed
  <2>3. PoolSumsTrue => PoolSumsTrue'
    BY <2>1 DEF PoolSumsTrue, InPoolRenewed, Renewed, PoolOpen, InLoop, Own, Name
  <2>4. DirSumsTrue => DirSumsTrue'
    BY <2>1 DEF DirSumsTrue, InDirRenewed, Renewed, DirOpen, DirInUse, PoolOpen, InLoop, Own, Name,
       Dir, PublishDist
  <2>. QED
    BY <2>2, <2>3, <2>4 DEF Settled, AllInv
<1>4. CASE TriggerMirrors /\ UNCHANGED <<runVars, endVars, count, lost, replaced>>
  BY <1>3, <1>4 DEF TriggerMirrors, CheckManifest, FetchTree
<1>5. CASE UNCHANGED vars
  BY <1>3, <1>5 DEF vars, simpleVars
<1>. QED
  BY <1>1, <1>2, <1>4, <1>5, UnlinkSums, CopySums, ForgetInPoolSums, LinkSums, ForgetLinkSums,
     PurgeLinksSums, PurgePoolSums, SumPoolSums, SumLinksSums, ManifestSums DEF Next, Publish

LEMMA SettledInit == Init => Settled
<1>. SUFFICES ASSUME Init PROVE Settled
  OBVIOUS
<1>1. Course
  BY DEF Init, Course, InLoop
<1>. QED
  BY <1>1, LinkInit, PublishedInit, AllInit DEF Settled

LEMMA SettledStep == Settled /\ [Next]_vars => Settled'
  BY CourseStep, LinkStep, PublishedStep, AllStep DEF Settled

(* When a publication ends well, its images have true checksums in the pool,   *)
(* and in the directory where they are visible, however earlier ones ended     *)
(* (publish-release:289-301, 476-487); and all others, carried over from file  *)
(* to file unread (checksums.py:88-110), are true as long as no command has    *)
(* failed and nothing that is linked was replaced in secret.                   *)
THEOREM ChecksumsTrue == Spec => []SumsTrue
<1>1. Settled => SumsTrue
  <2>. SUFFICES ASSUME Settled PROVE SumsTrue
    OBVIOUS
  <2>1. PublishedSumsTrue
    BY DEF Settled, PublishedInv
  <2>2. ASSUME Done, NoneFailed PROVE WholeSums
    BY <2>2, WholeWhenIdle DEF Settled, Done
  <2>3. DOMAIN sums = Releases \cup {"pool"}
    BY DEF Settled, PublishedInv, SumsAreFunction
  <2>4. \A n \in DOMAIN pool : WholeSums => sums["pool"][n] = pool[n]
    BY DEF WholeSums
  <2>5. AllSumsTrue
    BY <2>2, <2>3, <2>4 DEF AllSumsTrue, NoneFailed, WholeSums
  <2>. QED
    BY <2>1, <2>5 DEF SumsTrue
<1>. QED
  BY SettledInit, SettledStep, <1>1, PTL DEF Spec

-----------------------------------------------------------------------------
(* "poolonly" publishes in secret: it comes to no command that links, unlinks  *)
(* or purges (publish-release:264-267, 296-301, 416-425, 482), and copies only *)
(* images of the architectures it publishes.                                   *)
THEOREM OnlyThePool == Spec => PoolOnlyUnseen
<1>. DEFINE Unseen == stage # "idle" /\ args.official = "poolonly" =>
                /\ links' = links
                /\ \A n \in Linked \ {Name(a) : a \in args.arches} : Content(n)' = Content(n)
<1>1. Course /\ [Next]_vars => [Unseen]_vars
  <2>. SUFFICES ASSUME Course, [Next]_vars, stage # "idle", args.official = "poolonly"
       PROVE  /\ links' = links
              /\ \A n \in Linked \ {Name(a) : a \in args.arches} : Content(n)' = Content(n)
    OBVIOUS
  <2>1. stage \notin {"unlink", "link", "forgetLink", "purgeLinks", "purgePool", "sumLinks"}
    BY DEF Course, PublishDist
  <2>2. CASE Copy
    <3>. DEFINE name == Name(Head(todo))
    <3>1. /\ links' = links /\ DOMAIN pool' = DOMAIN pool \cup {name}
          /\ \A n \in DOMAIN pool : n # name => pool'[n] = pool[n]
      BY <2>2 DEF Copy, Store
    <3>2. Head(todo) \in args.arches
      BY <2>2 DEF Copy, Course, InLoop
    <3>. QED
      BY <3>1, <3>2 DEF Content
  <2>3. CASE UNCHANGED <<pool, links>>
    BY <2>3 DEF Content
  <2>4. Copy \/ UNCHANGED <<pool, links>>
    BY <2>1 DEF Next, Publish, Start, UnlinkReleased, ForgetInPool, Link, ForgetLink, PurgeLinks,
       PurgePool, SumPool, SumLinks, WriteManifest, Fail, TriggerMirrors, CheckManifest, FetchTree,
       simpleVars, vars
  <2>. QED
    BY <2>2, <2>3, <2>4
<1>2. Init => Course
  BY SettledInit DEF Settled
<1>. QED
  BY <1>1, <1>2, CourseStep, PTL DEF Spec, PoolOnlyUnseen
=============================================================================
