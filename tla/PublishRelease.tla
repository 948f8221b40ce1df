---------------------------- MODULE PublishRelease ----------------------------
(* bin/publish-release: an operator makes images of a daily build a release,   *)
(* in the pool only ("poolonly", so that mirrors have them before everybody    *)
(* sees them) or in the release's directory as well ("yes", which removes      *)
(* images with any other status).  It runs one command after the other under   *)
(* "set -e": any of them may fail and leave what is there.  Operators run one  *)
(* publication at a time; sync-mirrors, which other scripts run as well, comes *)
(* at any moment.  The full tree ("named", "no"), torrents, metalinks and      *)
(* CDIMAGE_NO_PURGE are left out.                                              *)
EXTENDS SimpleTree, Naturals

CONSTANTS
    ArchesOf(_),        \* architectures that daily builds have images of, by type
    Requests,           \* what an operator publishes: a type, and ARCHES
    Statuses, Release,  \* "release", whose FILESTATUS is empty, and others
    Dates,              \* daily builds
    Built(_, _, _),     \* the build an image of a daily directory is from
    MaxPublications, MaxFailures    \* bounds

ASSUME ReleasesAssumption == {"dist", "source"} \subseteq Releases /\ "pool" \notin Releases
ASSUME RequestsAssumption == \A r \in Requests : r[2] \in Seq(ArchesOf(r[1])) \ {<<>>}
ASSUME DatesAreNumbers == Dates \subseteq Nat \ {0}
ASSUME StatusesAssumption == Release \in Statuses
ASSUME Bounds == MaxPublications \in Nat /\ MaxFailures \in Nat

VARIABLES
    stage,      \* the next command
    args,       \* the arguments: [type, date, official, status]
    todo,       \* architectures that are not copied yet
    count,      \* publications so far
    ended,      \* how the last one ended: "", "done", or "failed"
    lost,       \* history: images purged by publications in another directory
    replaced,   \* history: "poolonly" has replaced what links lead to
    failures    \* commands that failed, or were refused

runVars == <<stage, args, todo>>
endVars == <<ended, failures>>
vars == <<simpleVars, runVars, endVars, count, lost, replaced>>

Partial == Max(Dates) + 1      \* the content of a copy that broke off

DirOf(type) == IF type = "src" THEN "source" ELSE "dist"
Dir == DirOf(args.type)
Name(arch) == <<args.status, args.type, arch>>
PublishDist == args.official = "yes"
Goto(next) == stage' = next

(* What DAILY's checksum file says, under the names that --map gives.          *)
Daily ==
    [date |-> args.date,
     sums |-> [n \in {Name(a) : a \in ArchesOf(args.type)} |->
                  Built(args.date, args.type, n[3])]]

(* What fails whenever it is run: there is a link that leads nowhere, and      *)
(* site-manifest asks stat about it, or nothing has a checksum for it.         *)
Refused ==
    \/ stage = "manifest" /\ StatFails
    \/ stage = "sumLinks" /\ ~Summable(Dir, Daily)

Failed ==
    /\ Refused \/ failures < MaxFailures
    /\ failures' = failures + 1
    /\ Goto("idle") /\ ended' = "failed"

-----------------------------------------------------------------------------
Start(type, arches, date, official, status) ==
    /\ stage = "idle" /\ count < MaxPublications
    /\ count' = count + 1
    /\ ended' = ""
    /\ args' = [type |-> type, date |-> date, official |-> official, status |-> status,
                arches |-> ToSet(arches)]
    /\ todo' = arches
    /\ Goto(IF official = "yes" THEN "unlink" ELSE "copy")
    /\ UNCHANGED <<simpleVars, failures, lost, replaced>>

(* find -name "$CDPREFIX-$TYPE-*": links without a status in their names, of   *)
(* every architecture.                                                         *)
UnlinkReleased ==
    /\ stage = "unlink"
    /\ LET old == {n \in links[Dir] : n[1] = Release /\ n[2] = args.type} IN
         /\ links' = [links EXCEPT ![Dir] = @ \ old]
         /\ Notice(old # {})
    /\ Goto("copy")
    /\ UNCHANGED <<pool, sums, manifest, sync, args, todo, endVars, count, lost, replaced>>

(* cp -a into the pool, over what is there; it may break off.                  *)
Store(name, content) ==
    pool' = [n \in DOMAIN pool \cup {name} |-> IF n = name THEN content ELSE pool[n]]

Copy ==
    /\ stage = "copy"
    /\ LET name == Name(Head(todo)) IN
         \/ /\ Store(name, Built(args.date, args.type, Head(todo)))
            /\ Goto("forget")
            /\ replaced' = (replaced \/ (name \in Linked /\ ~PublishDist))
            /\ UNCHANGED endVars
         \/ /\ Store(name, Partial)
            /\ Failed
            /\ UNCHANGED replaced
    /\ UNCHANGED <<links, sums, manifest, sync, unnoticed, args, todo, count, lost>>

NextImage ==
    /\ todo' = Tail(todo)
    /\ Goto(IF Len(todo) > 1 THEN "copy"
            ELSE IF PublishDist THEN "purgeLinks" ELSE "sumPool")

\* Mutant: links are made whatever is published.
ForgetAndLink ==
    /\ stage = "forget"
    /\ Forget("pool", Name(Head(todo)))
    /\ Goto("link")
    /\ UNCHANGED <<pool, links, manifest, sync, unnoticed, args, todo, endVars, count, lost, replaced>>

ForgetInPool ==
    /\ stage = "forget"
    /\ Forget("pool", Name(Head(todo)))
    /\ IF PublishDist THEN Goto("link") /\ UNCHANGED todo ELSE NextImage
    /\ UNCHANGED <<pool, links, manifest, sync, unnoticed, args, endVars, count, lost, replaced>>

Link ==
    /\ stage = "link"
    /\ links' = [links EXCEPT ![Dir] = @ \cup {Name(Head(todo))}]
    /\ Goto("forgetLink")
    /\ UNCHANGED <<pool, sums, manifest, sync, unnoticed, args, todo, endVars, count, lost, replaced>>

ForgetLink ==
    /\ stage = "forgetLink"
    /\ Forget(Dir, Name(Head(todo)))
    /\ NextImage
    /\ UNCHANGED <<pool, links, manifest, sync, unnoticed, args, endVars, count, lost, replaced>>

(* ! -regex ".*/$CDPREFIX${FILESTATUS:+-$FILESTATUS}-[^-]*-[^-]*"              *)
Kept(names) == {n \in names : n[1] = args.status}

\* Mutant: only the pool is purged.
KeepLinks(names) == names
KeptLinks(names) == Kept(names)

(* First the links of the directory, then the pool, for all types.             *)
PurgeLinks ==
    /\ stage = "purgeLinks"
    /\ links' = [links EXCEPT ![Dir] = KeptLinks(@)]
    /\ Notice(links' # links)
    /\ Goto("purgePool")
    /\ UNCHANGED <<pool, sums, manifest, sync, args, todo, endVars, count, lost, replaced>>

PurgePool ==
    /\ stage = "purgePool"
    /\ pool' = Restrict(pool, Kept(DOMAIN pool))
    /\ Notice(pool' # pool)
    /\ lost' = lost \cup {n \in DOMAIN pool \ DOMAIN pool' : DirOf(n[2]) # Dir}
    /\ Goto("sumPool")
    /\ UNCHANGED <<links, sums, manifest, sync, args, todo, endVars, count, replaced>>

SumPool ==
    /\ stage = "sumPool"
    /\ ChecksumDirectory("pool", Daily)
    /\ Goto(IF PublishDist THEN "sumLinks" ELSE "manifest")
    /\ UNCHANGED <<pool, links, manifest, sync, unnoticed, args, todo, endVars, count, lost, replaced>>

SumLinks ==
    /\ stage = "sumLinks"
    /\ ChecksumDirectory(Dir, Daily)
    /\ Goto("manifest")
    /\ UNCHANGED <<pool, links, manifest, sync, unnoticed, args, todo, endVars, count, lost, replaced>>

(* site-manifest into a new file, and mv: nothing else changes the tree.       *)
WriteManifest ==
    /\ stage = "manifest"
    /\ SiteManifest
    /\ Goto("idle") /\ ended' = "done"
    /\ UNCHANGED <<pool, links, sums, sync, args, todo, failures, count, lost, replaced>>

(* The command that is next fails, as site-manifest does when stat does.       *)
Fail ==
    /\ stage # "idle"
    /\ Failed
    /\ UNCHANGED <<simpleVars, args, todo, count, lost, replaced>>

-----------------------------------------------------------------------------
Init ==
    /\ SimpleInit
    /\ stage = "idle" /\ args = <<>> /\ todo = <<>>
    /\ count = 0 /\ ended = "" /\ failures = 0 /\ lost = {} /\ replaced = FALSE

Publish ==
    \/ UnlinkReleased \/ Copy \/ ForgetInPool \/ Link \/ ForgetLink
    \/ PurgeLinks \/ PurgePool \/ SumPool \/ SumLinks \/ WriteManifest

Next ==
    \/ \E r \in Requests, date \in Dates, status \in Statuses, official \in {"yes", "poolonly"} :
           Start(r[1], r[2], date, official, status)
    \/ Publish \/ Fail
    \/ TriggerMirrors /\ UNCHANGED <<runVars, endVars, count, lost, replaced>>

Spec == Init /\ [][Next]_vars

-----------------------------------------------------------------------------
Done == stage = "idle" /\ ended = "done"

(* "so if we're publishing there then we can now safely clean up previous      *)
(* images for that release" (publish-release:416-417): between publications,   *)
(* every link of a release leads to an image.                                  *)
LinksResolve ==
    stage = "idle" => \A d \in Releases : links[d] \subseteq DOMAIN pool

(* At no moment of a publication, and wherever it fails, does a link lead      *)
(* nowhere whose image it has removed itself or one before it in the same      *)
(* directory; what a publication in the other directory (sources, or images)   *)
(* has removed is LinksResolve's case.                                         *)
OwnLinksResolve == Linked \ DOMAIN pool \subseteq lost

(* However earlier publications ended: when one ends well, the pool's checksum *)
(* file, and the directory's if it is visible there, has a true checksum of    *)
(* every image it has published (checksum-remove).                             *)
PublishedSumsTrue ==
    Done =>
        \A a \in args.arches, d \in {"pool"} \cup (IF PublishDist THEN {Dir} ELSE {}) :
            Name(a) \in DOMAIN sums[d] /\ sums[d][Name(a)] = Content(Name(a))

(* As long as no command has failed and no "poolonly" publication has replaced *)
(* what links lead to, all checksums in the tree are true, although most of    *)
(* them are carried over from file to file unread (ChecksumFile.merge).        *)
AllSumsTrue ==
    Done /\ failures = 0 /\ ~replaced =>
        \A d \in DOMAIN sums : \A n \in DOMAIN sums[d] : n \in DOMAIN pool => sums[d][n] = pool[n]

(* Both: what is carried over from file to file, and what replaces it.         *)
SumsTrue == PublishedSumsTrue /\ AllSumsTrue

(* "poolonly" is "generally not visible" (README.old:170): until "yes", links  *)
(* and what they lead to stay as they are, unless it publishes an image under  *)
(* a name that is linked.                                                      *)
PoolOnlyUnseen ==
    [][ stage # "idle" /\ args.official = "poolonly" =>
            /\ links' = links
            /\ \A n \in Linked \ {Name(a) : a \in args.arches} : Content(n)' = Content(n) ]_vars

(* What the manifest lists is there, and a mirror gets all of it, whatever     *)
(* publications are under way or have failed, unless something was removed     *)
(* after the manifest was written, or after sync-mirrors has checked it.       *)
ManifestHolds ==
    "manifest" \notin unnoticed \/ (sync = "checked" /\ "check" \notin unnoticed) =>
        \A p \in manifest : Exists(p)
=============================================================================
